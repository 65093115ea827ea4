-------------------------- MODULE JwksCacheProofs --------------------------
(* What JwksCache guarantees for every set of requests, tokens and keys. *)
EXTENDS JwksCache, TLAPS

USE JwksAssumption

Fetching == {"fetch", "store", "reread"}

\* The defects that verify finds once it has the key, if any.
Judged == {"none", "encoding", "signature", "issuer"}
USE DEF Judged

\* sesame-idam publishes k, or did until t or later.
PublishedSince(k, t) == k \in jwks \/ (retired[k] # None /\ t <= retired[k])

\* Only a token that is whole and an EdDSA one costs a fetch.
FetchesForWhole ==
  \A r \in Requests :
    request[r].pc \in Fetching => Defective(r) \in Judged

\* An answer is what sesame-idam published when it sent it, at most MaxDelay ago.
AnswersPublished ==
  \A r \in Requests :
    request[r].pc \in {"store", "reread"} =>
      /\ request[r].at <= now /\ now <= request[r].at + MaxDelay
      /\ \A k \in request[r].answer \cap EdKeys : PublishedSince(k, request[r].at)

\* What is cached was published when it was stored, or at most MaxDelay before.
CachePublished ==
  cache # None =>
    /\ cache.fetched_at <= now
    /\ \A k \in cache.keys :
         k \in jwks \/ (retired[k] # None /\ cache.fetched_at <= retired[k] + MaxDelay)

\* A call that nobody raced finds its own answer, which is still young enough.
OwnAnswerCached ==
  \A r \in Requests :
    request[r].pc = "reread" /\ ~request[r].raced =>
      /\ cache # None
      /\ cache.keys = ParseJwks(request[r].answer)
      /\ request[r].at <= cache.fetched_at

\* A call that runs has no reply.
NoReplyYet == \A r \in Requests : request[r].pc # "done" => request[r].reply = "none"

\* The inductive invariant.
IInv ==
  /\ TypeOK
  /\ FetchesForWhole /\ AnswersPublished
  /\ CachePublished /\ OwnAnswerCached
  /\ NoReplyYet

-----------------------------------------------------------------------------
(* What the steps share. *)

\* What verify replies once it has the key, and what an acceptance means.
LEMMA VerdictTyped ==
  ASSUME NEW r \in Requests, Defective(r) \in Judged
  PROVE  /\ Verdict(r) \in {"Malformed", "BadSignature", "Expired", "IssuerMismatch", "accepted"}
         /\ Verdict(r) = "accepted" => Defective(r) = "none" /\ ~Expired(r)
<1>1. CASE Defective(r) = "encoding"
  BY <1>1 DEF Verdict
<1>2. CASE Defective(r) = "signature"
  BY <1>2 DEF Verdict
<1>3. CASE Defective(r) \notin {"encoding", "signature"} /\ Expired(r)
  BY <1>3 DEF Verdict
<1>4. CASE Defective(r) = "issuer" /\ ~Expired(r)
  BY <1>4 DEF Verdict
<1>5. CASE Defective(r) = "none" /\ ~Expired(r)
  BY <1>5 DEF Verdict
<1> QED
  BY <1>1, <1>2, <1>3, <1>4, <1>5

\* The fields of a call have their types.
LEMMA CallFields ==
  ASSUME TypeOK, NEW r \in Requests
  PROVE  /\ request[r] \in Call
         /\ request[r].token \in Tokens
         /\ request[r].answer \subseteq Keys
         /\ request[r].at \in 0..MaxTime /\ request[r].at \in Nat
BY DEF TypeOK, Call

\* No call but r changes, and r keeps its token.
OnlyCall(r) ==
  /\ request' \in [Requests -> Call]
  /\ \A q \in Requests \ {r} : request'[q] = request[q]
  /\ request'[r].token = request[r].token

Replies == {"accepted", "Malformed", "BadSignature", "Expired", "IssuerMismatch",
            "UnknownKey", "JwksUnavailable"}

\* A reply ends its call, which forgets its answer.
LEMMA ReplyTyped ==
  ASSUME TypeOK, NEW r \in Requests, NEW reply \in Replies, Reply(r, reply)
  PROVE  OnlyCall(r) /\ request'[r].pc = "done" /\ request'[r].reply = reply
<1> DEFINE new == [token |-> request[r].token, pc |-> "done", answer |-> {}, at |-> 0,
                   raced |-> FALSE, reply |-> reply]
<1>1. new \in Call
  BY CallFields DEF Call, Replies
<1>2. request' = [request EXCEPT ![r] = new]
  BY DEF Reply
<1> QED
  BY <1>1, <1>2 DEF TypeOK, OnlyCall

\* A step of one call that leaves the cache, the clock and sesame-idam alone keeps the
\* invariant if what the call holds afterwards does.
LEMMA OneCall ==
  ASSUME IInv, NEW r \in Requests, OnlyCall(r), UNCHANGED <<now, jwks, retired, cache>>,
         request'[r].pc \in Fetching => Defective(r) \in Judged,
         request'[r].pc = "store" =>
           /\ request'[r].at <= now /\ now <= request'[r].at + MaxDelay
           /\ \A k \in request'[r].answer \cap EdKeys : PublishedSince(k, request'[r].at),
         request'[r].pc # "reread",
         request'[r].pc # "done" => request'[r].reply = "none"
  PROVE  IInv'
<1>1. TypeOK'
  BY DEF IInv, TypeOK, OnlyCall
<1>2. FetchesForWhole'
  BY DEF IInv, FetchesForWhole, OnlyCall, Defective
<1>3. AnswersPublished'
  BY DEF IInv, AnswersPublished, OnlyCall, PublishedSince
<1>4. CachePublished' /\ OwnAnswerCached'
  BY DEF IInv, CachePublished, OwnAnswerCached, OnlyCall, ParseJwks
<1>5. NoReplyYet'
  BY DEF IInv, NoReplyYet, OnlyCall
<1> QED
  BY <1>1, <1>2, <1>3, <1>4, <1>5 DEF IInv

-----------------------------------------------------------------------------
\* The initial state satisfies the invariant.
LEMMA InitIInv == Init => IInv
<1> SUFFICES ASSUME Init PROVE IInv
  OBVIOUS
<1>1. ASSUME NEW r \in Requests
      PROVE  request[r] \in Call /\ request[r].pc = "idle" /\ request[r].reply = "none"
  <2>1. PICK t \in Tokens :
          request[r] = [token |-> t, pc |-> "idle", answer |-> {}, at |-> 0,
                        raced |-> FALSE, reply |-> "none"]
    BY DEF Init
  <2> QED
    BY <2>1 DEF Call
<1>2. TypeOK
  <2>1. request \in [Requests -> Call]
    BY <1>1 DEF Init
  <2>2. jwks \subseteq Keys
    BY DEF Init, Keys
  <2> QED
    BY <2>1, <2>2 DEF Init, TypeOK
<1>3. FetchesForWhole /\ AnswersPublished /\ OwnAnswerCached /\ CachePublished /\ NoReplyYet
  BY <1>1 DEF Init, FetchesForWhole, AnswersPublished, OwnAnswerCached, CachePublished, Fetching,
              NoReplyYet
<1> QED
  BY <1>2, <1>3 DEF IInv

\* verify's first look into the cache.
LEMMA LookupStep == ASSUME IInv, NEW r \in Requests, Lookup(r) PROVE IInv'
<1> TypeOK
  BY DEF IInv
<1>1. UNCHANGED <<now, jwks, retired, cache>>
  BY DEF Lookup
<1>2. CASE \E reply \in Replies : Reply(r, reply)
  <2>1. OnlyCall(r) /\ request'[r].pc = "done"
    BY <1>2, ReplyTyped
  <2> QED
    BY <1>1, <2>1, OneCall DEF Fetching
<1>3. CASE /\ Defective(r) \notin {"shape", "alg"}
           /\ request' = [request EXCEPT ![r].pc = "fetch"]
  <2>1. Defective(r) \in Judged
    BY <1>3, CallFields DEF Token, Defect, Defective
  <2>2. OnlyCall(r) /\ request'[r].pc = "fetch" /\ request'[r].reply = request[r].reply
    <3>1. [request[r] EXCEPT !.pc = "fetch"] \in Call
      BY CallFields DEF Call
    <3> QED
      BY <1>3, <3>1, CallFields DEF TypeOK, OnlyCall, Call
  <2>3. request[r].reply = "none"
    BY DEF Lookup, IInv, NoReplyYet
  <2> QED
    BY <1>1, <2>1, <2>2, <2>3, OneCall
<1>4. Defective(r) \notin {"shape", "alg"} => Verdict(r) \in Replies
  <2>1. Defective(r) \in Defect
    BY CallFields DEF Token, Defective
  <2> QED
    BY <2>1, VerdictTyped DEF Defect, Replies
<1> QED
  BY <1>2, <1>3, <1>4 DEF Lookup, Replies

\* sesame-idam answers with what it publishes.
LEMMA FetchStep == ASSUME IInv, NEW r \in Requests, Fetch(r) PROVE IInv'
<1> TypeOK
  BY DEF IInv
<1>1. request[r].pc = "fetch" /\ UNCHANGED <<now, jwks, retired, cache>>
  BY DEF Fetch
<1>2. /\ OnlyCall(r) /\ request'[r].pc = "store"
      /\ request'[r].answer = jwks /\ request'[r].at = now
      /\ request'[r].reply = request[r].reply
  <2>1. [request[r] EXCEPT !.pc = "store", !.answer = jwks, !.at = now] \in Call
    BY CallFields DEF Call, TypeOK
  <2> QED
    BY <2>1, CallFields DEF Fetch, TypeOK, OnlyCall, Call
<1>3. Defective(r) \in Judged
  BY <1>1 DEF IInv, FetchesForWhole, Fetching
<1>4. now <= now /\ now <= now + MaxDelay
  BY DEF TypeOK
<1>5. \A k \in jwks \cap EdKeys : PublishedSince(k, now)
  BY DEF PublishedSince
<1>6. request[r].reply = "none"
  BY <1>1 DEF IInv, NoReplyYet
<1> QED
  BY <1>1, <1>2, <1>3, <1>4, <1>5, <1>6, OneCall

\* No answer, or the second look into the cache: the call ends.
LEMMA EndStep ==
  ASSUME IInv, NEW r \in Requests, FetchFails(r) \/ Reread(r) PROVE IInv'
<1> TypeOK
  BY DEF IInv
<1>1. UNCHANGED <<now, jwks, retired, cache>>
  BY DEF FetchFails, Reread
<1>2. Reread(r) => Defective(r) \in Judged
  BY DEF Reread, IInv, FetchesForWhole, Fetching
<1>3. \E reply \in Replies : Reply(r, reply)
  BY <1>2, VerdictTyped DEF FetchFails, Reread, Replies
<1>4. OnlyCall(r) /\ request'[r].pc = "done"
  BY <1>3, ReplyTyped
<1> QED
  BY <1>1, <1>4, OneCall DEF Fetching

\* The answer replaces the cache: it is dated later than it was sent, by MaxDelay at most,
\* and every call that had stored its own and not yet looked is raced.
LEMMA StoreStep == ASSUME IInv, NEW r \in Requests, Store(r) PROVE IInv'
<1> TypeOK
  BY DEF IInv
<1>1. /\ request[r].pc = "store" /\ UNCHANGED <<now, jwks, retired>>
      /\ cache' = [keys |-> ParseJwks(request[r].answer), fetched_at |-> now]
  BY DEF Store
<1>2. now \in Nat /\ now \in 0..MaxTime
  BY DEF TypeOK
<1>3. /\ \A q \in Requests :
           /\ request'[q] \in Call
           /\ request'[q].token = request[q].token
           /\ request'[q].answer = request[q].answer
           /\ request'[q].at = request[q].at
           /\ request'[q].reply = request[q].reply
      /\ request'[r].pc = "reread"
      /\ \A q \in Requests \ {r} :
           /\ request'[q].pc = request[q].pc
           /\ request[q].pc = "reread" => request'[q].raced
      /\ request' = [q \in Requests |-> request'[q]]
  <2> DEFINE new(q) == IF q = r THEN [request[q] EXCEPT !.pc = "reread"]
                       ELSE [request[q] EXCEPT !.raced =
                               request[q].raced \/ request[q].pc = "reread"]
  <2>1. request' = [q \in Requests |-> new(q)]
    BY DEF Store
  <2>2. ASSUME NEW q \in Requests, q # r
        PROVE  /\ new(q) \in Call
               /\ new(q).token = request[q].token /\ new(q).answer = request[q].answer
               /\ new(q).at = request[q].at /\ new(q).pc = request[q].pc
               /\ new(q).reply = request[q].reply
               /\ request[q].pc = "reread" => new(q).raced
    <3>1. (request[q].raced \/ request[q].pc = "reread") \in BOOLEAN
      OBVIOUS
    <3> QED
      BY <2>2, <3>1, CallFields DEF Call
  <2>3. /\ new(r) \in Call /\ new(r).pc = "reread"
        /\ new(r).token = request[r].token /\ new(r).answer = request[r].answer
        /\ new(r).at = request[r].at /\ new(r).reply = request[r].reply
    BY CallFields DEF Call
  <2> HIDE DEF new
  <2> QED
    BY <2>1, <2>2, <2>3
<1>4. ParseJwks(request[r].answer) \subseteq EdKeys
  BY DEF ParseJwks
<1>5. /\ request[r].at <= now /\ now <= request[r].at + MaxDelay
      /\ \A k \in request[r].answer \cap EdKeys : PublishedSince(k, request[r].at)
  BY <1>1 DEF IInv, AnswersPublished
<1>0. cache' \in CachedKeys /\ cache' # None
  BY <1>1, <1>2, <1>4 DEF CachedKeys
<1>6. TypeOK'
  <2>2. request' \in [Requests -> Call]
    BY <1>3
  <2> QED
    BY <1>0, <1>1, <2>2 DEF TypeOK
<1>7. FetchesForWhole'
  BY <1>1, <1>3 DEF IInv, FetchesForWhole, Defective, Fetching
<1>8. AnswersPublished'
  BY <1>1, <1>3 DEF IInv, AnswersPublished, PublishedSince
<1>9. CachePublished'
  <2>1. ASSUME NEW k \in ParseJwks(request[r].answer), k \notin jwks
        PROVE  retired[k] # None /\ now <= retired[k] + MaxDelay
    <3>1. k \in EdKeys /\ retired[k] # None /\ request[r].at <= retired[k]
      BY <1>5, <2>1 DEF PublishedSince, ParseJwks
    <3>2. retired[k] \in Nat /\ request[r].at \in Nat
      BY <3>1, CallFields DEF TypeOK
    <3> QED
      BY <1>2, <1>5, <3>1, <3>2
  <2>2. cache'.keys = ParseJwks(request[r].answer) /\ cache'.fetched_at = now
    BY <1>1
  <2> QED
    BY <1>1, <1>2, <2>1, <2>2 DEF CachePublished
<1>10. OwnAnswerCached'
  <2> SUFFICES ASSUME NEW q \in Requests, request'[q].pc = "reread", ~request'[q].raced
               PROVE  /\ cache' # None
                      /\ cache'.keys = ParseJwks(request'[q].answer)
                      /\ request'[q].at <= cache'.fetched_at
    BY DEF OwnAnswerCached, ParseJwks
  <2>1. q = r
    BY <1>3
  <2> QED
    BY <1>0, <1>1, <1>3, <1>5, <2>1
<1>11. NoReplyYet'
  BY <1>1, <1>3 DEF IInv, NoReplyYet
<1> QED
  BY <1>6, <1>7, <1>8, <1>9, <1>10, <1>11 DEF IInv

\* sesame-idam publishes a key, or withdraws one, which was published until now.
LEMMA RotateStep == ASSUME IInv, NEW k \in EdKeys, Rotate(k) PROVE IInv'
<1> TypeOK
  BY DEF IInv
<1>1. UNCHANGED <<now, cache, request>>
  BY DEF Rotate
<1>2. now \in Nat /\ now \in 0..MaxTime /\ now # None
  BY DEF TypeOK
<1>3. /\ jwks' \subseteq Keys /\ retired' \in [EdKeys -> 0..MaxTime \cup {None}]
      /\ \A e \in EdKeys :
           \/ (e \in jwks => e \in jwks') /\ retired'[e] = retired[e]
           \/ e \notin jwks' /\ retired'[e] = now /\ e \in jwks
  BY <1>2 DEF Rotate, TypeOK, Keys
<1>4. TypeOK'
  BY <1>1, <1>3 DEF TypeOK
<1>5. FetchesForWhole' /\ OwnAnswerCached' /\ NoReplyYet'
  BY <1>1 DEF IInv, FetchesForWhole, OwnAnswerCached, NoReplyYet, Defective, ParseJwks
<1>6. AnswersPublished'
  <2> SUFFICES ASSUME NEW r \in Requests, request[r].pc \in {"store", "reread"},
                      NEW e \in request[r].answer \cap EdKeys
               PROVE  PublishedSince(e, request[r].at)'
    BY <1>1 DEF IInv, AnswersPublished
  <2>1. PublishedSince(e, request[r].at) /\ request[r].at <= now
    BY DEF IInv, AnswersPublished
  <2> QED
    BY <1>1, <1>2, <1>3, <2>1 DEF PublishedSince
<1>7. CachePublished'
  <2> SUFFICES ASSUME cache # None
               PROVE  /\ cache.fetched_at <= now
                      /\ \A e \in cache.keys :
                           \/ e \in jwks'
                           \/ retired'[e] # None /\ cache.fetched_at <= retired'[e] + MaxDelay
    BY <1>1 DEF CachePublished
  <2>1. cache.fetched_at <= now /\ cache.fetched_at \in Nat /\ cache.keys \subseteq EdKeys
    BY DEF IInv, CachePublished, TypeOK, CachedKeys
  <2>2. ASSUME NEW e \in cache.keys
        PROVE  \/ e \in jwks'
               \/ retired'[e] # None /\ cache.fetched_at <= retired'[e] + MaxDelay
    <3>1. e \in jwks \/ (retired[e] # None /\ cache.fetched_at <= retired[e] + MaxDelay)
      BY DEF IInv, CachePublished
    <3>2. cache.fetched_at <= now + MaxDelay
      BY <1>2, <2>1
    <3> QED
      BY <1>2, <1>3, <2>1, <3>1, <3>2
  <2> QED
    BY <2>1, <2>2
<1> QED
  BY <1>4, <1>5, <1>6, <1>7 DEF IInv

\* Time passes, but not beyond the delay of an answer.
LEMMA TickStep == ASSUME IInv, Tick PROVE IInv'
<1> TypeOK
  BY DEF IInv
<1>1. now' = now + 1 /\ now \in Nat /\ UNCHANGED <<jwks, retired, cache, request>>
  BY DEF Tick, TypeOK
<1>2. TypeOK'
  BY <1>1 DEF Tick, TypeOK
<1>3. FetchesForWhole' /\ OwnAnswerCached' /\ NoReplyYet'
  BY <1>1 DEF IInv, FetchesForWhole, OwnAnswerCached, NoReplyYet, Defective, ParseJwks
<1>4. AnswersPublished'
  <2> SUFFICES ASSUME NEW r \in Requests, request[r].pc \in {"store", "reread"}
               PROVE  request[r].at <= now' /\ now' <= request[r].at + MaxDelay
    BY <1>1 DEF IInv, AnswersPublished, PublishedSince
  <2>1. request[r].at <= now /\ now - request[r].at < MaxDelay /\ request[r].at \in Nat
    BY CallFields DEF IInv, AnswersPublished, Tick
  <2> QED
    BY <1>1, <2>1
<1>5. CachePublished'
  <2>1. cache # None => cache.fetched_at \in Nat
    BY DEF TypeOK, CachedKeys
  <2> QED
    BY <1>1, <2>1 DEF IInv, CachePublished
<1> QED
  BY <1>2, <1>3, <1>4, <1>5 DEF IInv

\* Every step keeps the invariant.
LEMMA NextIInv == IInv /\ [Next]_vars => IInv'
<1> SUFFICES ASSUME IInv, [Next]_vars PROVE IInv'
  OBVIOUS
<1>1. CASE UNCHANGED vars
  BY <1>1 DEF IInv, TypeOK, FetchesForWhole, AnswersPublished, CachePublished, OwnAnswerCached,
              NoReplyYet, PublishedSince, Defective, ParseJwks, vars
<1> QED
  BY <1>1, LookupStep, FetchStep, EndStep, StoreStep, RotateStep, TickStep DEF Next

\* In every behaviour, every state satisfies the invariant.
THEOREM InductiveInvariant == Spec => []IInv
BY InitIInv, NextIInv, PTL DEF Spec

\* The cache and the calls of verify keep their types.
THEOREM TypeCorrectness == Spec => []TypeOK
<1>1. IInv => TypeOK
  BY DEF IInv
<1> QED
  BY <1>1, InductiveInvariant, PTL

-----------------------------------------------------------------------------
(* The two action properties. *)

\* A call is given a verdict by its first or its second look into the cache, and only if
\* the key is there then.
LEMMA VerdictNeedsKey ==
  ASSUME IInv, Next, NEW r \in Requests,
         request[r].reply = "none", request'[r].reply = "accepted"
  PROVE  Cached(Kid(r)) /\ Verdict(r) = "accepted"
           /\ Defective(r) \in Judged
<1> TypeOK
  BY DEF IInv
<1>1. ASSUME NEW q \in Requests, q # r, Lookup(q) \/ Fetch(q) \/ FetchFails(q) \/ Reread(q)
      PROVE  FALSE
  BY <1>1 DEF Lookup, Fetch, FetchFails, Reread, Reply, TypeOK
<1>2. ASSUME NEW q \in Requests, Store(q) PROVE FALSE
  <2>1. request'[r].reply = request[r].reply
    BY <1>2, CallFields DEF Store, Call
  <2> QED
    BY <2>1
<1>3. ~Tick /\ \A k \in EdKeys : ~Rotate(k)
  BY DEF Tick, Rotate
<1>4. ~Fetch(r)
  <2>1. Fetch(r) => request'[r].reply = request[r].reply
    BY CallFields DEF Fetch, TypeOK, Call
  <2> QED
    BY <2>1
<1>5. ~FetchFails(r)
  BY DEF FetchFails, Reply, TypeOK
<1>6. CASE Lookup(r)
  <2>1. /\ Defective(r) \notin {"shape", "alg"}
        /\ Cached(Kid(r)) /\ Reply(r, Verdict(r))
    <3>1. ~Reply(r, "Malformed") /\ ~Reply(r, "BadSignature")
      BY DEF Reply, TypeOK
    <3>2. request' # [request EXCEPT ![r].pc = "fetch"]
      BY CallFields DEF TypeOK, Call
    <3> QED
      BY <1>6, <3>1, <3>2 DEF Lookup
  <2>2. Verdict(r) = "accepted"
    BY <2>1 DEF Reply, TypeOK
  <2>3. Defective(r) \in Judged
    BY <2>1, CallFields DEF Token, Defect, Defective
  <2> QED
    BY <2>1, <2>2, <2>3
<1>7. CASE Reread(r)
  <2>1. Cached(Kid(r)) /\ Verdict(r) = "accepted"
    BY <1>7 DEF Reread, Reply, TypeOK
  <2>2. Defective(r) \in Judged
    BY <1>7 DEF Reread, IInv, FetchesForWhole, Fetching
  <2> QED
    BY <2>1, <2>2
<1> QED
  BY <1>1, <1>2, <1>3, <1>4, <1>5, <1>6, <1>7 DEF Next

\* verify accepts no token of a key that sesame-idam withdrew longer ago than cache_ttl and
\* the delay of one answer, however refreshes overlap.
THEOREM AcceptsRecentKeys == Spec => AcceptedKeyIsRecent
<1> DEFINE Recent(r) ==
      request[r].reply = "none" /\ request'[r].reply = "accepted" =>
        /\ Defective(r) = "none"
        /\ request[r].token.exp = 0 \/ now <= request[r].token.exp
        /\ Kid(r) \in EdKeys
        /\ \/ Kid(r) \in jwks
           \/ retired[Kid(r)] # None /\ now <= retired[Kid(r)] + TTL + MaxDelay
<1>1. ASSUME IInv, [Next]_vars PROVE [\A r \in Requests : Recent(r)]_vars
  <2> SUFFICES ASSUME Next, NEW r \in Requests,
                      request[r].reply = "none", request'[r].reply = "accepted"
               PROVE  /\ Defective(r) = "none"
                      /\ request[r].token.exp = 0 \/ now <= request[r].token.exp
                      /\ Kid(r) \in EdKeys
                      /\ \/ Kid(r) \in jwks
                         \/ retired[Kid(r)] # None /\ now <= retired[Kid(r)] + TTL + MaxDelay
    BY <1>1
  <2> TypeOK
    BY <1>1 DEF IInv
  <2>1. Cached(Kid(r)) /\ Defective(r) = "none" /\ ~Expired(r)
    BY <1>1, VerdictNeedsKey, VerdictTyped
  <2>2. now \in Nat /\ request[r].token.exp \in Nat
    BY CallFields DEF TypeOK, Token
  <2>3. request[r].token.exp = 0 \/ now <= request[r].token.exp
    BY <2>1, <2>2 DEF Expired
  <2>4. /\ cache # None /\ Kid(r) \in cache.keys /\ Kid(r) \in EdKeys
        /\ now - cache.fetched_at <= TTL /\ cache.fetched_at \in Nat
    BY <2>1 DEF Cached, TypeOK, CachedKeys
  <2>5. \/ Kid(r) \in jwks
        \/ retired[Kid(r)] # None /\ cache.fetched_at <= retired[Kid(r)] + MaxDelay
    BY <1>1, <2>4 DEF IInv, CachePublished
  <2>6. retired[Kid(r)] # None => retired[Kid(r)] \in Nat
    BY <2>4 DEF TypeOK
  <2> QED
    BY <2>1, <2>2, <2>3, <2>4, <2>5, <2>6
<1> QED
  BY <1>1, InductiveInvariant, PTL DEF Spec, AcceptedKeyIsRecent

\* key_for never reports a key as unknown that its own fetch brought, unless another call
\* stored its answer in between.
THEOREM FindsFetchedKeys == Spec => FetchedKeyIsFound
<1> DEFINE Found(r) ==
      /\ request[r].pc = "reread" /\ request'[r].reply = "UnknownKey"
      /\ Kid(r) \in ParseJwks(request[r].answer)
      => request[r].raced
<1>1. ASSUME IInv, [Next]_vars PROVE [\A r \in Requests : Found(r)]_vars
  <2> SUFFICES ASSUME Next, NEW r \in Requests, request[r].pc = "reread",
                      request'[r].reply = "UnknownKey",
                      Kid(r) \in ParseJwks(request[r].answer), ~request[r].raced
               PROVE  FALSE
    BY <1>1
  <2> TypeOK
    BY <1>1 DEF IInv
  <2>1. request[r].reply = "none"
    BY <1>1 DEF IInv, NoReplyYet
  <2>2. ASSUME NEW q \in Requests, Store(q) PROVE request'[r].reply = request[r].reply
    BY <2>2, CallFields DEF Store, Call
  <2>3. ASSUME NEW q \in Requests, q # r, Lookup(q) \/ Fetch(q) \/ FetchFails(q) \/ Reread(q)
        PROVE  request'[r] = request[r]
    BY <2>3 DEF Lookup, Fetch, FetchFails, Reread, Reply, TypeOK
  <2>4. ~Lookup(r) /\ ~Fetch(r) /\ ~FetchFails(r)
    BY DEF Lookup, Fetch, FetchFails
  <2>5. ~Tick /\ \A k \in EdKeys : ~Rotate(k)
    BY <2>1 DEF Tick, Rotate
  <2>6. Reread(r)
    BY <2>1, <2>2, <2>3, <2>4, <2>5 DEF Next
  <2>7. Cached(Kid(r))
    <3>1. /\ cache # None /\ Kid(r) \in cache.keys
          /\ request[r].at <= cache.fetched_at /\ now <= request[r].at + MaxDelay
      BY <1>1 DEF IInv, OwnAnswerCached, AnswersPublished
    <3>2. cache.fetched_at \in Nat /\ now \in Nat /\ request[r].at \in Nat
      BY <3>1, CallFields DEF TypeOK, CachedKeys
    <3> QED
      BY <3>1, <3>2 DEF Cached
  <2>8. Defective(r) \in Judged
    BY <1>1 DEF IInv, FetchesForWhole, Fetching
  <2>9. request'[r].reply = Verdict(r)
    BY <2>6, <2>7 DEF Reread, Reply, TypeOK
  <2> QED
    BY <2>8, <2>9, VerdictTyped
<1> QED
  BY <1>1, InductiveInvariant, PTL DEF Spec, FetchedKeyIsFound
=============================================================================
