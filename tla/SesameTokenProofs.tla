------------------------- MODULE SesameTokenProofs -------------------------
(* What SesameToken guarantees for every set of calls and lifetimes. *)
EXTENDS SesameToken, TLAPS

USE SesameTokenAssumption

\* A call that was answered, or that has sent a token, has one; an answer was issued
\* when it says, and is at most MaxDelay old.
AnswersFresh ==
  \A c \in Calls :
    /\ call[c].pc \in {"answer", "sent"} => call[c].token \in Token
    /\ call[c].pc = "answer" =>
         /\ call[c].token.issued = call[c].at
         /\ call[c].at <= now /\ now <= call[c].at + MaxDelay

\* store_token counts from the time of storing, which is later than the token's own:
\* the margin makes up for that, and for a short-lived token max(61) does not
\* outstay it.  It keeps no token shorter than the margin asks for, either.
CacheWithinLife ==
  cache # None =>
    /\ cache.token.lifetime > MaxDelay =>
         cache.valid_until <= cache.token.issued + cache.token.lifetime
    /\ cache.token.issued + cache.token.lifetime <= cache.valid_until + Margin

\* The inductive invariant.
IInv == SentTokenIsLive /\ AnswersFresh /\ CacheWithinLife

-----------------------------------------------------------------------------
\* expires_in.max(61) - 60: at least a second, no less than the margin asks for, and
\* for a token that outlives the delay of its answer, short enough to allow for it.
LEMMA TtlBounds ==
  ASSUME NEW l \in Lifetimes
  PROVE  /\ Ttl(l) \in Nat \ {0}
         /\ l <= Ttl(l) + Margin
         /\ l > MaxDelay => Ttl(l) + MaxDelay <= l
<1>1. l \in Int
  OBVIOUS
<1> QED
  BY <1>1 DEF Ttl

\* A token's times are numbers; expires_in may be negative.
LEMMA TokenFields ==
  ASSUME NEW t \in Token
  PROVE  t.issued \in Nat /\ t.lifetime \in Lifetimes /\ t.lifetime \in Int
<1>1. t.issued \in 0..MaxTime /\ t.lifetime \in Lifetimes
  BY DEF Token
<1>2. t.lifetime \in Int
  BY <1>1, Zenon
<1> QED
  BY <1>1, <1>2

\* A call that moves on, or sends a token, changes its own record only.
LEMMA SendTyped ==
  ASSUME TypeOK, NEW c \in Calls, NEW t \in Token, Send(c, t)
  PROVE  /\ call' \in [Calls -> Call]
         /\ \A d \in Calls \ {c} : call'[d] = call[d]
         /\ call'[c] = [pc |-> "sent", token |-> t, at |-> now]
BY DEF TypeOK, Send, Call

\* The initial state satisfies the invariant.
LEMMA InitIInv == Init => IInv
BY DEF Init, IInv, SentTokenIsLive, AnswersFresh, CacheWithinLife, TypeOK, Call

\* A step of a call keeps the invariant if it changes no other call and not the clock,
\* and if its own new record, and the new cache, do.
LEMMA OneCall ==
  ASSUME IInv, NEW c \in Calls, UNCHANGED now,
         call' \in [Calls -> Call], \A d \in Calls \ {c} : call'[d] = call[d],
         cache' \in CachedToken \cup {None}, CacheWithinLife',
         call'[c].pc \in {"answer", "sent"} => call'[c].token \in Token,
         call'[c].pc = "answer" =>
           call'[c].token.issued = call'[c].at /\ call'[c].at <= now
             /\ now <= call'[c].at + MaxDelay,
         call'[c].pc = "sent" /\ call'[c].token.lifetime > MaxDelay =>
           call'[c].at < call'[c].token.issued + call'[c].token.lifetime
  PROVE  IInv'
<1>1. TypeOK'
  BY DEF IInv, SentTokenIsLive, TypeOK
<1>2. AnswersFresh'
  BY DEF IInv, AnswersFresh
<1>3. SentTokenIsLive'
  BY <1>1 DEF IInv, SentTokenIsLive
<1> QED
  BY <1>2, <1>3 DEF IInv

\* Every step keeps the invariant.
LEMMA NextIInv == IInv /\ [Next]_vars => IInv'
<1> SUFFICES ASSUME IInv, [Next]_vars PROVE IInv'
  OBVIOUS
<1> TypeOK /\ AnswersFresh /\ CacheWithinLife
  BY DEF IInv, SentTokenIsLive
<1>1. ASSUME NEW c \in Calls, GetToken(c) PROVE IInv'
  <2>1. CacheWithinLife' /\ cache' \in CachedToken \cup {None} /\ UNCHANGED now
    BY <1>1 DEF GetToken, CacheWithinLife, TypeOK
  <2>2. CASE Cached /\ Send(c, cache.token)
    <3>1. cache \in CachedToken /\ cache # None
      BY <2>2 DEF Cached, TypeOK
    <3>2. /\ cache.token \in Token
          /\ cache.token.lifetime \in Int /\ cache.token.issued \in Nat
          /\ cache.valid_until \in Nat /\ now \in Nat
      <4>1. cache.token \in Token /\ cache.valid_until \in Nat /\ now \in Nat
        BY <3>1 DEF CachedToken, TypeOK
      <4> QED
        BY <4>1, TokenFields
    <3>3. /\ call' \in [Calls -> Call]
          /\ \A d \in Calls \ {c} : call'[d] = call[d]
          /\ call'[c] = [pc |-> "sent", token |-> cache.token, at |-> now]
      BY <2>2, <3>2, SendTyped
    <3>4. cache.token.lifetime > MaxDelay => now < cache.token.issued + cache.token.lifetime
      BY <2>2, <3>1, <3>2 DEF Cached, CacheWithinLife
    <3> QED
      BY <2>1, <3>2, <3>3, <3>4, OneCall
  <2>3. CASE ~Cached /\ call' = [call EXCEPT ![c].pc = "request"]
    <3>1. /\ call' \in [Calls -> Call]
          /\ \A d \in Calls \ {c} : call'[d] = call[d]
          /\ call'[c].pc = "request"
      BY <2>3 DEF TypeOK, Call
    <3> QED
      BY <2>1, <3>1, OneCall
  <2> QED
    BY <1>1, <2>2, <2>3 DEF GetToken
<1>2. ASSUME NEW c \in Calls, Issue(c) PROVE IInv'
  <2>1. CacheWithinLife' /\ cache' \in CachedToken \cup {None} /\ UNCHANGED now
    BY <1>2 DEF Issue, CacheWithinLife, TypeOK
  <2>2. PICK l \in Lifetimes :
          call' = [call EXCEPT ![c] =
                     [pc |-> "answer", token |-> [issued |-> now, lifetime |-> l], at |-> now]]
    BY <1>2 DEF Issue
  <2>3. [issued |-> now, lifetime |-> l] \in Token /\ now \in Nat
    BY DEF TypeOK, Token
  <2>4. /\ call' \in [Calls -> Call]
        /\ \A d \in Calls \ {c} : call'[d] = call[d]
        /\ call'[c] = [pc |-> "answer", token |-> [issued |-> now, lifetime |-> l], at |-> now]
    BY <2>2, <2>3 DEF TypeOK, Call
  <2> QED
    BY <2>1, <2>3, <2>4, OneCall
<1>3. ASSUME NEW c \in Calls, TokenFails(c) PROVE IInv'
  <2>1. CacheWithinLife' /\ cache' \in CachedToken \cup {None} /\ UNCHANGED now
    BY <1>3 DEF TokenFails, CacheWithinLife, TypeOK
  <2>2. /\ call' \in [Calls -> Call]
        /\ \A d \in Calls \ {c} : call'[d] = call[d]
        /\ call'[c].pc = "failed"
    BY <1>3 DEF TokenFails, TypeOK, Call
  <2> QED
    BY <2>1, <2>2, OneCall
<1>4. ASSUME NEW c \in Calls, StoreToken(c) PROVE IInv'
  <2> DEFINE t == call[c].token
  <2>1. /\ t \in Token /\ t.issued <= now /\ now <= t.issued + MaxDelay
        /\ UNCHANGED now
    BY <1>4 DEF StoreToken, AnswersFresh
  <2>2. t.lifetime \in Lifetimes /\ t.lifetime \in Int /\ t.issued \in Nat /\ now \in Nat
    BY <2>1, TokenFields DEF TypeOK
  <2>3. cache' = [token |-> t, valid_until |-> now + Ttl(t.lifetime)] /\ Send(c, t)
    BY <1>4 DEF StoreToken
  <2> HIDE DEF t
  <2>4. /\ Ttl(t.lifetime) \in Nat
        /\ t.lifetime <= Ttl(t.lifetime) + Margin
        /\ t.lifetime > MaxDelay => Ttl(t.lifetime) + MaxDelay <= t.lifetime
    BY <2>2, TtlBounds
  <2>5. cache' \in CachedToken
    BY <2>1, <2>2, <2>3, <2>4 DEF CachedToken
  <2>6. CacheWithinLife'
    BY <2>1, <2>2, <2>3, <2>4 DEF CacheWithinLife
  <2>7. t.lifetime > MaxDelay => now < t.issued + t.lifetime
    BY <2>1, <2>2
  <2>8. /\ call' \in [Calls -> Call]
        /\ \A d \in Calls \ {c} : call'[d] = call[d]
        /\ call'[c] = [pc |-> "sent", token |-> t, at |-> now]
    BY <2>1, <2>3, SendTyped
  <2> QED
    BY <2>1, <2>5, <2>6, <2>7, <2>8, OneCall
<1>5. CASE Tick
  <2>1. TypeOK' /\ now' = now + 1 /\ now \in Nat /\ UNCHANGED <<cache, call>>
    BY <1>5 DEF Tick, TypeOK
  <2>2. AnswersFresh'
    <3> SUFFICES ASSUME NEW c \in Calls, call[c].pc = "answer"
                 PROVE  call[c].at <= now' /\ now' <= call[c].at + MaxDelay
      BY <2>1 DEF AnswersFresh
    <3>1. call[c].at \in Nat /\ call[c].at <= now /\ now - call[c].at < MaxDelay
      BY <1>5 DEF Tick, AnswersFresh, TypeOK, Call
    <3> QED
      BY <2>1, <3>1
  <2>3. CacheWithinLife' /\ SentTokenIsLive'
    BY <2>1 DEF CacheWithinLife, IInv, SentTokenIsLive
  <2> QED
    BY <2>2, <2>3 DEF IInv
<1>6. CASE UNCHANGED vars
  <2>1. TypeOK'
    BY <1>6 DEF TypeOK, vars
  <2> QED
    BY <1>6, <2>1 DEF IInv, SentTokenIsLive, AnswersFresh, CacheWithinLife, vars
<1> QED
  BY <1>1, <1>2, <1>3, <1>4, <1>5, <1>6 DEF Next

\* In every behaviour, every state satisfies the invariant.
THEOREM InductiveInvariant == Spec => []IInv
BY InitIInv, NextIInv, PTL DEF Spec

\* provision_user never sends a token that has expired, if the token outlives the
\* delay of its own answer: in whatever order overlapping calls stored theirs.
THEOREM TokenIsLive == Spec => []SentTokenIsLive
<1>1. IInv => SentTokenIsLive
  BY DEF IInv
<1> QED
  BY <1>1, InductiveInvariant, PTL

\* token() asks sesame-idam for another token only within the margin of expiry.
THEOREM RefreshIsDue == Spec => RefreshedNearExpiry
<1> DEFINE Due(c) ==
      call[c].pc = "idle" /\ call'[c].pc = "request" =>
        \/ cache = None
        \/ now + Margin >= cache.token.issued + cache.token.lifetime
<1>1. ASSUME IInv, [Next]_vars PROVE [\A c \in Calls : Due(c)]_vars
  <2> SUFFICES ASSUME Next, NEW c \in Calls, call[c].pc = "idle", call'[c].pc = "request",
                      cache # None
               PROVE  now + Margin >= cache.token.issued + cache.token.lifetime
    BY <1>1
  <2> TypeOK /\ CacheWithinLife
    BY <1>1 DEF IInv, SentTokenIsLive
  <2>1. ~Cached
    <3>1. GetToken(c) => ~Cached
      BY DEF GetToken, Send, TypeOK, Call
    <3>2. ASSUME NEW d \in Calls,
                 GetToken(d) \/ Issue(d) \/ TokenFails(d) \/ StoreToken(d)
          PROVE  call'[c] = call[c] \/ c = d
      BY <3>2 DEF GetToken, Issue, TokenFails, StoreToken, Send, TypeOK
    <3>3. ~Issue(c) /\ ~TokenFails(c) /\ ~StoreToken(c) /\ ~Tick
      BY DEF Issue, TokenFails, StoreToken, Tick
    <3> QED
      BY <3>1, <3>2, <3>3 DEF Next
  <2>2. /\ cache.valid_until \in Nat /\ now \in Nat /\ cache.valid_until <= now
        /\ cache.token.issued \in Nat /\ cache.token.lifetime \in Int
    <3>1. cache.token \in Token /\ cache.valid_until \in Nat /\ now \in Nat
      BY DEF TypeOK, CachedToken
    <3> QED
      BY <2>1, <3>1, TokenFields DEF Cached
  <2> QED
    BY <2>2 DEF CacheWithinLife
<1> QED
  BY <1>1, InductiveInvariant, PTL DEF Spec, RefreshedNearExpiry
=============================================================================
