----------------------------- MODULE SesameToken -----------------------------
(***************************************************************************)
(* SesameClient's access token: token() takes the cached one or requests    *)
(* another, which replaces it, and provision_user sends it at once.  Calls  *)
(* that miss at the same time each request a token of their own.  The mutex *)
(* is only held inside cached_token and store_token, which are steps here.  *)
(***************************************************************************)
EXTENDS Integers

CONSTANTS
  Calls,      \* calls of provision_user
  Lifetimes,  \* the values of expires_in, an i32 of sesame-idam's choice
  None,
  Margin,     \* 60 seconds
  MaxDelay,   \* bound on the time from sesame-idam's answer to its use
  MaxTime     \* bound on the clock

ASSUME SesameTokenAssumption ==
  /\ Lifetimes \subseteq Int
  /\ Margin \in Nat /\ MaxDelay \in 0..Margin /\ MaxTime \in Nat

VARIABLES now, cache, call

vars == <<now, cache, call>>

Token == [issued : 0..MaxTime, lifetime : Lifetimes]
CachedToken == [token : Token, valid_until : Nat]

\* token: the one received, then the one sent with the POST to /admin/users; at: when.
Call == [pc : {"idle", "request", "answer", "sent", "failed"},
         token : Token \cup {None}, at : 0..MaxTime]

TypeOK ==
  /\ now \in 0..MaxTime
  /\ cache \in CachedToken \cup {None}
  /\ call \in [Calls -> Call]

Init ==
  /\ now = 0
  /\ cache = None
  /\ call = [c \in Calls |-> [pc |-> "idle", token |-> None, at |-> 0]]

\* The cached token is kept for expires_in.max(61) - 60 seconds.
\* Mutants: without the margin; min for max, with unwrap_or(60) for a negative rest.
TtlWhole(expires_in) == IF expires_in > 0 THEN expires_in ELSE 0
TtlMin(expires_in) ==
  LET ttl == (IF expires_in < Margin + 1 THEN expires_in ELSE Margin + 1) - Margin
  IN  IF ttl < 0 THEN Margin ELSE ttl
Ttl(expires_in) ==
  (IF expires_in > Margin + 1 THEN expires_in ELSE Margin + 1) - Margin

Send(c, token) == call' = [call EXCEPT ![c] = [pc |-> "sent", token |-> token, at |-> now]]

\* cached_token
Cached == cache # None /\ cache.valid_until > now

GetToken(c) ==
  /\ call[c].pc = "idle"
  /\ \/ Cached /\ Send(c, cache.token)
     \/ ~Cached /\ call' = [call EXCEPT ![c].pc = "request"]
  /\ UNCHANGED <<now, cache>>

\* sesame-idam issues a token.
Issue(c) ==
  /\ call[c].pc = "request"
  /\ \E l \in Lifetimes :
       call' = [call EXCEPT ![c] =
                  [pc |-> "answer", token |-> [issued |-> now, lifetime |-> l], at |-> now]]
  /\ UNCHANGED <<now, cache>>

\* No answer, a refusal, or a token that is empty: the cache stays as it is.
TokenFails(c) ==
  /\ call[c].pc \in {"request", "answer"}
  /\ call' = [call EXCEPT ![c].pc = "failed"]
  /\ UNCHANGED <<now, cache>>

\* store_token replaces what is there, a later call's token too.
StoreToken(c) ==
  /\ call[c].pc = "answer"
  /\ cache' = [token |-> call[c].token,
               valid_until |-> now + Ttl(call[c].token.lifetime)]
  /\ Send(c, call[c].token)
  /\ UNCHANGED now

\* An answer arrives within MaxDelay.
Tick ==
  /\ now < MaxTime
  /\ \A c \in Calls : call[c].pc = "answer" => now - call[c].at < MaxDelay
  /\ now' = now + 1
  /\ UNCHANGED <<cache, call>>

Next ==
  \/ \E c \in Calls : GetToken(c) \/ Issue(c) \/ TokenFails(c) \/ StoreToken(c)
  \/ Tick

Spec == Init /\ [][Next]_vars

-----------------------------------------------------------------------------
\* sesame_client.rs: "Refresh 60s before expiry": a token that outlives the delay
\* of an answer has not expired when it is sent, from the cache or not, in whatever
\* order overlapping calls stored theirs.
SentTokenIsLive ==
  /\ TypeOK
  /\ \A c \in Calls :
       call[c].pc = "sent" /\ call[c].token.lifetime > MaxDelay =>
         call[c].at < call[c].token.issued + call[c].token.lifetime

\* sesame_client.rs: "cached until near expiry": token() requests another token only
\* if there is none, or the cached one expires within the margin.
RefreshedNearExpiry ==
  [][\A c \in Calls :
       call[c].pc = "idle" /\ call'[c].pc = "request" =>
         \/ cache = None
         \/ now + Margin >= cache.token.issued + cache.token.lifetime]_vars
=============================================================================
