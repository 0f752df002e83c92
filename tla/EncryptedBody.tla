---------------------------- MODULE EncryptedBody ----------------------------
(***************************************************************************)
(* The middleware of the password routes (encrypted-body.service.ts): a    *)
(* copy of an envelope is opened when its timestamp is in the window and   *)
(* its nonce is not in Redis (redis.service.ts: SET NX EX).  Clients and   *)
(* proxies resend, so several copies of an envelope may arrive.  Time is   *)
(* discrete, the server and Redis read the same clock, and the clock of    *)
(* the client is free: an envelope has the timestamp its client gave it,   *)
(* behind or ahead of the clock of the server.                             *)
(***************************************************************************)
EXTENDS Integers, FiniteSets

CONSTANTS
  Envelopes,    \* the envelopes, one nonce each
  TTL,          \* ENCRYPTED_BODY_TTL_SECONDS, the window and the life of a key
  MaxDelay,     \* how long after the check of the window the claim may reach
                \* Redis; no time limit is set in the code, any value will do
  MaxRetries,   \* maxRetriesPerRequest of the Redis client
  MaxLosses,    \* bound: how often Redis restarts without its keys
  Horizon,      \* bound: the last instant
  Slots,        \* the copies being served at the same time
  None

ASSUME TimeAssumption ==
  /\ TTL \in Nat \ {0} /\ MaxDelay \in Nat
  /\ MaxRetries \in Nat /\ MaxLosses \in Nat /\ Horizon \in Nat
ASSUME SlotsAssumption == IsFiniteSet(Slots)

VARIABLES
  now,      \* Date.now() and the clock of Redis
  stamp,    \* stamp[e]: the timestamp in envelope e
  key,      \* key[e]: the last instant of enc:nonce:<nonce of e> in Redis
  copy,     \* copy[k]: the copy slot k is serving
  opened,   \* opened[e]: how many copies reached the handler of the route
  losses,   \* how often Redis came back without its keys
  lives     \* lives[e]: the keys written for e since then (a history variable)

vars == <<now, stamp, key, copy, opened, losses, lives>>

NoKey == -1

Copies ==
  [env : Envelopes, since : 0..Horizon, tries : 0..MaxRetries,
   at : {"claim", "won", "taken"}]

ASSUME NoneAssumption == None \notin Copies

Serving(k, at) == copy[k] # None /\ copy[k].at = at

\* Mutant: a key is gone at its last instant.
HasKeyShort(e) == key[e] # NoKey /\ now < key[e]

\* Redis drops a key once its last instant is over.
HasKey(e) == key[e] # NoKey /\ now <= key[e]

InWindow(e) == now - stamp[e] <= TTL /\ stamp[e] - now <= TTL

Init ==
  /\ now = 0
  /\ stamp \in [Envelopes -> 0..Horizon]
  /\ key = [e \in Envelopes |-> NoKey]
  /\ copy = [k \in Slots |-> None]
  /\ opened = [e \in Envelopes |-> 0]
  /\ losses = 0
  /\ lives = [e \in Envelopes |-> 0]

-------------------------------------------------------------------------------
Done(k) == copy' = [copy EXCEPT ![k] = None]

SetIfNotExists(e) ==
  IF HasKey(e)
  THEN UNCHANGED <<key, lives>>
  ELSE key' = [key EXCEPT ![e] = now + TTL] /\ lives' = [lives EXCEPT ![e] = @ + 1]

\* A copy for its own route arrives.  One for another route, outside of the
\* window or that does not decrypt is refused before Redis is asked.
Arrive(k, e) ==
  /\ copy[k] = None
  /\ InWindow(e)
  /\ copy' = [copy EXCEPT ![k] = [env |-> e, since |-> now, tries |-> 0, at |-> "claim"]]
  /\ UNCHANGED <<now, stamp, key, opened, losses, lives>>

\* Redis executes SET NX EX and the answer arrives.
Claim(k) ==
  /\ Serving(k, "claim")
  /\ SetIfNotExists(copy[k].env)
  /\ copy' = [copy EXCEPT ![k].at = IF HasKey(copy[k].env) THEN "taken" ELSE "won"]
  /\ UNCHANGED <<now, stamp, opened, losses>>

\* Mutant: one retry too many.
LoseAnswerOnceMore(k) ==
  /\ Serving(k, "claim")
  /\ SetIfNotExists(copy[k].env)
  /\ IF copy[k].tries <= MaxRetries
     THEN copy' = [copy EXCEPT ![k].tries = @ + 1]
     ELSE Done(k)
  /\ UNCHANGED <<now, stamp, opened, losses>>

\* Mutant: maxRetriesPerRequest is null, the count starts again.
LoseAnswerForever(k) ==
  /\ Serving(k, "claim")
  /\ SetIfNotExists(copy[k].env)
  /\ copy' = [copy EXCEPT ![k].tries = (@ + 1) % (MaxRetries + 1)]
  /\ UNCHANGED <<now, stamp, opened, losses>>

\* Redis executes it, the connection breaks before the answer: the client
\* library sends the command again, and gives up after MaxRetries (503).
LoseAnswer(k) ==
  /\ Serving(k, "claim")
  /\ SetIfNotExists(copy[k].env)
  /\ IF copy[k].tries < MaxRetries
     THEN copy' = [copy EXCEPT ![k].tries = @ + 1]
     ELSE Done(k)
  /\ UNCHANGED <<now, stamp, opened, losses>>

\* Redis cannot be reached and enableOfflineQueue is off: 503.
Unavailable(k) ==
  /\ Serving(k, "claim")
  /\ Done(k)
  /\ UNCHANGED <<now, stamp, key, opened, losses, lives>>

\* The body goes on to the handler, or 400.
Open(k) ==
  /\ Serving(k, "won")
  /\ opened' = [opened EXCEPT ![copy[k].env] = @ + 1]
  /\ Done(k)
  /\ UNCHANGED <<now, stamp, key, losses, lives>>

Refuse(k) ==
  /\ Serving(k, "taken")
  /\ Done(k)
  /\ UNCHANGED <<now, stamp, key, opened, losses, lives>>

\* The container of Redis has no volume: it may come back empty.
LoseKeys ==
  /\ losses < MaxLosses
  /\ losses' = losses + 1
  /\ key' = [e \in Envelopes |-> NoKey]
  /\ lives' = [e \in Envelopes |-> 0]
  /\ UNCHANGED <<now, stamp, copy, opened>>

\* MaxDelay: time does not pass a claim that is due.
Tick ==
  /\ now < Horizon
  /\ \A k \in Slots : Serving(k, "claim") => now < copy[k].since + MaxDelay
  /\ now' = now + 1
  /\ UNCHANGED <<stamp, key, copy, opened, losses, lives>>

GoOn(k) == Claim(k) \/ LoseAnswer(k) \/ Unavailable(k) \/ Open(k) \/ Refuse(k)

Serve(k) == (\E e \in Envelopes : Arrive(k, e)) \/ GoOn(k)

Next == (\E k \in Slots : Serve(k)) \/ LoseKeys \/ Tick

Spec == Init /\ [][Next]_vars

\* A command sent to Redis is answered or breaks off, and a handler runs on.
\* Nothing makes a command answered: every answer may be the one that is lost.
FairSpec == Spec /\ \A k \in Slots : WF_vars(GoOn(k))

-------------------------------------------------------------------------------
(* Properties. *)

\* The clock, the keys and the copies are what the code can store and read.
TypeOK ==
  /\ now \in 0..Horizon
  /\ stamp \in [Envelopes -> 0..Horizon]
  /\ key \in [Envelopes -> {NoKey} \cup 0..(Horizon + TTL)]
  /\ copy \in [Slots -> Copies \cup {None}]
  /\ opened \in [Envelopes -> Nat]
  /\ losses \in 0..MaxLosses
  /\ lives \in [Envelopes -> Nat]

Winners(e) == {k \in Slots : Serving(k, "won") /\ copy[k].env = e}

Spent == {e \in Envelopes : HasKey(e)}
Uses  == [e \in Envelopes |-> opened[e] + Cardinality(Winners(e))]

\* Claims for an envelope fall between TTL before its timestamp (a clock that is
\* ahead) and TTL + MaxDelay after it, and those that write a key are more than
\* TTL apart.  So many fit: 2 if a claim is made at once, 3 at most within TTL.
MaxLives == 1 + (2 * TTL + MaxDelay) \div (TTL + 1)

Envelope == INSTANCE SingleUse WITH Tokens <- Envelopes, spent <- Spent, uses <- Uses

\* Whatever clock its client has and however late its claims are, an envelope is
\* used once or wasted by a lost answer while its key lives, never both, although
\* copies overlap and commands are resent; and it has MaxLives keys at most until
\* Redis loses them (the window of openUnsafe against the EX of claimNonce).
EnvelopesUsedOncePerLife == Envelope!Spec

\* The handler of a password route runs for an envelope at most MaxLives times,
\* and MaxLives times more for each loss of the keys.
OpenedWithinLives ==
  \A e \in Envelopes : opened[e] + Cardinality(Winners(e)) <= MaxLives * (losses + 1)

\* A copy in its window is opened or answered with an error, however many
\* answers of Redis are lost (maxRetriesPerRequest, enableOfflineQueue).
EveryCopyAnswered == \A k \in Slots : copy[k] # None ~> copy[k] = None
===============================================================================
