--------------------------- MODULE SingleUseProofs ---------------------------
(***************************************************************************)
(* What is good for one use: the envelopes of the password routes and the  *)
(* orders to reset a password.                                             *)
(***************************************************************************)
EXTENDS EncryptedBody, ResetPassword, FiniteSetTheorems, TLAPS

-------------------------------------------------------------------------------
(* Envelopes.  At most MaxLives openings per loss of the keys, for any     *)
(* number of envelopes and concurrent copies, any TTL, any clock of the    *)
(* client and any delay.  The argument: each key of an envelope ends more  *)
(* than TTL after the one before it, and no claim comes after the window   *)
(* and MaxDelay.                                                           *)

\* A copy waiting for its claim came in the window, and waits MaxDelay at most.
ClaimsInTime ==
  \A k \in Slots : Serving(k, "claim") =>
    LET c == copy[k] IN
    /\ stamp[c.env] - TTL <= c.since /\ c.since <= stamp[c.env] + TTL
    /\ c.since <= now /\ now <= c.since + MaxDelay

\* The first key of an envelope lasts at least to its timestamp, every other one
\* TTL + 1 longer than the one before it.
KeysApart ==
  \A e \in Envelopes :
    /\ lives[e] = 0 <=> key[e] = NoKey
    /\ lives[e] # 0 => stamp[e] + (lives[e] - 1) * (TTL + 1) <= key[e]

\* There is room for the keys, and there are openings, done and due, for no more.
OpenedByKeys ==
  \A e \in Envelopes :
    /\ lives[e] <= MaxLives
    /\ opened[e] + Cardinality(Winners(e)) <= MaxLives * losses + lives[e]

IInv == TypeOK /\ ClaimsInTime /\ KeysApart /\ OpenedByKeys

Wins(c, e) == c # None /\ c.at = "won" /\ c.env = e

-------------------------------------------------------------------------------
\* The copies about to be opened are finitely many.
LEMMA WinnersNat ==
  ASSUME NEW e
  PROVE  IsFiniteSet(Winners(e)) /\ Cardinality(Winners(e)) \in Nat
  <1>1. Winners(e) \subseteq Slots
    BY DEF Winners
  <1> QED BY <1>1, SlotsAssumption, FS_Subset, FS_CardinalityType

\* What a step of slot k does to the number of winners of e.
LEMMA WinnersStep ==
  ASSUME copy \in [Slots -> Copies \cup {None}], NEW k \in Slots, NEW c, NEW e,
         copy' = [copy EXCEPT ![k] = c]
  PROVE  /\ (Wins(copy[k], e) <=> Wins(c, e)) => Winners(e)' = Winners(e)
         /\ Wins(c, e) /\ ~Wins(copy[k], e)
              => Cardinality(Winners(e)') = Cardinality(Winners(e)) + 1
         /\ ~Wins(c, e) /\ Wins(copy[k], e)
              => Cardinality(Winners(e)') = Cardinality(Winners(e)) - 1
  <1>1. /\ copy'[k] = c
        /\ \A j \in Slots \ {k} : copy'[j] = copy[j]
    OBVIOUS
  <1>2. Winners(e) = {j \in Slots : Wins(copy[j], e)}
    BY DEF Winners, Serving, Wins
  <1>3. Winners(e)' = {j \in Slots : Wins(copy'[j], e)}
    BY DEF Winners, Serving, Wins
  <1>4. CASE Wins(copy[k], e) <=> Wins(c, e)
    <2>1. \A j \in Slots : Wins(copy'[j], e) <=> Wins(copy[j], e)
      BY <1>1, <1>4
    <2>2. Winners(e)' = Winners(e)
      BY <1>2, <1>3, <2>1
    <2> QED BY <2>2, <1>4
  <1>5. CASE Wins(c, e) /\ ~Wins(copy[k], e)
    <2>1. Winners(e)' = Winners(e) \cup {k} /\ k \notin Winners(e)
      BY <1>1, <1>2, <1>3, <1>5
    <2>2. Cardinality(Winners(e)') = Cardinality(Winners(e)) + 1
      BY <2>1, WinnersNat, FS_AddElement
    <2> QED BY <2>2, <1>5
  <1>6. CASE ~Wins(c, e) /\ Wins(copy[k], e)
    <2>1. Winners(e)' = Winners(e) \ {k} /\ k \in Winners(e)
      BY <1>1, <1>2, <1>3, <1>6
    <2>2. Cardinality(Winners(e)') = Cardinality(Winners(e)) - 1
      BY <2>1, WinnersNat, FS_RemoveElement
    <2> QED BY <2>2, <1>6
  <1> QED BY <1>4, <1>5, <1>6

-------------------------------------------------------------------------------
\* MaxLives is the number of times that TTL + 1 fits, and one more.
LEMMA MaxLivesBound ==
  /\ MaxLives \in Nat \ {0}
  /\ \A n \in Nat : n * (TTL + 1) <= 2 * TTL + MaxDelay => n + 1 <= MaxLives
  <1> DEFINE a == 2 * TTL + MaxDelay
             b == TTL + 1
             q == a \div b
  <1>1. a \in Nat /\ b \in Nat /\ b > 0
    BY TimeAssumption
  <1> HIDE DEF a, b
  <1>2. q \in Nat /\ a < q * b + b
    BY <1>1
  <1> HIDE DEF q
  <1>3. ASSUME NEW n \in Nat, n * b <= a PROVE n <= q
    <2> SUFFICES ASSUME q + 1 <= n PROVE FALSE
      BY <1>2
    <2>1. (q + 1) * b <= n * b
      BY <1>1, <1>2
    <2>2. (q + 1) * b = q * b + b
      BY <1>1, <1>2
    <2> QED BY <1>1, <1>2, <1>3, <2>1, <2>2
  <1>4. MaxLives = 1 + q
    BY DEF MaxLives, a, b, q
  <1>5. \A n \in Nat : n * b <= a => n + 1 <= MaxLives
    BY <1>2, <1>3, <1>4
  <1>6. MaxLives \in Nat \ {0}
    BY <1>2, <1>4
  <1> QED BY <1>5, <1>6 DEF a, b

\* The invariant holds at the start.
LEMMA InitHolds == Init => IInv
  <1> SUFFICES ASSUME Init PROVE IInv
    OBVIOUS
  <1>1. TypeOK
    BY TimeAssumption DEF Init, TypeOK, NoKey
  <1>2. ClaimsInTime /\ KeysApart
    BY DEF Init, ClaimsInTime, KeysApart, Serving
  <1>3. ASSUME NEW e \in Envelopes
        PROVE  /\ lives[e] <= MaxLives
               /\ opened[e] + Cardinality(Winners(e)) <= MaxLives * losses + lives[e]
    <2>1. Winners(e) = {}
      BY DEF Init, Winners, Serving
    <2> QED BY <2>1, FS_EmptySet, MaxLivesBound DEF Init
  <1> QED BY <1>1, <1>2, <1>3 DEF IInv, OpenedByKeys

\* The types are preserved by every step.
LEMMA TypeStep == ASSUME TypeOK, [Next]_vars PROVE TypeOK'
  <1> USE TimeAssumption
  <1> USE DEF TypeOK
  <1>1. ASSUME NEW k \in Slots, NEW e \in Envelopes, Arrive(k, e) PROVE TypeOK'
    <2>1. [env |-> e, since |-> now, tries |-> 0, at |-> "claim"] \in Copies
      BY DEF Copies
    <2> QED BY <1>1, <2>1 DEF Arrive
  <1>0. ASSUME NEW e \in Envelopes, SetIfNotExists(e)
        PROVE  /\ key' \in [Envelopes -> {NoKey} \cup 0..(Horizon + TTL)]
               /\ lives' \in [Envelopes -> Nat]
    <2>1. now + TTL \in 0..(Horizon + TTL) /\ lives[e] + 1 \in Nat
      OBVIOUS
    <2> QED BY <1>0, <2>1 DEF SetIfNotExists
  <1>2. ASSUME NEW k \in Slots, Claim(k) PROVE TypeOK'
    <2>1. copy[k] \in Copies /\ copy[k].env \in Envelopes
      BY <1>2 DEF Claim, Serving, Copies
    <2>2. \A a \in {"won", "taken"} : [copy[k] EXCEPT !.at = a] \in Copies
      BY <2>1 DEF Copies
    <2>3. copy' \in [Slots -> Copies \cup {None}]
      BY <1>2, <2>2 DEF Claim
    <2> QED BY <1>0, <1>2, <2>1, <2>3 DEF Claim
  <1>3. ASSUME NEW k \in Slots, LoseAnswer(k) PROVE TypeOK'
    <2>1. copy[k] \in Copies /\ copy[k].env \in Envelopes
      BY <1>3 DEF LoseAnswer, Serving, Copies
    <2>2. copy[k].tries < MaxRetries => [copy[k] EXCEPT !.tries = @ + 1] \in Copies
      BY <2>1 DEF Copies
    <2>3. copy' \in [Slots -> Copies \cup {None}]
      BY <1>3, <2>2 DEF LoseAnswer, Done
    <2> QED BY <1>0, <1>3, <2>1, <2>3 DEF LoseAnswer
  <1>4. ASSUME NEW k \in Slots, Unavailable(k) \/ Refuse(k) PROVE TypeOK'
    BY <1>4 DEF Unavailable, Refuse, Done
  <1>5. ASSUME NEW k \in Slots, Open(k) PROVE TypeOK'
    <2>1. copy[k].env \in Envelopes
      BY <1>5 DEF Open, Serving, Copies
    <2>2. opened[copy[k].env] + 1 \in Nat
      BY <2>1
    <2> QED BY <1>5, <2>2 DEF Open, Done
  <1>6. ASSUME LoseKeys PROVE TypeOK'
    BY <1>6 DEF LoseKeys
  <1>7. ASSUME Tick PROVE TypeOK'
    BY <1>7 DEF Tick
  <1>8. ASSUME UNCHANGED vars PROVE TypeOK'
    BY <1>8 DEF vars
  <1> QED BY <1>1, <1>2, <1>3, <1>4, <1>5, <1>6, <1>7, <1>8 DEF Next, Serve, GoOn

\* No copy waits outside of its window, and time waits for it.
LEMMA InTimeStep == ASSUME TypeOK, ClaimsInTime, [Next]_vars PROVE ClaimsInTime'
  <1> USE TimeAssumption
  <1> SUFFICES ASSUME NEW j \in Slots, Serving(j, "claim")'
               PROVE  LET c == copy'[j] IN
                      /\ stamp'[c.env] - TTL <= c.since /\ c.since <= stamp'[c.env] + TTL
                      /\ c.since <= now' /\ now' <= c.since + MaxDelay
    BY DEF ClaimsInTime
  <1>0. /\ stamp' = stamp
        /\ copy \in [Slots -> Copies \cup {None}] /\ now \in Int
        /\ \A e \in Envelopes : stamp[e] \in Int
        /\ \A k \in Slots : copy[k] # None => copy[k].env \in Envelopes /\ copy[k].since \in Int
    BY DEF TypeOK, Next, Serve, GoOn, vars, Arrive, Claim, LoseAnswer, Unavailable, Open, Refuse,
           LoseKeys, Tick, Copies
  <1>1. CASE copy'[j] = copy[j] /\ now' = now
    BY <1>0, <1>1 DEF ClaimsInTime, Serving
  <1>2. ASSUME NEW k \in Slots, NEW e \in Envelopes, Arrive(k, e), j = k
        PROVE  LET c == copy'[j] IN
               /\ stamp'[c.env] - TTL <= c.since /\ c.since <= stamp'[c.env] + TTL
               /\ c.since <= now' /\ now' <= c.since + MaxDelay
    <2>1. copy'[j] = [env |-> e, since |-> now, tries |-> 0, at |-> "claim"] /\ now' = now
      BY <1>0, <1>2 DEF Arrive
    <2> QED BY <1>0, <1>2, <2>1 DEF Arrive, InWindow
  <1>3. ASSUME NEW k \in Slots, LoseAnswer(k), j = k
        PROVE  LET c == copy'[j] IN
               /\ stamp'[c.env] - TTL <= c.since /\ c.since <= stamp'[c.env] + TTL
               /\ c.since <= now' /\ now' <= c.since + MaxDelay
    <2>1. copy[j] # None /\ copy[j].at = "claim" /\ copy[j] \in Copies
      BY <1>0, <1>3 DEF LoseAnswer, Serving
    <2>2. copy'[j] = None \/ copy'[j] = [copy[j] EXCEPT !.tries = @ + 1]
      BY <1>0, <1>3 DEF LoseAnswer, Done
    <2>3. copy'[j].env = copy[j].env /\ copy'[j].since = copy[j].since
      BY <2>1, <2>2 DEF Serving, Copies
    <2>4. now' = now
      BY <1>3 DEF LoseAnswer
    <2> QED BY <1>0, <2>1, <2>3, <2>4 DEF ClaimsInTime, Serving
  <1>4. ASSUME Tick
        PROVE  LET c == copy'[j] IN
               /\ stamp'[c.env] - TTL <= c.since /\ c.since <= stamp'[c.env] + TTL
               /\ c.since <= now' /\ now' <= c.since + MaxDelay
    <2>1. copy' = copy /\ now' = now + 1 /\ now < copy[j].since + MaxDelay
      BY <1>4 DEF Tick, Serving
    <2> QED BY <1>0, <2>1 DEF ClaimsInTime, Serving
  <1>5. ASSUME NEW k \in Slots, Serve(k), j # k PROVE copy'[j] = copy[j] /\ now' = now
    BY <1>0, <1>5 DEF Serve, GoOn, Arrive, Claim, LoseAnswer, Unavailable, Open, Refuse, Done
  <1>6. ASSUME NEW k \in Slots, Claim(k) \/ Unavailable(k) \/ Open(k) \/ Refuse(k), j = k
        PROVE  FALSE
    <2>1. copy[j] \in Copies /\ copy[j] # None
      BY <1>0, <1>6 DEF Claim, Unavailable, Open, Refuse, Serving
    <2>2. \/ copy'[j] = None
          \/ \E a \in {"won", "taken"} : copy'[j] = [copy[j] EXCEPT !.at = a]
      BY <1>0, <1>6 DEF Claim, Unavailable, Open, Refuse, Done
    <2> QED BY <2>1, <2>2 DEF Serving, Copies
  <1>7. ASSUME LoseKeys \/ UNCHANGED vars PROVE copy'[j] = copy[j] /\ now' = now
    BY <1>7 DEF LoseKeys, vars
  <1> QED BY <1>1, <1>2, <1>3, <1>4, <1>5, <1>6, <1>7 DEF Next, Serve, GoOn

\* When a copy writes a key, the one before it has ended, and there is room for
\* one more in the time that claims have.
LEMMA NewLife ==
  ASSUME TypeOK, ClaimsInTime, KeysApart,
         NEW k \in Slots, Serving(k, "claim"), ~HasKey(copy[k].env)
  PROVE  LET e == copy[k].env IN
         /\ e \in Envelopes /\ lives[e] \in Nat
         /\ stamp[e] + lives[e] * (TTL + 1) <= now + TTL
         /\ lives[e] < MaxLives
  <1> USE TimeAssumption
  <1> DEFINE e == copy[k].env
             n == lives[e]
             b == TTL + 1
  <1>1. copy[k] \in Copies /\ e \in Envelopes
    BY DEF TypeOK, Serving, Copies
  <1>2. stamp[e] \in Int /\ now \in Int /\ copy[k].since \in Int /\ n \in Nat /\ key[e] \in Int
    BY <1>1 DEF TypeOK, Copies, NoKey
  <1>3. stamp[e] - TTL <= now /\ now <= stamp[e] + TTL + MaxDelay
    BY <1>2 DEF ClaimsInTime
  <1>4. n * b \in Int /\ (n # 0 => (n - 1) * b + b = n * b) /\ (n = 0 => n * b = 0)
    <2>1. n \in Nat /\ b \in Nat
      BY <1>2
    <2> HIDE DEF n, b
    <2>2. n * b \in Int /\ (n - 1) * b + b = n * b
      BY <2>1
    <2>3. n = 0 => n * b = 0
      BY <2>1
    <2> QED BY <2>2, <2>3
  <1>5. n # 0 => stamp[e] + (n - 1) * b <= key[e] /\ key[e] < now
    BY <1>1, <1>2 DEF KeysApart, HasKey
  <1>6. stamp[e] + n * b <= now + TTL
    <2>1. CASE n = 0
      BY <1>2, <1>3, <1>4, <2>1
    <2>2. CASE n # 0
      <3>1. (n - 1) * b \in Int
        BY <1>2
      <3> HIDE DEF n, e
      <3> QED BY <1>2, <1>4, <1>5, <2>2, <3>1
    <2> QED BY <2>1, <2>2
  <1>7. n * b <= 2 * TTL + MaxDelay
    BY <1>2, <1>3, <1>4, <1>6
  <1>8. n < MaxLives
    BY <1>2, <1>7, MaxLivesBound
  <1> QED BY <1>1, <1>2, <1>6, <1>8

\* A key that is written lasts longer than the one before it by TTL + 1 or more.
LEMMA KeyStep == ASSUME TypeOK, ClaimsInTime, KeysApart, [Next]_vars PROVE KeysApart'
  <1> USE TimeAssumption
  <1> SUFFICES ASSUME NEW e \in Envelopes
               PROVE  /\ lives'[e] = 0 <=> key'[e] = NoKey
                      /\ lives'[e] # 0 => stamp'[e] + (lives'[e] - 1) * (TTL + 1) <= key'[e]
    BY DEF KeysApart
  <1> DEFINE Goal == /\ lives'[e] = 0 <=> key'[e] = NoKey
                     /\ lives'[e] # 0 => stamp'[e] + (lives'[e] - 1) * (TTL + 1) <= key'[e]
  <1>1. stamp' = stamp /\ stamp[e] \in Int /\ now \in Nat
    BY DEF TypeOK, Next, Serve, GoOn, vars, Arrive, Claim, LoseAnswer, Unavailable, Open, Refuse,
           LoseKeys, Tick
  <1>2. CASE key'[e] = key[e] /\ lives'[e] = lives[e]
    BY <1>1, <1>2 DEF KeysApart
  <1>3. ASSUME NEW k \in Slots, Serving(k, "claim"), SetIfNotExists(copy[k].env),
               key'[e] # key[e] \/ lives'[e] # lives[e]
        PROVE  Goal
    <2>1. ~HasKey(copy[k].env) /\ copy[k].env = e
      BY <1>3 DEF SetIfNotExists, TypeOK
    <2>2. lives[e] \in Nat /\ stamp[e] + lives[e] * (TTL + 1) <= now + TTL
      BY <1>3, <2>1, NewLife
    <2>3. key'[e] = now + TTL /\ lives'[e] = lives[e] + 1
      BY <1>3, <2>1 DEF SetIfNotExists, TypeOK
    <2>4. lives'[e] - 1 = lives[e] /\ lives'[e] # 0 /\ key'[e] # NoKey
      BY <1>1, <2>2, <2>3 DEF NoKey
    <2> QED BY <1>1, <2>2, <2>3, <2>4
  <1>4. CASE LoseKeys
    BY <1>4 DEF LoseKeys
  <1>5. CASE \/ UNCHANGED <<key, lives>>
             \/ \E k \in Slots : Serving(k, "claim") /\ SetIfNotExists(copy[k].env)
             \/ LoseKeys
    BY <1>2, <1>3, <1>4, <1>5
  <1> QED BY <1>5 DEF Next, Serve, GoOn, vars, Arrive, Claim, LoseAnswer, Unavailable, Open, Refuse, Tick

-------------------------------------------------------------------------------
\* An opening that becomes due has a key of its own.
LEMMA OpenedStep ==
  ASSUME TypeOK, ClaimsInTime, KeysApart, OpenedByKeys, [Next]_vars
  PROVE  OpenedByKeys'
  <1> USE TimeAssumption
  <1>0. /\ copy \in [Slots -> Copies \cup {None}]
        /\ lives \in [Envelopes -> Nat]
        /\ opened \in [Envelopes -> Nat] /\ losses \in Nat /\ MaxLives \in Nat
    BY MaxLivesBound DEF TypeOK
  <1> SUFFICES ASSUME NEW e \in Envelopes
               PROVE  /\ lives'[e] <= MaxLives
                      /\ opened'[e] + Cardinality(Winners(e)') <= MaxLives * losses' + lives'[e]
    BY DEF OpenedByKeys, MaxLives
  <1> DEFINE n == Cardinality(Winners(e))
             m == Cardinality(Winners(e)')
             Goal == /\ lives'[e] <= MaxLives
                     /\ opened'[e] + m <= MaxLives * losses' + lives'[e]
  <1>1. /\ n \in Nat /\ opened[e] \in Nat /\ lives[e] \in Nat /\ MaxLives * losses \in Nat
        /\ lives[e] <= MaxLives
        /\ opened[e] + n <= MaxLives * losses + lives[e]
    BY <1>0, WinnersNat DEF OpenedByKeys
  <1>2. ASSUME m = n, opened'[e] = opened[e], losses' = losses, lives'[e] = lives[e]
        PROVE  Goal
    BY <1>1, <1>2
  <1>3. ASSUME NEW k \in Slots, NEW f \in Envelopes, Arrive(k, f) PROVE Goal
    <2> DEFINE c == [env |-> f, since |-> now, tries |-> 0, at |-> "claim"]
    <2>1. copy' = [copy EXCEPT ![k] = c] /\ ~Wins(c, e) /\ ~Wins(copy[k], e)
      BY <1>3 DEF Arrive, Wins
    <2>2. Winners(e)' = Winners(e)
      BY <1>0, <2>1, WinnersStep
    <2> QED BY <1>2, <1>3, <2>2 DEF Arrive
  <1>4. ASSUME NEW k \in Slots, Serving(k, "claim"), SetIfNotExists(copy[k].env)
        PROVE  \/ lives' = lives /\ HasKey(copy[k].env)
               \/ /\ ~HasKey(copy[k].env) /\ lives'[e] <= MaxLives /\ lives[e] <= lives'[e]
                  /\ copy[k].env = e => lives'[e] = lives[e] + 1
                  /\ copy[k].env # e => lives'[e] = lives[e]
    <2>1. CASE HasKey(copy[k].env)
      BY <1>4, <2>1 DEF SetIfNotExists
    <2>2. CASE ~HasKey(copy[k].env)
      <3>1. copy[k].env \in Envelopes /\ lives[copy[k].env] < MaxLives
        BY <1>4, <2>2, NewLife
      <3>2. lives' = [lives EXCEPT ![copy[k].env] = @ + 1]
        BY <1>4, <2>2 DEF SetIfNotExists
      <3>3. CASE copy[k].env = e
        <4>1. lives'[e] = lives[e] + 1 /\ lives[e] < MaxLives
          BY <1>0, <3>1, <3>2, <3>3
        <4> QED BY <1>0, <1>1, <2>2, <3>3, <4>1
      <3>4. CASE copy[k].env # e
        <4>1. lives'[e] = lives[e]
          BY <1>0, <3>2, <3>4
        <4> QED BY <1>1, <2>2, <3>4, <4>1
      <3> QED BY <3>3, <3>4
    <2> QED BY <2>1, <2>2
  <1>5. ASSUME NEW k \in Slots, Claim(k) PROVE Goal
    <2>1. Serving(k, "claim") /\ copy[k] \in Copies /\ ~Wins(copy[k], e)
      BY <1>0, <1>5 DEF Claim, Serving, Wins
    <2>2. /\ \A a \in {"won", "taken"} : [copy[k] EXCEPT !.at = a].at = a
          /\ \A a \in {"won", "taken"} : [copy[k] EXCEPT !.at = a].env = copy[k].env
          /\ \A a \in {"won", "taken"} : [copy[k] EXCEPT !.at = a] \in Copies
      BY <2>1 DEF Copies
    <2>3. opened' = opened /\ losses' = losses /\ SetIfNotExists(copy[k].env)
      BY <1>5 DEF Claim
    <2>4. CASE HasKey(copy[k].env)
      <3> DEFINE c == [copy[k] EXCEPT !.at = "taken"]
      <3>1. copy' = [copy EXCEPT ![k] = c] /\ lives' = lives /\ ~Wins(c, e)
        BY <1>5, <2>2, <2>4 DEF Claim, SetIfNotExists, Wins
      <3>2. Winners(e)' = Winners(e)
        BY <1>0, <2>1, <3>1, WinnersStep
      <3> QED BY <1>2, <2>3, <3>1, <3>2
    <2>5. CASE ~HasKey(copy[k].env)
      <3> DEFINE c == [copy[k] EXCEPT !.at = "won"]
      <3>1. copy' = [copy EXCEPT ![k] = c]
        BY <1>5, <2>5 DEF Claim
      <3>2. CASE copy[k].env = e
        <4>1. Wins(c, e)
          BY <2>1, <2>2, <3>2, NoneAssumption DEF Wins
        <4>2. m = n + 1
          BY <1>0, <2>1, <3>1, <4>1, WinnersStep
        <4>3. lives'[e] = lives[e] + 1 /\ lives'[e] <= MaxLives
          BY <1>4, <2>1, <2>3, <2>5, <3>2
        <4>4. opened'[e] = opened[e] /\ losses' = losses
          BY <2>3
        <4> HIDE DEF n, m
        <4> QED BY <1>1, <4>2, <4>3, <4>4
      <3>3. CASE copy[k].env # e
        <4>1. ~Wins(c, e)
          BY <2>2, <3>3 DEF Wins
        <4>2. Winners(e)' = Winners(e)
          BY <1>0, <2>1, <3>1, <4>1, WinnersStep
        <4>3. lives'[e] = lives[e]
          BY <1>4, <2>1, <2>3, <2>5, <3>3
        <4> QED BY <1>2, <2>3, <4>2, <4>3
      <3> QED BY <3>2, <3>3
    <2> QED BY <2>4, <2>5
  <1>6. ASSUME NEW k \in Slots, LoseAnswer(k) PROVE Goal
    <2>1. Serving(k, "claim") /\ copy[k] \in Copies /\ ~Wins(copy[k], e)
      BY <1>0, <1>6 DEF LoseAnswer, Serving, Wins
    <2>2. \E c : copy' = [copy EXCEPT ![k] = c] /\ ~Wins(c, e)
      BY <1>6, <2>1 DEF LoseAnswer, Done, Wins, Copies, Serving
    <2>3. m = n
      BY <1>0, <2>1, <2>2, WinnersStep
    <2>4. lives'[e] <= MaxLives /\ lives[e] <= lives'[e] /\ lives'[e] \in Nat
      <3>1. SetIfNotExists(copy[k].env)
        BY <1>6 DEF LoseAnswer
      <3> QED BY <1>1, <1>4, <2>1, <3>1
    <2>5. opened'[e] = opened[e] /\ losses' = losses
      BY <1>6 DEF LoseAnswer
    <2> HIDE DEF n, m
    <2> QED BY <1>1, <2>3, <2>4, <2>5
  <1>7. ASSUME NEW k \in Slots, Unavailable(k) \/ Refuse(k) PROVE Goal
    <2>1. copy' = [copy EXCEPT ![k] = None] /\ ~Wins(None, e) /\ ~Wins(copy[k], e)
      BY <1>7 DEF Unavailable, Refuse, Done, Wins, Serving
    <2>2. Winners(e)' = Winners(e)
      BY <1>0, <2>1, WinnersStep
    <2> QED BY <1>2, <1>7, <2>2 DEF Unavailable, Refuse
  <1>8. ASSUME NEW k \in Slots, Open(k) PROVE Goal
    <2>1. copy' = [copy EXCEPT ![k] = None] /\ ~Wins(None, e)
      BY <1>8 DEF Open, Done, Wins
    <2>2. lives' = lives /\ losses' = losses /\ opened' = [opened EXCEPT ![copy[k].env] = @ + 1]
      BY <1>8 DEF Open
    <2>3. CASE copy[k].env = e
      <3>1. Wins(copy[k], e)
        BY <1>8, <2>3 DEF Open, Serving, Wins
      <3>2. m = n - 1
        BY <1>0, <2>1, <3>1, WinnersStep
      <3>3. opened'[e] = opened[e] + 1
        BY <1>0, <2>2, <2>3
      <3> HIDE DEF n, m
      <3> QED BY <1>1, <2>2, <3>2, <3>3
    <2>4. CASE copy[k].env # e
      <3>1. Winners(e)' = Winners(e)
        BY <1>0, <2>1, <2>4, WinnersStep DEF Wins
      <3>2. opened'[e] = opened[e]
        BY <1>0, <2>2, <2>4
      <3> QED BY <1>2, <2>2, <3>1, <3>2
    <2> QED BY <2>3, <2>4
  <1>9. ASSUME LoseKeys PROVE Goal
    <2>1. Winners(e)' = Winners(e) /\ opened' = opened /\ losses' = losses + 1
          /\ lives'[e] = 0
      BY <1>9 DEF LoseKeys, Winners, Serving
    <2>2. MaxLives * (losses + 1) = MaxLives * losses + MaxLives
      BY <1>0
    <2>3. m = n /\ opened'[e] = opened[e] /\ MaxLives * losses' = MaxLives * losses + MaxLives
      BY <2>1, <2>2
    <2> HIDE DEF n, m
    <2> QED BY <1>0, <1>1, <2>1, <2>3
  <1>10. ASSUME Tick \/ UNCHANGED vars PROVE Goal
    <2>1. Winners(e)' = Winners(e) /\ opened' = opened /\ losses' = losses /\ lives' = lives
      BY <1>10 DEF Tick, vars, Winners, Serving
    <2> QED BY <1>2, <2>1
  <1>11. Goal
    BY <1>3, <1>5, <1>6, <1>7, <1>8, <1>9, <1>10 DEF Next, Serve, GoOn
  <1> QED BY <1>11

-------------------------------------------------------------------------------
\* IInv is an inductive invariant of the middleware.
THEOREM Inductive == Spec => []IInv
  <1>1. IInv /\ [Next]_vars => IInv'
    <2> SUFFICES ASSUME IInv, [Next]_vars PROVE IInv'
      OBVIOUS
    <2>1. TypeOK' /\ ClaimsInTime' /\ KeysApart'
      BY TypeStep, InTimeStep, KeyStep DEF IInv
    <2>2. OpenedByKeys'
      BY OpenedStep DEF IInv
    <2> QED BY <2>1, <2>2 DEF IInv
  <1> QED BY InitHolds, <1>1, PTL DEF Spec

\* The clock, the keys and the copies keep their types.
THEOREM EncryptedBodyTypeCorrect == Spec => []TypeOK
  <1>1. IInv => TypeOK
    BY DEF IInv
  <1> QED BY Inductive, <1>1, PTL

\* However many copies of an envelope arrive, with whatever timestamp the window
\* admits, in whatever interleaving and with whatever answers of Redis lost or
\* late, its handler runs at most MaxLives times for each period between losses.
THEOREM OpeningsBounded == Spec => []OpenedWithinLives
  <1>1. IInv => OpenedWithinLives
    <2> SUFFICES ASSUME IInv, NEW e \in Envelopes
                 PROVE  opened[e] + Cardinality(Winners(e)) <= MaxLives * (losses + 1)
      BY DEF OpenedWithinLives
    <2> DEFINE n == Cardinality(Winners(e))
    <2>1. /\ opened[e] \in Nat /\ losses \in Nat /\ n \in Nat /\ lives[e] \in Nat
          /\ MaxLives \in Nat
      BY WinnersNat, TimeAssumption, MaxLivesBound DEF IInv, TypeOK
    <2>2. lives[e] <= MaxLives /\ opened[e] + n <= MaxLives * losses + lives[e]
      BY DEF IInv, OpenedByKeys
    <2>3. MaxLives * (losses + 1) = MaxLives * losses + MaxLives /\ MaxLives * losses \in Nat
      BY <2>1
    <2> HIDE DEF n
    <2>4. opened[e] + n <= MaxLives * (losses + 1)
      BY <2>1, <2>2, <2>3
    <2> QED BY <2>4 DEF n
  <1> QED BY Inductive, <1>1, PTL

-------------------------------------------------------------------------------
\* What a step of slot k does to the uses: one more of copy c's envelope when
\* it begins to win, and none when it goes on from won to opened.
LEMMA UsesStep ==
  ASSUME TypeOK, NEW k \in Slots, NEW c, copy' = [copy EXCEPT ![k] = c]
  PROVE  /\ opened' = opened /\ (\A e \in Envelopes : Wins(copy[k], e) <=> Wins(c, e))
              => Uses' = Uses
         /\ \A e \in Envelopes :
              /\ opened' = opened /\ ~Wins(copy[k], e) /\ Wins(c, e)
              /\ (\A f \in Envelopes \ {e} : Wins(copy[k], f) <=> Wins(c, f))
              => Uses' = [Uses EXCEPT ![e] = @ + 1]
         /\ \A e \in Envelopes :
              /\ opened' = [opened EXCEPT ![e] = @ + 1] /\ Wins(copy[k], e) /\ ~Wins(c, e)
              /\ (\A f \in Envelopes \ {e} : Wins(copy[k], f) <=> Wins(c, f))
              => Uses' = Uses
  <1> DEFINE n(e) == Cardinality(Winners(e))
             m(e) == Cardinality(Winners(e)')
  <1>1. /\ Uses = [e \in Envelopes |-> opened[e] + n(e)]
        /\ Uses' = [e \in Envelopes |-> opened'[e] + m(e)]
    BY DEF Uses
  <1>2. \A e \in Envelopes : opened[e] \in Nat /\ n(e) \in Nat
    BY WinnersNat DEF TypeOK
  <1>3. \A e : (Wins(copy[k], e) <=> Wins(c, e)) => m(e) = n(e)
    BY WinnersStep DEF TypeOK
  <1>4. \A e : Wins(c, e) /\ ~Wins(copy[k], e) => m(e) = n(e) + 1
    BY WinnersStep DEF TypeOK
  <1>5. \A e : ~Wins(c, e) /\ Wins(copy[k], e) => m(e) = n(e) - 1
    BY WinnersStep DEF TypeOK
  <1> HIDE DEF n, m
  <1>6. ASSUME opened' = opened, \A e \in Envelopes : Wins(copy[k], e) <=> Wins(c, e)
        PROVE  Uses' = Uses
    BY <1>1, <1>3, <1>6
  <1>7. ASSUME NEW e \in Envelopes, opened' = opened, ~Wins(copy[k], e), Wins(c, e),
               \A f \in Envelopes \ {e} : Wins(copy[k], f) <=> Wins(c, f)
        PROVE  Uses' = [Uses EXCEPT ![e] = @ + 1]
    <2>0. m(e) = n(e) + 1 /\ opened'[e] = opened[e]
      BY <1>4, <1>7
    <2>1. Uses'[e] = Uses[e] + 1
      BY <1>1, <1>2, <2>0
    <2>2. \A f \in Envelopes \ {e} : Uses'[f] = Uses[f]
      BY <1>1, <1>3, <1>7
    <2> QED BY <1>1, <2>1, <2>2
  <1>8. ASSUME NEW e \in Envelopes, opened' = [opened EXCEPT ![e] = @ + 1],
               Wins(copy[k], e), ~Wins(c, e),
               \A f \in Envelopes \ {e} : Wins(copy[k], f) <=> Wins(c, f)
        PROVE  Uses' = Uses
    <2>0. opened'[e] = opened[e] + 1 /\ \A f \in Envelopes \ {e} : opened'[f] = opened[f]
      BY <1>8 DEF TypeOK
    <2>1. opened'[e] + m(e) = opened[e] + n(e)
      BY <1>2, <1>5, <1>8, <2>0
    <2>2. \A f \in Envelopes \ {e} : opened'[f] + m(f) = opened[f] + n(f)
      BY <1>3, <1>8, <2>0
    <2> QED BY <1>1, <2>1, <2>2
  <1> QED BY <1>6, <1>7, <1>8

\* What SET NX does to the tokens: nothing to one that is remembered, and another
\* one is spent in a life of its own.
LEMMA SpentStep ==
  ASSUME TypeOK, ClaimsInTime, KeysApart, NEW k \in Slots, Serving(k, "claim"),
         SetIfNotExists(copy[k].env), now' = now
  PROVE  /\ HasKey(copy[k].env) => Spent' = Spent /\ lives' = lives
         /\ ~HasKey(copy[k].env) => Envelope!Spend(copy[k].env)
  <1>1. copy[k].env \in Envelopes /\ now \in Nat
    BY TimeAssumption DEF TypeOK, Serving, Copies
  <1>2. CASE HasKey(copy[k].env)
    <2>1. key' = key /\ lives' = lives
      BY <1>2 DEF SetIfNotExists
    <2> QED BY <1>2, <2>1 DEF Spent, HasKey
  <1>3. CASE ~HasKey(copy[k].env)
    <2>1. lives[copy[k].env] < MaxLives
      BY <1>3, NewLife
    <2>2. /\ key' = [key EXCEPT ![copy[k].env] = now + TTL]
          /\ lives' = [lives EXCEPT ![copy[k].env] = @ + 1]
      BY <1>3 DEF SetIfNotExists
    <2>3. now + TTL # NoKey /\ now <= now + TTL
      BY <1>1, TimeAssumption DEF NoKey
    <2>4. copy[k].env \notin Spent /\ Spent' = Spent \cup {copy[k].env}
      BY <1>1, <1>3, <2>2, <2>3 DEF Spent, HasKey, TypeOK
    <2> QED BY <1>3, <2>1, <2>2, <2>4 DEF Envelope!Spend
  <1> QED BY <1>2, <1>3

\* Every step of the middleware is a step of SingleUse, or none.
LEMMA EnvelopeStep ==
  ASSUME TypeOK, ClaimsInTime, KeysApart, [Next]_vars
  PROVE  [Envelope!Next]_<<Spent, lives, Uses>>
  <1> DEFINE Stutter == Spent' = Spent /\ lives' = lives /\ Uses' = Uses
  <1>0. copy \in [Slots -> Copies \cup {None}]
    BY DEF TypeOK
  <1>1. ASSUME NEW k \in Slots, NEW e \in Envelopes, Arrive(k, e) PROVE Stutter
    <2> DEFINE c == [env |-> e, since |-> now, tries |-> 0, at |-> "claim"]
    <2>1. /\ copy' = [copy EXCEPT ![k] = c] /\ opened' = opened /\ key' = key /\ now' = now
          /\ lives' = lives /\ \A f : ~Wins(c, f) /\ ~Wins(copy[k], f)
      BY <1>1 DEF Arrive, Wins
    <2> HIDE DEF c
    <2> QED BY <2>1, UsesStep DEF Spent, HasKey
  <1>2. ASSUME NEW k \in Slots, Claim(k) PROVE Stutter \/ Envelope!Next
    <2>1. /\ Serving(k, "claim") /\ copy[k] \in Copies /\ copy[k].env \in Envelopes
          /\ \A f : ~Wins(copy[k], f)
      BY <1>0, <1>2 DEF Claim, Serving, Wins, Copies
    <2>2. opened' = opened /\ now' = now /\ SetIfNotExists(copy[k].env)
      BY <1>2 DEF Claim
    <2>3. CASE HasKey(copy[k].env)
      <3>1. PICK c : /\ copy' = [copy EXCEPT ![k] = c]
                     /\ \A f : ~Wins(c, f)
        <4> DEFINE d == [copy[k] EXCEPT !.at = "taken"]
        <4>1. d.at = "taken"
          BY <2>1 DEF Copies
        <4>2. copy' = [copy EXCEPT ![k] = d]
          BY <1>2, <2>3 DEF Claim
        <4> HIDE DEF d
        <4> QED BY <4>1, <4>2 DEF Wins
      <3>2. Uses' = Uses
        BY <2>1, <2>2, <3>1, UsesStep
      <3> QED BY <2>1, <2>2, <2>3, <3>2, SpentStep
    <2>4. CASE ~HasKey(copy[k].env)
      <3>1. PICK c : /\ copy' = [copy EXCEPT ![k] = c]
                     /\ \A f : Wins(c, f) <=> f = copy[k].env
        <4> DEFINE d == [copy[k] EXCEPT !.at = "won"]
        <4>1. d.at = "won" /\ d.env = copy[k].env /\ d \in Copies
          BY <2>1 DEF Copies
        <4>2. copy' = [copy EXCEPT ![k] = d]
          BY <1>2, <2>4 DEF Claim
        <4> HIDE DEF d
        <4> QED BY <4>1, <4>2, NoneAssumption DEF Wins
      <3>2. Uses' = [Uses EXCEPT ![copy[k].env] = @ + 1]
        BY <2>1, <2>2, <3>1, UsesStep
      <3>3. Envelope!Use(copy[k].env)
        BY <2>1, <2>2, <2>4, <3>2, SpentStep DEF Envelope!Use
      <3> QED BY <2>1, <3>3 DEF Envelope!Next
    <2> QED BY <2>3, <2>4
  <1>3. ASSUME NEW k \in Slots, LoseAnswer(k) PROVE Stutter \/ Envelope!Next
    <2>1. /\ Serving(k, "claim") /\ copy[k] \in Copies /\ copy[k].env \in Envelopes
          /\ opened' = opened /\ now' = now /\ SetIfNotExists(copy[k].env)
      BY <1>0, <1>3 DEF LoseAnswer, Serving, Copies
    <2>2. PICK c : copy' = [copy EXCEPT ![k] = c] /\ \A f : ~Wins(c, f) /\ ~Wins(copy[k], f)
      BY <1>3, <2>1 DEF LoseAnswer, Done, Wins, Copies, Serving
    <2>3. Uses' = Uses
      BY <2>1, <2>2, UsesStep
    <2>4. CASE HasKey(copy[k].env)
      BY <2>1, <2>3, <2>4, SpentStep
    <2>5. CASE ~HasKey(copy[k].env)
      <3>1. Envelope!Waste(copy[k].env)
        BY <2>1, <2>3, <2>5, SpentStep DEF Envelope!Waste
      <3> QED BY <2>1, <3>1 DEF Envelope!Next
    <2> QED BY <2>4, <2>5
  <1>4. ASSUME NEW k \in Slots, Unavailable(k) \/ Refuse(k) PROVE Stutter
    <2>1. /\ copy' = [copy EXCEPT ![k] = None] /\ opened' = opened /\ key' = key /\ now' = now
          /\ lives' = lives /\ \A f : ~Wins(None, f) /\ ~Wins(copy[k], f)
      BY <1>4 DEF Unavailable, Refuse, Done, Wins, Serving
    <2> QED BY <2>1, UsesStep DEF Spent, HasKey
  <1>5. ASSUME NEW k \in Slots, Open(k) PROVE Stutter
    <2>1. /\ copy' = [copy EXCEPT ![k] = None] /\ key' = key /\ now' = now /\ lives' = lives
          /\ opened' = [opened EXCEPT ![copy[k].env] = @ + 1] /\ copy[k].env \in Envelopes
          /\ \A f : ~Wins(None, f) /\ (Wins(copy[k], f) <=> f = copy[k].env)
      BY <1>0, <1>5 DEF Open, Done, Wins, Serving, Copies
    <2> QED BY <2>1, UsesStep DEF Spent, HasKey
  <1>6. ASSUME LoseKeys PROVE Envelope!Next
    <2>1. Spent' = {} /\ lives' = [e \in Envelopes |-> 0]
      BY <1>6 DEF LoseKeys, Spent, HasKey
    <2>2. Uses' = Uses
      BY <1>6 DEF LoseKeys, Uses, Winners, Serving
    <2> QED BY <2>1, <2>2 DEF Envelope!Next, Envelope!Forget
  <1>7. ASSUME Tick PROVE Envelope!Next
    <2>1. now' = now + 1 /\ key' = key /\ lives' = lives
      BY <1>7 DEF Tick
    <2>2. Spent' \subseteq Spent
      BY <2>1 DEF Spent, HasKey, TypeOK, NoKey
    <2>3. Uses' = Uses
      BY <1>7 DEF Tick, Uses, Winners, Serving
    <2> QED BY <2>1, <2>2, <2>3 DEF Envelope!Next, Envelope!Expire
  <1>8. ASSUME UNCHANGED vars PROVE Stutter
    BY <1>8 DEF vars, Spent, HasKey, Uses, Winners, Serving
  <1> QED BY <1>1, <1>2, <1>3, <1>4, <1>5, <1>6, <1>7, <1>8 DEF Next, Serve, GoOn

\* The middleware implements SingleUse for every client the window admits: an
\* envelope is used once or wasted while its key lives, and has at most MaxLives
\* keys between two losses, whatever is resent, lost or late.
THEOREM EnvelopesAreTokens == Spec => EnvelopesUsedOncePerLife
  <1>1. Init => Envelope!Init
    <2> SUFFICES ASSUME Init PROVE Envelope!Init
      OBVIOUS
    <2>1. Spent = {} /\ lives = [e \in Envelopes |-> 0]
      BY DEF Init, Spent, HasKey
    <2>2. \A e \in Envelopes : opened[e] + Cardinality(Winners(e)) = 0
      <3>1. \A e : Winners(e) = {}
        BY DEF Init, Winners, Serving
      <3> QED BY <3>1, FS_EmptySet DEF Init
    <2> QED BY <2>1, <2>2 DEF Envelope!Init, Uses
  <1>2. IInv /\ [Next]_vars => [Envelope!Next]_<<Spent, lives, Uses>>
    BY EnvelopeStep DEF IInv
  <1> QED BY <1>1, <1>2, Inductive, PTL DEF Spec, EnvelopesUsedOncePerLife, Envelope!Spec

-------------------------------------------------------------------------------
(* Orders.  The life of an order, for any number of users, orders and       *)
(* concurrent calls: a spent order is deleted, a deleted order is never     *)
(* created again, and a call that began late therefore does not find it.    *)

Created == {o \in Orders : owner[o] # Nil}

\* A call fits the tables: it names the order that the statement it is at works
\* on, and when it began late its order is spent and it has not found it.
Fits(c) ==
  /\ c \in Calls
  /\ c.op = "request" => c.at \in {"user", "order", "mail"} /\ c.began = "early"
  /\ c.op = "request" /\ c.at = "order" => c.user # Nil
  /\ c.op = "request" /\ c.at = "mail" => c.order \in Created
  /\ c.op = "confirm" => /\ c.at \in {"find", "set", "drop"}
                         /\ c.order \in Created /\ c.new # Nil
  /\ c.op = "confirm" /\ c.at = "drop" => sets[c.order] > 0
  /\ c.op = "change" => c.at \in {"find", "set"} /\ c.user # Nil /\ c.new # Nil
  /\ c.began = "late" => c.order \in spent
  /\ c.op = "confirm" /\ c.began = "late" => c.at = "find"

TablesFit ==
  /\ password \in [Users -> Passwords]
  /\ owner \in [Orders -> Users \cup {Nil}]
  /\ orders \cup mailed \cup known \cup spent \subseteq Created
  /\ sets \in [Orders -> Nat]
  /\ orders \cap spent = {}

CallsFit ==
  /\ call \in [Handlers -> Calls \cup {Nil}]
  /\ \A k \in Handlers : call[k] # Nil => Fits(call[k])

ResetInv == TablesFit /\ CallsFit

-------------------------------------------------------------------------------
\* The invariant is stronger than the two of the specification.
LEMMA InvImplies == ResetInv => ResetTypeOK /\ SpentOrdersStaySpent
  BY DEF ResetInv, TablesFit, CallsFit, Fits, ResetTypeOK, SpentOrdersStaySpent, Created

\* The invariant holds at the start.
LEMMA ResetInitHolds == ResetInit => ResetInv
  <1> SUFFICES ASSUME ResetInit PROVE ResetInv
    OBVIOUS
  <1>1. TablesFit
    BY DEF ResetInit, TablesFit
  <1>2. CallsFit
    BY DEF ResetInit, CallsFit
  <1> QED BY <1>1, <1>2 DEF ResetInv

\* What is created stays created, a set stays counted, what is spent stays spent.
LEMMA Monotone ==
  ASSUME ResetTypeOK, [ResetNext]_resetVars
  PROVE  /\ Created \subseteq Created' /\ spent \subseteq spent'
         /\ \A o \in Orders : sets[o] > 0 => sets'[o] > 0
  <1> USE DEF ResetTypeOK, Created
  <1>1. ASSUME NEW k \in Handlers, NEW o \in Orders, CreateOrder(k, o)
        PROVE  /\ Created \subseteq Created' /\ spent' = spent /\ sets' = sets
    <2>1. owner' = [owner EXCEPT ![o] = call[k].user] /\ owner[o] = Nil
      BY <1>1 DEF CreateOrder
    <2>2. \A x \in Orders : owner[x] # Nil => owner'[x] # Nil
      BY <2>1
    <2> QED BY <1>1, <2>2 DEF CreateOrder
  <1>2. ASSUME NEW k \in Handlers, SetByOrder(k)
        PROVE  /\ owner' = owner /\ spent' = spent
               /\ \A o \in Orders : sets[o] > 0 => sets'[o] > 0
    <2>1. sets' = [sets EXCEPT ![call[k].order] = @ + 1]
      BY <1>2 DEF SetByOrder
    <2> QED BY <1>2, <2>1 DEF SetByOrder
  <1>3. ASSUME NEW k \in Handlers, DropOrder(k)
        PROVE  owner' = owner /\ spent \subseteq spent' /\ sets' = sets
    BY <1>3 DEF DropOrder
  <1>4. CASE owner' = owner /\ spent' = spent /\ sets' = sets
    BY <1>4
  <1> QED
    BY <1>1, <1>2, <1>3, <1>4
       DEF ResetNext, Begin, Step, resetVars, tables, BeginRequest, FindUser, Mail, VerifyLink,
           BeginConfirm, FindOrder, BeginChange, Compare, SetByUser, Fail

\* A call that fits still fits when other calls have moved.
LEMMA FitsStays ==
  ASSUME ResetTypeOK, [ResetNext]_resetVars, NEW c, Fits(c) PROVE Fits(c)'
  <1>1. c \in Calls
    BY DEF Fits
  <1>2. c.order \in Orders => (sets[c.order] > 0 => sets'[c.order] > 0)
    BY Monotone
  <1>3. (c.order \in Created => c.order \in Created') /\ (c.order \in spent => c.order \in spent')
    BY Monotone
  <1>4. Created \subseteq Orders
    BY DEF Created
  <1> QED BY <1>1, <1>2, <1>3, <1>4 DEF Fits

-------------------------------------------------------------------------------
\* It is enough that the handler that moves ends up with a call that fits.
LEMMA CallStep ==
  ASSUME ResetInv, [ResetNext]_resetVars, NEW k \in Handlers, NEW c \in Calls \cup {Nil},
         call' = [call EXCEPT ![k] = c], c = Nil \/ Fits(c)'
  PROVE  CallsFit'
  <1>1. call' \in [Handlers -> Calls \cup {Nil}]
    BY DEF ResetInv, CallsFit
  <1>2. ASSUME NEW j \in Handlers, call'[j] # Nil PROVE Fits(call[j])'
    <2>1. CASE j = k
      <3>1. call'[j] = c
        BY <2>1 DEF ResetInv, CallsFit
      <3>2. Fits(c)'
        BY <1>2, <3>1
      <3> QED BY <3>1, <3>2 DEF Fits
    <2>2. CASE j # k
      <3>1. call'[j] = call[j]
        BY <2>2 DEF ResetInv, CallsFit
      <3>2. \A d : Fits(d) => Fits(d)'
        BY FitsStays, InvImplies
      <3>3. Fits(call[j])
        BY <1>2, <3>1 DEF ResetInv, CallsFit
      <3> QED BY <3>1, <3>2, <3>3 DEF Fits
    <2> QED BY <2>1, <2>2
  <1> QED BY <1>1, <1>2 DEF CallsFit
-------------------------------------------------------------------------------
\* The invariant is kept by the start of a call.
LEMMA BeginStep ==
  ASSUME ResetInv, NEW k \in Handlers, Begin(k) PROVE ResetInv'
  <1>0. ResetTypeOK /\ [ResetNext]_resetVars
    BY InvImplies DEF ResetNext
  <1>1. TablesFit'
    BY DEF ResetInv, TablesFit, Created, Begin, BeginRequest, BeginConfirm, BeginChange, tables
  <1>2. ASSUME NEW u \in Users \cup {Nil}, BeginRequest(k, u) PROVE CallsFit'
    <2> DEFINE c == [Blank EXCEPT !.user = u]
    <2>1. c \in Calls
      BY DEF Blank, Calls
    <2>2. Fits(c)'
      BY <2>1 DEF Blank, Fits
    <2>3. call' = [call EXCEPT ![k] = c]
      BY <1>2 DEF BeginRequest, Start
    <2> QED BY <1>0, <2>1, <2>2, <2>3, CallStep
  <1>3. ASSUME NEW o \in Orders, NEW p \in Passwords, BeginConfirm(k, o, p) PROVE CallsFit'
    <2>1. PICK b \in {"early", "late"} : b = IF o \in spent THEN "late" ELSE "early"
      OBVIOUS
    <2> DEFINE c == [Blank EXCEPT !.op = "confirm", !.at = "find", !.order = o, !.new = p,
                                  !.began = b]
    <2>2. c \in Calls
      BY DEF Blank, Calls
    <2>3. o \in Created' /\ spent' = spent
      BY <1>3 DEF BeginConfirm, ResetInv, TablesFit, Created, tables
    <2>4. Fits(c)'
      BY <2>1, <2>2, <2>3, NilAssumption DEF Blank, Fits
    <2>5. call' = [call EXCEPT ![k] = c]
      BY <1>3, <2>1 DEF BeginConfirm, Start
    <2> QED BY <1>0, <2>2, <2>4, <2>5, CallStep
  <1>4. ASSUME NEW u \in Users, NEW cur \in Passwords, NEW p \in Passwords,
               BeginChange(k, u, cur, p)
        PROVE  CallsFit'
    <2> DEFINE c == [Blank EXCEPT !.op = "change", !.at = "find", !.user = u,
                                  !.current = cur, !.new = p]
    <2>1. c \in Calls
      BY DEF Blank, Calls
    <2>2. Fits(c)'
      BY <2>1, NilAssumption DEF Blank, Fits
    <2>3. call' = [call EXCEPT ![k] = c]
      BY <1>4 DEF BeginChange, Start
    <2> QED BY <1>0, <2>1, <2>2, <2>3, CallStep
  <1> QED BY <1>1, <1>2, <1>3, <1>4 DEF Begin, ResetInv

\* The invariant is kept by the awaits of a call.
LEMMA StepStep ==
  ASSUME ResetInv, NEW k \in Handlers, Step(k) PROVE ResetInv'
  <1>0. ResetTypeOK /\ [ResetNext]_resetVars
    BY InvImplies DEF ResetNext
  <1>1. call[k] \in Calls /\ call[k] # Nil /\ Fits(call[k])
    BY DEF ResetInv, CallsFit, Step, CreateOrder, FindUser, Mail, FindOrder, SetByOrder, DropOrder,
           Compare, SetByUser, Fail, At
  <1>2. call[k].user \in Users \cup {Nil} /\ call[k].order \in Orders \cup {Nil}
        /\ call[k].new \in Passwords \cup {Nil}
    BY <1>1 DEF Calls
  <1>3. ASSUME call' = [call EXCEPT ![k] = Nil], TablesFit' PROVE ResetInv'
    BY <1>0, <1>3, CallStep DEF ResetInv
  <1>4. ASSUME NEW c, NEW a \in {"order", "set", "drop"}, c = [call[k] EXCEPT !.at = a],
               call' = [call EXCEPT ![k] = c], Fits(c)', TablesFit'
        PROVE  ResetInv'
    <2>1. c \in Calls
      BY <1>1, <1>4 DEF Calls
    <2> QED BY <1>0, <1>4, <2>1, CallStep DEF ResetInv
  <1>5. ASSUME UNCHANGED <<tables, mailed, known, sets, spent>> PROVE TablesFit'
    BY <1>5 DEF ResetInv, TablesFit, Created, tables
  <1>6. ASSUME FindUser(k) PROVE ResetInv'
    <2>1. PICK c : c = [call[k] EXCEPT !.at = "order"]
      OBVIOUS
    <2>2. TablesFit'
      BY <1>5, <1>6 DEF FindUser
    <2>3. CASE call[k].user # Nil
      <3>1. call' = [call EXCEPT ![k] = c] /\ c.at = "order" /\ c.op = "request"
            /\ c.user # Nil /\ c.began = call[k].began /\ c.order = call[k].order
            /\ c \in Calls
        BY <1>1, <1>6, <2>1, <2>3 DEF FindUser, GoTo, At, Calls
      <3>2. c.began = "early"
        BY <1>1, <1>6, <3>1 DEF FindUser, At, Fits
      <3>3. Fits(c)'
        BY <3>1, <3>2 DEF Fits
      <3> QED BY <1>4, <2>1, <2>2, <3>1, <3>3
    <2>4. CASE call[k].user = Nil
      BY <1>3, <1>6, <2>2, <2>4 DEF FindUser, Finish
    <2> QED BY <2>3, <2>4
  <1>7. ASSUME NEW o \in Orders, CreateOrder(k, o) PROVE ResetInv'
    <2>1. PICK c : c = [call[k] EXCEPT !.at = "mail", !.order = o]
      OBVIOUS
    <2>2. call' = [call EXCEPT ![k] = c] /\ c.at = "mail" /\ c.op = "request"
          /\ c.order = o /\ c.began = call[k].began /\ c \in Calls /\ call[k].user # Nil
      BY <1>1, <1>7, <2>1 DEF CreateOrder, At, Calls, Fits
    <2>3. owner' = [owner EXCEPT ![o] = call[k].user] /\ o \notin Created
      BY <1>7 DEF CreateOrder, Created
    <2>4. Created' = Created \cup {o}
      BY <2>2, <2>3 DEF ResetInv, TablesFit, Created
    <2>5. TablesFit'
      BY <1>2, <1>7, <2>3, <2>4 DEF CreateOrder, ResetInv, TablesFit
    <2>6. c.began = "early"
      BY <1>1, <1>7, <2>2 DEF CreateOrder, At, Fits
    <2>7. Fits(c)'
      BY <2>2, <2>4, <2>6 DEF Fits
    <2> QED BY <1>0, <2>2, <2>5, <2>7, CallStep DEF ResetInv
  <1>8. ASSUME Mail(k) PROVE ResetInv'
    <2>1. call[k].order \in Created
      BY <1>1, <1>8 DEF Mail, At, Fits
    <2>2. TablesFit'
      BY <1>8, <2>1 DEF Mail, ResetInv, TablesFit, Created, tables
    <2> QED BY <1>3, <1>8, <2>2 DEF Mail, Finish
  <1>9. ASSUME FindOrder(k) PROVE ResetInv'
    <2>1. PICK c : c = [call[k] EXCEPT !.at = "set"]
      OBVIOUS
    <2>2. TablesFit'
      BY <1>5, <1>9 DEF FindOrder
    <2>3. CASE call[k].order \in orders
      <3>1. /\ call' = [call EXCEPT ![k] = c] /\ c.at = "set" /\ c.op = "confirm"
            /\ c.order = call[k].order /\ c.began = call[k].began /\ c.new = call[k].new
            /\ c \in Calls
        BY <1>1, <1>9, <2>1, <2>3 DEF FindOrder, GoTo, At, Calls
      <3>2. owner' = owner /\ c.order \notin spent /\ c.order \in Created
        BY <1>9, <2>3, <3>1 DEF FindOrder, tables, ResetInv, TablesFit
      <3>3. c.began # "late"
        BY <1>1, <3>1, <3>2 DEF Fits
      <3>4. c.order \in Created'
        BY <3>2 DEF Created
      <3>5. c.new # Nil
        BY <1>1, <1>9, <3>1 DEF FindOrder, At, Fits
      <3>6. Fits(c)'
        BY <3>1, <3>3, <3>4, <3>5 DEF Fits
      <3> QED BY <1>4, <2>1, <2>2, <3>1, <3>6
    <2>4. CASE call[k].order \notin orders
      BY <1>3, <1>9, <2>2, <2>4 DEF FindOrder, Finish
    <2> QED BY <2>3, <2>4
  <1>10. ASSUME SetByOrder(k) PROVE ResetInv'
    <2>1. PICK c : c = [call[k] EXCEPT !.at = "drop"]
      OBVIOUS
    <2>2. /\ call' = [call EXCEPT ![k] = c] /\ c.at = "drop" /\ c.op = "confirm"
          /\ c.order = call[k].order /\ c.began = call[k].began /\ c.new = call[k].new
          /\ c \in Calls
      BY <1>1, <1>10, <2>1 DEF SetByOrder, GoTo, At, Calls
    <2>3. c.order \in Created /\ c.new # Nil /\ c.began # "late" /\ c.order \in Orders
      BY <1>1, <1>10, <2>2 DEF SetByOrder, At, Fits, Created
    <2>4. /\ owner' = owner /\ orders' = orders /\ mailed' = mailed /\ known' = known
          /\ spent' = spent /\ sets' = [sets EXCEPT ![c.order] = @ + 1]
          /\ password' = [password EXCEPT ![owner[c.order]] = c.new]
      BY <1>10, <2>2 DEF SetByOrder
    <2>5. TablesFit'
      BY <1>2, <2>2, <2>3, <2>4 DEF ResetInv, TablesFit, Created
    <2>6. sets'[c.order] > 0
      BY <2>3, <2>4 DEF ResetInv, TablesFit
    <2>7. c.order \in Created'
      BY <2>3, <2>4 DEF Created
    <2>8. Fits(c)'
      BY <2>2, <2>3, <2>6, <2>7 DEF Fits
    <2> QED BY <1>4, <2>1, <2>2, <2>5, <2>8
  <1>11. ASSUME DropOrder(k) PROVE ResetInv'
    <2>1. call[k].order \in Created
      BY <1>1, <1>11 DEF DropOrder, At, Fits
    <2>2. TablesFit'
      BY <1>11, <2>1 DEF DropOrder, ResetInv, TablesFit, Created
    <2> QED BY <1>3, <1>11, <2>2 DEF DropOrder, Finish
  <1>12. ASSUME Compare(k) PROVE ResetInv'
    <2>1. PICK c : c = [call[k] EXCEPT !.at = "set"]
      OBVIOUS
    <2>2. TablesFit' /\ spent' = spent
      BY <1>5, <1>12 DEF Compare
    <2>3. CASE call' = [call EXCEPT ![k] = c]
      <3>1. /\ c.at = "set" /\ c.op = "change" /\ c.user = call[k].user
            /\ c.order = call[k].order /\ c.began = call[k].began /\ c.new = call[k].new
            /\ c \in Calls
        BY <1>1, <1>12, <2>1 DEF Compare, At, Calls
      <3>2. Fits(c)'
        BY <1>1, <1>12, <2>2, <3>1 DEF Fits, Compare, At
      <3> QED BY <1>4, <2>1, <2>2, <2>3, <3>2
    <2>4. CASE call' = [call EXCEPT ![k] = Nil]
      BY <1>3, <2>2, <2>4
    <2> QED BY <1>12, <2>1, <2>3, <2>4 DEF Compare, GoTo, Finish
  <1>13. ASSUME SetByUser(k) PROVE ResetInv'
    <2>1. call[k].new \in Passwords
      BY <1>1, <1>2, <1>13 DEF SetByUser, At, Fits
    <2>2. TablesFit'
      BY <1>13, <2>1 DEF SetByUser, ResetInv, TablesFit, Created
    <2> QED BY <1>3, <1>13, <2>2 DEF SetByUser, Finish
  <1>14. ASSUME Fail(k) PROVE ResetInv'
    BY <1>3, <1>5, <1>14 DEF Fail, Finish
  <1> QED BY <1>6, <1>7, <1>8, <1>9, <1>10, <1>11, <1>12, <1>13, <1>14 DEF Step

\* ResetInv is an inductive invariant.
LEMMA NextKeeps == ResetInv /\ [ResetNext]_resetVars => ResetInv'
  <1> SUFFICES ASSUME ResetInv, [ResetNext]_resetVars PROVE ResetInv'
    OBVIOUS
  <1>1. ASSUME NEW o \in Orders, VerifyLink(o) PROVE ResetInv'
    <2>1. TablesFit' /\ call' = call /\ spent' = spent /\ sets' = sets /\ Created' = Created
      BY <1>1 DEF VerifyLink, ResetInv, TablesFit, Created, tables
    <2>2. CallsFit'
      BY <2>1 DEF ResetInv, CallsFit, Fits
    <2> QED BY <2>1, <2>2 DEF ResetInv
  <1>2. CASE UNCHANGED resetVars
    <2>1. TablesFit' /\ call' = call /\ spent' = spent /\ sets' = sets /\ Created' = Created
      BY <1>2 DEF resetVars, ResetInv, TablesFit, Created, tables
    <2>2. CallsFit'
      BY <2>1 DEF ResetInv, CallsFit, Fits
    <2> QED BY <2>1, <2>2 DEF ResetInv
  <1> QED BY <1>1, <1>2, BeginStep, StepStep DEF ResetNext

\* Every row, link and password is one that a request or a user made.
THEOREM ResetTypeCorrect == ResetSpec => []ResetTypeOK
  <1>1. ResetInv => ResetTypeOK
    BY InvImplies
  <1> QED BY ResetInitHolds, NextKeeps, <1>1, PTL DEF ResetSpec

\* Once a confirmation of an order has been answered with 200, no confirmation
\* that begins later sets a password, whatever the interleaving and the failures.
THEOREM SpentOrdersAreSpent == ResetSpec => []SpentOrdersStaySpent
  <1>1. ResetInv => SpentOrdersStaySpent
    BY InvImplies
  <1> QED BY ResetInitHolds, NextKeeps, <1>1, PTL DEF ResetSpec

\* A confirmation that breaks off never costs the user the link.
THEOREM OrdersLeaveUsed == ResetSpec => OrdersLeaveAfterUse
  <1>1. ResetInv /\ [ResetNext]_resetVars => [\A o \in orders \ orders' : sets[o] > 0]_resetVars
    <2> SUFFICES ASSUME ResetInv, [ResetNext]_resetVars, NEW o \in orders, o \notin orders'
                 PROVE  sets[o] > 0
      OBVIOUS
    <2>1. PICK k \in Handlers : DropOrder(k)
      BY DEF ResetNext, Begin, Step, resetVars, tables, BeginRequest, FindUser, CreateOrder, Mail,
             VerifyLink, BeginConfirm, FindOrder, SetByOrder, BeginChange, Compare,
             SetByUser, Fail
    <2>2. o = call[k].order /\ call[k] # Nil /\ call[k].op = "confirm" /\ call[k].at = "drop"
      BY <2>1 DEF DropOrder, At
    <2> QED BY <2>2 DEF ResetInv, CallsFit, Fits
  <1> QED BY ResetInitHolds, NextKeeps, <1>1, PTL DEF ResetSpec, OrdersLeaveAfterUse
===============================================================================
