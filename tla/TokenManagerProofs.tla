------------------------- MODULE TokenManagerProofs -------------------------
(***************************************************************************)
(* What TokenManager promises for any number of callers, any lifetimes,    *)
(* timeouts, failures and restarts: a token that get_token hands out is    *)
(* active and unexpired (ReturnsAlive); and as long as nothing fails no    *)
(* more than two tokens are taken from the pool in one lifetime            *)
(* (TokensAreBounded).                                                     *)
(*                                                                         *)
(* The second needs ActiveBeforeRenewed, that a token is active in less    *)
(* time than it is renewed ahead of its end, as _ACTIVATION_WAIT_S = 13.0  *)
(* and _REFRESH_AHEAD_S = 150.0 say (token_manager.py:50, 52).  Were they  *)
(* equal, a caller could refresh at the moment the background task takes   *)
(* the third token of a lifetime.                                          *)
(***************************************************************************)
EXTENDS TokenManager, WellFoundedInduction, SequenceTheorems, TLAPS

ActiveBeforeRenewed == Activation < Ahead

Before == {"create", "list", "delete", "retry"}
After  == {"reply", "sleep"}

-----------------------------------------------------------------------------
(* The lock: whoever refreshes is the head of the queue, and all who wait  *)
(* for it are in there.                                                    *)

InQueue(c) == \E i \in 1 .. Len(queue) : queue[i] = c

LockInv ==
  /\ \A c \in Caller : pc[c] \in {"lock"} \cup Before \cup After => InQueue(c)
  /\ \A c \in Caller : pc[c] \in Before \cup After => Head(queue) = c
  /\ pc[Background] \in {"idle"} \cup Before \cup After
  /\ refreshing <=> pc[Background] # "idle"

-----------------------------------------------------------------------------
(* The times *)

\* Nobody waits beyond a deadline, a call takes at most NetMax, and a sleep
\* after it Activation.
InTime(p) ==
  /\ pc[p] \in Awaiting => now <= deadline[p]
  /\ pc[p] \in {"create", "retry"} => deadline[p] <= now + NetMax
  /\ pc[p] \in After => got[p] \in 1 .. issued
  /\ pc[p] = "reply" => deadline[p] <= born[got[p]] + NetMax
  /\ pc[p] = "sleep" => /\ born[got[p]] + Activation <= deadline[p]
                        /\ deadline[p] <= born[got[p]] + NetMax + Activation

WaitsInTime == \A p \in Proc : InTime(p)

HeldInTime == pc[Background] = "sleep" => until = deadline[Background] + Ttl - Activation

CachedInTime ==
  cache.token # NoToken => /\ cache.token \in 1 .. issued
                           /\ born[cache.token] + Activation <= cache.active
                           /\ cache.until <= born[cache.token] + Ttl + NetMax

BornInOrder == \A t \in 1 .. issued : /\ born[t] <= now
                                      /\ \A u \in 1 .. t : born[u] <= born[t]

TimesInv == WaitsInTime /\ HeldInTime /\ CachedInTime /\ BornInOrder

-----------------------------------------------------------------------------
(* TwoPerLifetime *)

Deciding == \E c \in Caller : pc[c] \in Before
Uncached == \E c \in Caller : pc[c] = "reply"
Asleep   == \E c \in Caller : pc[c] = "sleep"

Stale == cache.token = NoToken \/ cache.until <= now

\* The cache is good until less is left than d of what token t lives.
Covers(t, d) == cache.token # NoToken /\ cache.until >= born[t] + Ttl - d

Past(t) == now > born[t] + Ttl - Ahead

\* One more token may be issued, and two more may.
OneMore == issued >= 2 => Past(issued - 1)
TwoMore == issued >= 1 => Past(issued)

\* The cache covers the last token almost, and the one before in full.
Settled == /\ issued >= 1 => Covers(issued, Activation)
           /\ issued >= 2 => Covers(issued - 1, 0)

\* While the background task has no token of its own.
NothingHeld ==
  pc[Background] \notin After =>
    /\ ~ Uncached => Settled
    /\ Uncached => Stale \/ (issued >= 2 /\ Covers(issued - 1, 0))
    /\ Deciding => /\ OneMore
                   /\ (issued >= 1 /\ Covers(issued, 0)) \/ (Stale /\ TwoMore)
                   /\ pc[Background] \in Before => TwoMore
    /\ pc[Background] \in Before => OneMore

\* While it waits for its token b to become active.
OneHeld ==
  pc[Background] \in After =>
    LET b == got[Background]
    IN  /\ Uncached => issued >= 2
        /\ b < issued - 1 => now >= born[issued - 1] + Ttl
        /\ ~ Uncached /\ b = issued /\ issued >= 2 => Covers(issued - 1, Activation)
        /\ ~ Uncached /\ b < issued => Covers(issued, 0)
        /\ Deciding => OneMore /\ (b < issued => now >= born[issued] + Ttl)

\* Only who sleeps may have cached a token that is not active.
SleepsUntilActive ==
  /\ ~ Asleep => cache.active <= now
  /\ \A c \in Caller : pc[c] = "sleep" => cache.active <= deadline[c]

Spaced == \A t \in 1 .. issued - 2 : born[t + 2] > born[t] + Ttl - Ahead

Bounded == NothingHeld /\ OneHeld /\ SleepsUntilActive /\ Spaced

BoundInv == faults = 0 => Bounded

-----------------------------------------------------------------------------
(* Queues *)

LEMMA LeastNumber ==
  ASSUME NEW S, S \subseteq Nat, S # {}
  PROVE  \E k \in S : \A n \in S : k <= n
  <1> DEFINE R == OpToRel(<, Nat)
  <1>1. IsWellFoundedOn(R, Nat)
    BY Zenon, NatLessThanWellFounded
  <1>2. \A x, y \in Nat : x < y => <<x, y>> \in R
    BY DEF OpToRel
  <1> HIDE DEF R
  <1>3. PICK k \in S : \A n \in S : ~ (<<n, k>> \in R)
    BY <1>1, WFMin
  <1>4. \A n \in S : ~ (n < k)
    BY <1>2, <1>3
  <1>5. \A n \in S : n \in Nat /\ k \in Nat
    OBVIOUS
  <1> QED BY <1>4, <1>5

LEMMA SeqRemoved ==
  ASSUME NEW q \in Seq(Caller), NEW i \in 1 .. Len(q)
  PROVE  /\ RemoveAt(q, i) \in Seq(Caller)
         /\ Len(RemoveAt(q, i)) = Len(q) - 1
         /\ \A k \in 1 .. Len(q) - 1 : RemoveAt(q, i)[k] = IF k < i THEN q[k] ELSE q[k + 1]
  <1> DEFINE a == SubSeq(q, 1, i - 1)
             b == SubSeq(q, i + 1, Len(q))
  <1>1. Len(q) \in Nat /\ i \in Nat /\ 1 <= i /\ i <= Len(q)
    OBVIOUS
  <1>2. \A k \in 1 .. i - 1 : q[k] \in Caller
    BY <1>1
  <1>3. \A k \in i + 1 .. Len(q) : q[k] \in Caller
    BY <1>1
  <1>4. a \in Seq(Caller) /\ Len(a) = i - 1 /\ \A k \in 1 .. i - 1 : a[k] = q[k]
    BY <1>1, <1>2
  <1>5. b \in Seq(Caller) /\ Len(b) = Len(q) - i /\ \A k \in 1 .. Len(q) - i : b[k] = q[k + i]
    BY <1>1, <1>3
  <1> HIDE DEF a, b
  <1>6. /\ a \o b \in Seq(Caller)
        /\ Len(a \o b) = Len(q) - 1
    <2>1. a \o b \in Seq(Caller) /\ Len(a \o b) = Len(a) + Len(b)
      BY <1>4, <1>5, ConcatProperties
    <2> QED BY <2>1, <1>1, <1>4, <1>5
  <1>7. ASSUME NEW k \in 1 .. Len(q) - 1
        PROVE  (a \o b)[k] = IF k < i THEN q[k] ELSE q[k + 1]
    <2>1. CASE k < i
      BY <2>1, <1>1, <1>4, <1>5
    <2>2. CASE k >= i
      <3>1. k - (i - 1) \in 1 .. Len(q) - i
        BY <2>2, <1>1
      <3>2. (a \o b)[k] = b[k - (i - 1)]
        BY <2>2, <1>1, <1>4, <1>5
      <3>3. b[k - (i - 1)] = q[(k - (i - 1)) + i]
        BY <3>1, <1>5
      <3>4. (k - (i - 1)) + i = k + 1
        BY <1>1
      <3> QED BY <2>2, <1>1, <3>2, <3>3, <3>4
    <2>3. k < i \/ k >= i
      BY <1>1
    <2> QED BY <2>1, <2>2, <2>3
  <1>8. RemoveAt(q, i) = a \o b
    BY DEF RemoveAt, a, b
  <1> QED BY <1>6, <1>7, <1>8

\* Whoever else waits goes on waiting, and keeps the lock.
LEMMA QueueLosesFirst ==
  ASSUME NEW q \in Seq(Caller), NEW p
  PROVE  /\ RemoveFirst(q, p) \in Seq(Caller)
         /\ \A d \in Caller \ {p} :
              (\E i \in 1 .. Len(q) : q[i] = d)
              => /\ \E i \in 1 .. Len(RemoveFirst(q, p)) : RemoveFirst(q, p)[i] = d
                 /\ Head(q) = d => Head(RemoveFirst(q, p)) = d
  <1>1. CASE ~ \E i \in 1 .. Len(q) : q[i] = p
    <2>1. RemoveFirst(q, p) = q
      BY <1>1 DEF RemoveFirst
    <2> QED BY <2>1
  <1>2. CASE \E i \in 1 .. Len(q) : q[i] = p
    <2> DEFINE I == {i \in 1 .. Len(q) : q[i] = p}
    <2>1. I # {} /\ I \subseteq Nat
      BY <1>2
    <2>2. \E k \in I : \A n \in I : k <= n
      BY <2>1, LeastNumber
    <2>3. Min(I) \in I
      BY <2>2 DEF Min
    <2>4. PICK j \in 1 .. Len(q) : j = Min(I) /\ q[j] = p
      BY <2>3
    <2>5. RemoveFirst(q, p) = RemoveAt(q, j)
      BY <1>2, <2>1, <2>4 DEF RemoveFirst, SelectInSeq
    <2> DEFINE r == RemoveAt(q, j)
    <2>6. /\ r \in Seq(Caller) /\ Len(r) = Len(q) - 1
          /\ \A k \in 1 .. Len(q) - 1 : r[k] = IF k < j THEN q[k] ELSE q[k + 1]
      BY SeqRemoved
    <2> HIDE DEF r, I
    <2>7. ASSUME NEW d \in Caller \ {p}, NEW i \in 1 .. Len(q), q[i] = d
          PROVE  /\ \E k \in 1 .. Len(r) : r[k] = d
                 /\ Head(q) = d => Head(r) = d
      <3>1. i # j /\ Len(q) \in Nat
        BY <2>4, <2>7
      <3>2. CASE i < j
        <4>1. i \in 1 .. Len(q) - 1 /\ i \in 1 .. Len(r)
          BY <3>1, <3>2, <2>6
        <4>2. r[i] = d
          BY <4>1, <3>2, <2>6, <2>7
        <4> QED
          <5>1. Head(q) = q[1] /\ Head(r) = r[1]
            BY <4>1
          <5>2. 1 < j => r[1] = q[1]
            BY <4>1, <2>6, <3>1
          <5>3. j = 1 => Head(q) = p
            BY <5>1, <2>4
          <5> QED BY <4>1, <4>2, <5>1, <5>2, <5>3, <3>2
      <3>3. CASE i > j
        <4>1. i - 1 \in 1 .. Len(q) - 1 /\ i - 1 \in 1 .. Len(r) /\ ~ (i - 1 < j)
          BY <3>1, <3>3, <2>6
        <4>2. r[i - 1] = q[(i - 1) + 1]
          BY <4>1, <2>6
        <4>3. r[i - 1] = d
          BY <4>2, <2>7, <3>1
        <4>4. Head(q) = d => Head(r) = d
          <5>1. Head(q) = q[1] /\ Head(r) = r[1]
            BY <4>1
          <5>2. 1 < j => r[1] = q[1]
            BY <4>1, <2>6, <3>1
          <5>3. j = 1 => Head(q) = p
            BY <5>1, <2>4
          <5>4. j = 1 \/ 1 < j
            BY <2>4
          <5> QED BY <5>1, <5>2, <5>3, <5>4
        <4> QED BY <4>1, <4>3, <4>4
      <3> QED BY <3>1, <3>2, <3>3
    <2>8. r = RemoveFirst(q, p)
      BY <2>5 DEF r
    <2> QED BY <2>6, <2>7, <2>8
  <1> QED BY <1>1, <1>2

LEMMA QueueLosesHead ==
  ASSUME NEW q \in Seq(Caller), NEW i \in 1 .. Len(q)
  PROVE  /\ Tail(q) \in Seq(Caller)
         /\ q[i] # Head(q) => \E k \in 1 .. Len(Tail(q)) : Tail(q)[k] = q[i]
  <1>1. q # <<>> /\ Head(q) = q[1] /\ Len(q) \in Nat
    OBVIOUS
  <1>2. Tail(q) \in Seq(Caller) /\ Len(Tail(q)) = Len(q) - 1
    BY <1>1
  <1>3. ASSUME q[i] # Head(q)
        PROVE  \E k \in 1 .. Len(Tail(q)) : Tail(q)[k] = q[i]
    <2>1. i - 1 \in 1 .. Len(Tail(q))
      BY <1>1, <1>2, <1>3
    <2>2. Tail(q)[i - 1] = q[(i - 1) + 1]
      BY <2>1, <1>1, <1>2
    <2> QED BY <2>1, <2>2
  <1> QED BY <1>2, <1>3

-----------------------------------------------------------------------------
(* Types *)

LEMMA ConstantsTyped ==
  /\ Ttl \in Nat /\ Activation \in Nat /\ Ahead \in Nat /\ NetMax \in Nat
  /\ RealTtl \in Nat /\ RealActivation \in Nat /\ MaxToken \in Nat
  /\ MaxTime \in Nat /\ MaxFault \in Nat /\ PoolLimit \in Nat
  /\ RealActivation <= Activation /\ Activation < Ttl /\ Ttl + NetMax <= RealTtl
  /\ Background \notin Caller
  BY TokenAssumption

LEMMA TypeInit == Init => TypeOK
  <1> SUFFICES ASSUME Init PROVE TypeOK
    OBVIOUS
  <1>1. MaxToken \in Nat /\ MaxFault \in Nat
    BY ConstantsTyped
  <1>2. cache \in [token : 0 .. MaxToken, until : Nat, active : Nat]
    BY <1>1 DEF Init, Empty, NoToken
  <1>3. /\ pc \in [Proc -> {"idle", "lock", "has"} \cup Awaiting]
        /\ got \in [Proc -> 0 .. MaxToken]
        /\ victims \in [Proc -> SUBSET (1 .. MaxToken)]
    BY <1>1 DEF Init, NoToken
  <1>4. /\ born \in [1 .. MaxToken -> Nat]
        /\ deadline \in [Proc -> Nat]
        /\ queue \in Seq(Caller) /\ until \in Nat
    BY <1>1 DEF Init
  <1>6. refreshing \in BOOLEAN
    BY DEF Init
  <1>5. now \in Nat /\ issued \in 0 .. MaxToken /\ faults \in 0 .. MaxFault
        /\ pool \in SUBSET (1 .. issued)
    BY <1>1 DEF Init
  <1> QED BY <1>2, <1>3, <1>4, <1>5, <1>6 DEF TypeOK

LEMMA StopTyped ==
  ASSUME TypeOK, NEW p \in Proc, Stop(p), faults' \in 0 .. MaxFault
  PROVE  TypeOK'
  <1>1. queue' \in Seq(Caller)
    BY QueueLosesFirst DEF TypeOK, Stop
  <1>2. refreshing' \in BOOLEAN
    BY DEF TypeOK, Stop
  <1>3. /\ pc' \in [Proc -> {"idle", "lock", "has"} \cup Awaiting]
        /\ victims' \in [Proc -> SUBSET (1 .. MaxToken)]
    BY DEF TypeOK, Stop
  <1>4. got' \in [Proc -> 0 .. MaxToken]
    BY ConstantsTyped DEF TypeOK, Stop, NoToken
  <1> QED BY <1>1, <1>2, <1>3, <1>4 DEF TypeOK, Stop, vodVars

LEMMA RefreshTyped ==
  ASSUME TypeOK, NEW p \in Proc, Refresh(p)
  PROVE  TypeOK'
  <1> USE ConstantsTyped
  <1>1. CASE Create(p)
    <2>1. issued' \in 1 .. MaxToken /\ issued' = issued + 1
      BY <1>1 DEF Create, TypeOK
    <2>2. pool' \in SUBSET (1 .. issued')
      BY <1>1, <2>1 DEF Create, TypeOK
    <2>3. born' \in [1 .. MaxToken -> Nat]
      BY <1>1, <2>1 DEF Create, TypeOK
    <2>4. got' \in [Proc -> 0 .. MaxToken]
      BY <1>1, <2>1 DEF Create, TypeOK
    <2> QED BY <1>1, <2>1, <2>2, <2>3, <2>4
          DEF Create, TypeOK, managerVars, Awaiting, Calling
  <1>2. CASE PoolFull(p)
    BY <1>2 DEF PoolFull, Goto, TypeOK, managerVars, vodVars, Awaiting, Calling
  <1>3. CASE List(p)
    <2>1. Old(pool) \subseteq 1 .. MaxToken
      <3>1. Old(pool) \subseteq pool
        BY DEF Old
      <3>2. pool \subseteq 1 .. issued /\ issued \in 0 .. MaxToken
        BY DEF TypeOK
      <3>3. 1 .. issued \subseteq 1 .. MaxToken
        BY <3>2
      <3> QED BY <3>1, <3>2, <3>3
    <2> QED BY <1>3, <2>1 DEF List, Goto, TypeOK, managerVars, vodVars, Awaiting, Calling
  <1>4. CASE Delete(p)
    <2>1. pool' \in SUBSET (1 .. issued)
      BY <1>4 DEF Delete, TypeOK
    <2>2. victims' \in [Proc -> SUBSET (1 .. MaxToken)]
      BY <1>4 DEF Delete, TypeOK
    <2> QED BY <1>4, <2>1, <2>2 DEF Delete, TypeOK, managerVars
  <1>5. CASE Retry(p)
    BY <1>5 DEF Retry, Goto, TypeOK, managerVars, vodVars, Awaiting, Calling
  <1>6. CASE Refused(p)
    BY <1>6, StopTyped DEF Refused, TypeOK
  <1> QED BY <1>1, <1>2, <1>3, <1>4, <1>5, <1>6 DEF Refresh

LEMMA CallerTyped ==
  ASSUME TypeOK, LockInv, NEW c \in Caller,
         Serve(c) \/ AwaitLock(c) \/ EnterServed(c) \/ EnterRefresh(c)
         \/ Cache(c) \/ Wake(c) \/ Use(c)
  PROVE  TypeOK'
  <1> USE ConstantsTyped
  <1>p. c \in Proc /\ Background \in Proc
    BY DEF Proc
  <1>1. CASE Serve(c)
    <2>0. refreshing' \in BOOLEAN
      BY <1>1 DEF Serve, TypeOK
    <2>1. deadline' \in [Proc -> Nat]
      <3>1. deadline \in [Proc -> Nat] /\ now + NetMax \in Nat
        BY DEF TypeOK
      <3>2. deadline' = deadline \/ deadline' = [deadline EXCEPT ![Background] = now + NetMax]
        BY <1>1 DEF Serve
      <3> QED BY <3>1, <3>2, <1>p
    <2>2. got' \in [Proc -> 0 .. MaxToken]
      BY <1>1, <1>p DEF Serve, TypeOK
    <2>3. pc' \in [Proc -> {"idle", "lock", "has"} \cup Awaiting]
      BY <1>1, <1>p DEF Serve, TypeOK, Awaiting, Calling
    <2> QED BY <1>1, <2>0, <2>1, <2>2, <2>3 DEF Serve, TypeOK, vodVars
  <1>2. CASE AwaitLock(c)
    BY <1>2, <1>p DEF AwaitLock, Goto, TypeOK, vodVars, Awaiting, Calling
  <1>3. CASE EnterServed(c) \/ Wake(c)
    <2>1. InQueue(c)
      BY <1>3 DEF LockInv, EnterServed, Wake, Goto, After
    <2>2. Tail(queue) \in Seq(Caller)
      BY <2>1, QueueLosesHead DEF InQueue, TypeOK
    <2>3. CASE EnterServed(c)
      BY <2>3, <1>p, <2>2 DEF EnterServed, Goto, TypeOK, vodVars, Awaiting, Calling
    <2>4. CASE Wake(c)
      BY <2>4, <1>p, <2>2 DEF Wake, Goto, TypeOK, vodVars, Awaiting, Calling
    <2> QED BY <1>3, <2>3, <2>4
  <1>4. CASE EnterRefresh(c)
    BY <1>4, <1>p DEF EnterRefresh, Goto, TypeOK, managerVars, vodVars, Awaiting, Calling
  <1>5. CASE Cache(c)
    BY <1>5, <1>p DEF Cache, Goto, TypeOK, vodVars, Awaiting, Calling
  <1>6. CASE Use(c)
    BY <1>6, <1>p DEF Use, Goto, TypeOK, NoToken, managerVars, vodVars, Awaiting, Calling
  <1> QED BY <1>1, <1>2, <1>3, <1>4, <1>5, <1>6

LEMMA TypeNext == TypeOK /\ LockInv /\ [Next]_vars => TypeOK'
  <1> SUFFICES ASSUME TypeOK, LockInv, [Next]_vars PROVE TypeOK'
    OBVIOUS
  <1> USE ConstantsTyped
  <1>p. Background \in Proc /\ Caller \subseteq Proc
    BY DEF Proc
  <1>1. CASE \E c \in Caller : Serve(c) \/ AwaitLock(c) \/ CallerStep(c)
    BY <1>1, <1>p, RefreshTyped, CallerTyped DEF CallerStep
  <1>2. CASE BackgroundStep
    <2>1. CASE Hold
      BY <2>1, <1>p DEF Hold, Goto, TypeOK, managerVars, vodVars, Awaiting, Calling
    <2>2. CASE Replace
      <3>1. cache' \in [token : 0 .. MaxToken, until : Nat, active : Nat]
        BY <2>2, <1>p DEF Replace, TypeOK
      <3>2. got' \in [Proc -> 0 .. MaxToken]
        BY <2>2, <1>p DEF Replace, TypeOK, NoToken
      <3>4. refreshing' \in BOOLEAN
        BY <2>2 DEF Replace
      <3>3. pc' \in [Proc -> {"idle", "lock", "has"} \cup Awaiting]
        BY <2>2, <1>p DEF Replace, TypeOK
      <3> QED BY <2>2, <3>1, <3>2, <3>3, <3>4 DEF Replace, TypeOK, vodVars
    <2> QED BY <1>2, <1>p, <2>1, <2>2, RefreshTyped DEF BackgroundStep
  <1>3. CASE \E p \in Proc : Fail(p)
    <2>1. faults' \in 0 .. MaxFault
      BY <1>3 DEF Fail, TypeOK
    <2> QED BY <1>3, <2>1, StopTyped DEF Fail
  <1>4. CASE Restart
    <2>1. cache' \in [token : 0 .. MaxToken, until : Nat, active : Nat]
      BY <1>4 DEF Restart, Empty, NoToken
    <2>2. /\ pc' \in [Proc -> {"idle", "lock", "has"} \cup Awaiting]
          /\ got' \in [Proc -> 0 .. MaxToken]
          /\ victims' \in [Proc -> SUBSET (1 .. MaxToken)]
      BY <1>4 DEF Restart, NoToken
    <2>3. refreshing' \in BOOLEAN
      BY <1>4 DEF Restart
    <2>4. queue' \in Seq(Caller) /\ faults' \in 0 .. MaxFault
      BY <1>4 DEF Restart, TypeOK
    <2> QED BY <1>4, <2>1, <2>2, <2>3, <2>4 DEF Restart, TypeOK, vodVars
  <1>5. CASE Tick
    BY <1>5 DEF Tick, TypeOK, managerVars, procVars, vodVars
  <1>6. CASE UNCHANGED vars
    BY <1>6 DEF vars, TypeOK, managerVars, procVars, vodVars
  <1> QED BY <1>1, <1>2, <1>3, <1>4, <1>5, <1>6 DEF Next

-----------------------------------------------------------------------------
(* The lock *)

LEMMA LockInit == Init => LockInv
  <1> SUFFICES ASSUME Init PROVE LockInv
    OBVIOUS
  <1>1. \A p \in Proc : pc[p] = "idle"
    BY DEF Init
  <1>2. refreshing = FALSE
    BY DEF Init
  <1> QED BY <1>1, <1>2 DEF LockInv, Proc, Before, After

\* A step of one coroutine that leaves the queue alone.
LEMMA LockKept ==
  ASSUME TypeOK, LockInv, NEW p \in Proc, NEW s, pc' = [pc EXCEPT ![p] = s],
         UNCHANGED <<refreshing, queue>>,
         \/ pc[p] \in Before \cup After /\ s \in Before \cup After
         \/ p # Background /\ s \in {"has", "idle"}
         \/ pc[p] = "lock" /\ s = "create" /\ Head(queue) = p
  PROVE  LockInv'
  <1>1. \A q \in Proc : pc'[q] = IF q = p THEN s ELSE pc[q]
    BY DEF TypeOK
  <1>2. \A d : InQueue(d)' <=> InQueue(d)
    BY DEF InQueue
  <1>3. Background \in Proc /\ Caller \subseteq Proc /\ Background \notin Caller
    BY ConstantsTyped DEF Proc
  <1>4. s # "lock"
    BY DEF Before, After
  <1>5. pc[Background] # "lock"
    BY DEF LockInv, Before, After
  <1>6. \A d \in Caller : pc'[d] \in {"lock"} \cup Before \cup After
          => pc[d] \in {"lock"} \cup Before \cup After
    BY <1>1, <1>3, <1>4 DEF Before, After
  <1>7. \A d \in Caller : pc'[d] \in Before \cup After => Head(queue) = d
    BY <1>1, <1>3 DEF LockInv, Before, After
  <1>8. pc'[Background] \in {"idle"} \cup Before \cup After
    BY <1>1, <1>3, <1>5 DEF LockInv, Before, After
  <1>9. pc'[Background] # "idle" <=> pc[Background] # "idle"
    BY <1>1, <1>3, <1>5 DEF LockInv, Before, After
  <1> QED BY <1>2, <1>6, <1>7, <1>8, <1>9 DEF LockInv

LEMMA StopLocked ==
  ASSUME TypeOK, LockInv, NEW p \in Proc, Stop(p)
  PROVE  LockInv'
  <1>1. \A q \in Proc : pc'[q] = IF q = p THEN "idle" ELSE pc[q]
    BY DEF TypeOK, Stop
  <1>2. Background \in Proc /\ Caller \subseteq Proc /\ Background \notin Caller
    BY ConstantsTyped DEF Proc
  <1>3. \A d \in Caller \ {p} :
          InQueue(d) => InQueue(d)' /\ (Head(queue) = d => Head(queue') = d)
    BY QueueLosesFirst DEF TypeOK, Stop, InQueue
  <1>4. \A d \in Caller : pc'[d] \in {"lock"} \cup Before \cup After
          => d # p /\ pc'[d] = pc[d]
    BY <1>1, <1>2 DEF Before, After
  <1>5. \A d \in Caller : pc'[d] \in {"lock"} \cup Before \cup After => InQueue(d)'
    BY <1>3, <1>4 DEF LockInv
  <1>6. \A d \in Caller : pc'[d] \in Before \cup After => Head(queue') = d
    BY <1>3, <1>4 DEF LockInv
  <1>7. pc'[Background] \in {"idle"} \cup Before \cup After
    BY <1>1, <1>2 DEF LockInv
  <1>8. refreshing' <=> pc'[Background] # "idle"
    BY <1>1, <1>2 DEF LockInv, Stop
  <1> QED BY <1>5, <1>6, <1>7, <1>8 DEF LockInv

LEMMA RefreshLocked ==
  ASSUME TypeOK, LockInv, NEW p \in Proc, Refresh(p)
  PROVE  LockInv'
  <1>1. CASE Create(p)
    BY <1>1, LockKept DEF Create, managerVars, Before, After
  <1>2. CASE PoolFull(p)
    BY <1>2, LockKept DEF PoolFull, Goto, managerVars, Before, After
  <1>3. CASE List(p)
    BY <1>3, LockKept DEF List, Goto, managerVars, Before, After
  <1>4. CASE Delete(p)
    BY <1>4 DEF Delete, managerVars, LockInv, InQueue
  <1>5. CASE Retry(p)
    BY <1>5, LockKept DEF Retry, Goto, managerVars, Before, After
  <1>6. CASE Refused(p)
    BY <1>6, StopLocked DEF Refused
  <1> QED BY <1>1, <1>2, <1>3, <1>4, <1>5, <1>6 DEF Refresh

\* The head of the queue leaves it.
LEMMA LockPassed ==
  ASSUME TypeOK, LockInv, NEW c \in Caller, InQueue(c), Head(queue) = c,
         pc' = [pc EXCEPT ![c] = "has"], queue' = Tail(queue), UNCHANGED refreshing
  PROVE  LockInv'
  <1>1. \A q \in Proc : pc'[q] = IF q = c THEN "has" ELSE pc[q]
    BY DEF TypeOK, Proc
  <1>2. Background \in Proc /\ Caller \subseteq Proc /\ Background \notin Caller
    BY ConstantsTyped DEF Proc
  <1>3. \A d \in Caller : InQueue(d) /\ d # c => InQueue(d)'
    BY QueueLosesHead DEF InQueue, TypeOK
  <1>4. \A d \in Caller : pc'[d] \in {"lock"} \cup Before \cup After
          => d # c /\ pc'[d] = pc[d]
    BY <1>1, <1>2 DEF Before, After
  <1>5. \A d \in Caller : pc'[d] \in {"lock"} \cup Before \cup After => InQueue(d)'
    BY <1>3, <1>4 DEF LockInv
  <1>6. \A d \in Caller : ~ (pc'[d] \in Before \cup After)
    BY <1>4 DEF LockInv
  <1>7. pc'[Background] = pc[Background]
    BY <1>1, <1>2
  <1> QED BY <1>5, <1>6, <1>7 DEF LockInv

LEMMA CallerLocked ==
  ASSUME TypeOK, LockInv, NEW c \in Caller,
         Serve(c) \/ AwaitLock(c) \/ EnterServed(c) \/ EnterRefresh(c)
         \/ Cache(c) \/ Wake(c) \/ Use(c)
  PROVE  LockInv'
  <1>p. c \in Proc /\ Background \in Proc /\ Caller \subseteq Proc /\ Background \notin Caller
    BY ConstantsTyped DEF Proc
  <1>q. c # Background
    BY <1>p
  <1>1. CASE Serve(c)
    <2>1. CASE pc' = [pc EXCEPT ![c] = "has"] /\ UNCHANGED refreshing
      BY <1>1, <1>p, <1>q, <2>1, LockKept DEF Serve
    <2>2. CASE /\ ~ refreshing /\ refreshing' = TRUE
               /\ pc' = [pc EXCEPT ![c] = "has", ![Background] = "create"]
      <3>1. \A d \in Caller : pc'[d] = IF d = c THEN "has" ELSE pc[d]
        BY <2>2, <1>p, <1>q DEF TypeOK
      <3>2. pc'[Background] = "create"
        BY <2>2, <1>p, <1>q DEF TypeOK
      <3>3. queue' = queue /\ \A d : InQueue(d)' <=> InQueue(d)
        BY <1>1 DEF Serve, InQueue
      <3>4. \A d \in Caller : pc'[d] \in {"lock"} \cup Before \cup After => pc'[d] = pc[d]
        BY <3>1 DEF Before, After
      <3> QED BY <2>2, <3>2, <3>3, <3>4 DEF LockInv, Before
    <2> QED BY <1>1, <2>1, <2>2 DEF Serve
  <1>2. CASE AwaitLock(c)
    <2>1. /\ \A q \in Proc : pc'[q] = IF q = c THEN "lock" ELSE pc[q]
          /\ UNCHANGED refreshing /\ queue' = Append(queue, c)
      BY <1>2, <1>p DEF AwaitLock, Goto, TypeOK
    <2>2. /\ Len(queue) \in Nat /\ Len(queue') = Len(queue) + 1
          /\ queue'[Len(queue) + 1] = c
          /\ \A i \in 1 .. Len(queue) : queue'[i] = queue[i]
      BY <2>1 DEF TypeOK
    <2>3. InQueue(c)'
      BY <2>2 DEF InQueue
    <2>4. ASSUME NEW d \in Caller, InQueue(d)
          PROVE  InQueue(d)' /\ Head(queue') = Head(queue)
      <3>1. PICK i \in 1 .. Len(queue) : queue[i] = d
        BY <2>4 DEF InQueue
      <3>2. i \in 1 .. Len(queue') /\ queue'[i] = d
        BY <3>1, <2>2
      <3>3. queue'[1] = queue[1]
        BY <3>1, <2>2
      <3>4. Head(queue) = queue[1] /\ Head(queue') = queue'[1]
        BY <3>1, <2>1 DEF TypeOK
      <3> QED BY <3>2, <3>3, <3>4 DEF InQueue
    <2>5. \A d \in Caller : pc'[d] \in {"lock"} \cup Before \cup After => InQueue(d)'
      BY <2>1, <2>3, <2>4, <1>p DEF LockInv
    <2>6. \A d \in Caller : pc'[d] \in Before \cup After => d # c /\ pc'[d] = pc[d]
      BY <2>1, <1>p DEF Before, After
    <2>7. \A d \in Caller : pc'[d] \in Before \cup After => Head(queue') = d
      BY <2>6, <2>4 DEF LockInv
    <2>8. pc'[Background] = pc[Background]
      BY <2>1, <1>p, <1>q
    <2> QED BY <2>1, <2>5, <2>7, <2>8 DEF LockInv
  <1>3. CASE EnterServed(c)
    <2>1. InQueue(c)
      BY <1>3 DEF LockInv, EnterServed, Goto
    <2> QED BY <1>3, <2>1, LockPassed DEF EnterServed, Goto
  <1>4. CASE EnterRefresh(c)
    BY <1>4, <1>p, LockKept DEF EnterRefresh, Goto, managerVars
  <1>5. CASE Cache(c)
    BY <1>5, <1>p, LockKept DEF Cache, Goto, After
  <1>6. CASE Wake(c)
    <2>1. InQueue(c) /\ Head(queue) = c
      BY <1>6 DEF LockInv, Wake, Goto, After
    <2> QED BY <1>6, <2>1, LockPassed DEF Wake, Goto
  <1>7. CASE Use(c)
    BY <1>7, <1>p, <1>q, LockKept DEF Use, Goto, managerVars
  <1> QED BY <1>1, <1>2, <1>3, <1>4, <1>5, <1>6, <1>7

LEMMA LockNext == TypeOK /\ LockInv /\ [Next]_vars => LockInv'
  <1> SUFFICES ASSUME TypeOK, LockInv, [Next]_vars PROVE LockInv'
    OBVIOUS
  <1>p. Background \in Proc /\ Caller \subseteq Proc
    BY DEF Proc
  <1>1. CASE \E c \in Caller : Serve(c) \/ AwaitLock(c) \/ CallerStep(c)
    BY <1>1, <1>p, RefreshLocked, CallerLocked DEF CallerStep
  <1>2. CASE BackgroundStep
    <2>1. CASE Hold
      BY <2>1, <1>p, LockKept DEF Hold, Goto, managerVars, After
    <2>2. CASE Replace
      <3>1. \A q \in Proc : pc'[q] = IF q = Background THEN "idle" ELSE pc[q]
        BY <2>2 DEF Replace, TypeOK
      <3>2. queue' = queue /\ refreshing' = FALSE /\ \A d : InQueue(d)' <=> InQueue(d)
        BY <2>2 DEF Replace, InQueue
      <3>3. \A d \in Caller : pc'[d] = pc[d]
        BY <3>1, <1>p, ConstantsTyped
      <3>4. pc'[Background] = "idle"
        BY <3>1, <1>p
      <3> QED BY <3>2, <3>3, <3>4 DEF LockInv
    <2> QED BY <1>2, <1>p, <2>1, <2>2, RefreshLocked DEF BackgroundStep
  <1>3. CASE \E p \in Proc : Fail(p)
    BY <1>3, StopLocked DEF Fail
  <1>4. CASE Restart
    <2>1. \A p \in Proc : pc'[p] = "idle"
      BY <1>4 DEF Restart
    <2>2. refreshing' = FALSE
      BY <1>4 DEF Restart
    <2> QED BY <2>1, <2>2, <1>p DEF LockInv, Before, After
  <1>5. CASE UNCHANGED <<pc, queue, refreshing>>
    BY <1>5 DEF LockInv, InQueue
  <1> QED BY <1>1, <1>2, <1>3, <1>4, <1>5 DEF Next, Tick, vars, managerVars, procVars

-----------------------------------------------------------------------------
(* Times *)

LEMMA TimesInit == Init => TimesInv
  <1> SUFFICES ASSUME Init PROVE TimesInv
    OBVIOUS
  <1>1. \A p \in Proc : pc[p] = "idle"
    BY DEF Init
  <1>2. Background \in Proc
    BY DEF Proc
  <1>3. WaitsInTime /\ HeldInTime
    BY <1>1, <1>2 DEF WaitsInTime, InTime, HeldInTime, Awaiting, Calling, After
  <1>4. CachedInTime
    BY DEF Init, CachedInTime, Empty
  <1>5. BornInOrder
    BY DEF Init, BornInOrder
  <1> QED BY <1>3, <1>4, <1>5 DEF TimesInv

\* The tokens VOD has issued keep their birthdays.
TokensKept ==
  /\ issued' \in issued .. MaxToken
  /\ \A t \in 1 .. issued : born'[t] = born[t]

LEMMA InTimeKept ==
  ASSUME TypeOK, NEW q \in Proc, InTime(q), TokensKept, now' = now,
         pc'[q] = pc[q], got'[q] = got[q], deadline'[q] = deadline[q]
  PROVE  InTime(q)'
  <1>1. pc[q] \in After => got[q] \in 1 .. issued /\ got[q] \in 1 .. issued'
                           /\ born'[got[q]] = born[got[q]]
    BY DEF InTime, TokensKept, TypeOK
  <1> QED BY <1>1 DEF InTime, After

LEMMA CachedKept ==
  ASSUME TypeOK, CachedInTime, TokensKept, cache' = cache
  PROVE  CachedInTime'
  <1>1. cache.token # NoToken => cache.token \in 1 .. issued'
                                 /\ born'[cache.token] = born[cache.token]
    BY DEF CachedInTime, TokensKept, TypeOK
  <1> QED BY <1>1 DEF CachedInTime

\* A step of one coroutine that issues and caches nothing.
LEMMA TimesKept ==
  ASSUME TypeOK, TimesInv, NEW p \in Proc, NEW s,
         pc' = [pc EXCEPT ![p] = s], UNCHANGED <<now, issued, born, cache>>,
         \A q \in Proc \ {p} : got'[q] = got[q] /\ deadline'[q] = deadline[q],
         until' = until,
         \/ s \in {"idle", "lock", "has"}
         \/ s \in Before /\ deadline'[p] = now + NetMax
  PROVE  TimesInv'
  <1>1. \A q \in Proc : pc'[q] = IF q = p THEN s ELSE pc[q]
    BY DEF TypeOK
  <1>2. TokensKept
    BY DEF TokensKept, TypeOK
  <1>3. CachedInTime' /\ BornInOrder'
    BY <1>2, CachedKept DEF TimesInv, BornInOrder
  <1>4. InTime(p)'
    BY <1>1, ConstantsTyped DEF InTime, Awaiting, Calling, Before, After, TypeOK
  <1>5. WaitsInTime'
    BY <1>1, <1>2, <1>4, InTimeKept DEF TimesInv, WaitsInTime
  <1>6. HeldInTime'
    <2>1. Background \in Proc /\ s # "sleep"
      BY DEF Proc, Before
    <2> QED BY <2>1, <1>1 DEF TimesInv, HeldInTime
  <1> QED BY <1>3, <1>5, <1>6 DEF TimesInv

LEMMA CreateBears ==
  ASSUME TypeOK, NEW p \in Proc, Create(p)
  PROVE  /\ TokensKept /\ issued' = issued + 1 /\ issued' \in 1 .. MaxToken
         /\ born'[issued'] = now
         /\ \A q \in Proc : pc'[q] = IF q = p THEN "reply" ELSE pc[q]
         /\ \A q \in Proc : got'[q] = IF q = p THEN issued' ELSE got[q]
         /\ UNCHANGED <<deadline, cache, now, until, faults>>
  <1>1. issued' = issued + 1 /\ issued' \in 1 .. MaxToken
    BY ConstantsTyped DEF TypeOK, Create
  <1>2. TokensKept /\ born'[issued'] = now
    BY <1>1, ConstantsTyped DEF TokensKept, TypeOK, Create
  <1> QED BY <1>1, <1>2 DEF TypeOK, Create, managerVars

LEMMA RefreshInTime ==
  ASSUME TypeOK, TimesInv, NEW p \in Proc, Refresh(p)
  PROVE  TimesInv'
  <1>d. /\ now \in Nat /\ \A q \in Proc : deadline[q] \in Nat
        /\ deadline' = deadline \/ deadline' = [deadline EXCEPT ![p] = now + NetMax]
           => \A q \in Proc \ {p} : deadline'[q] = deadline[q]
        /\ deadline' = [deadline EXCEPT ![p] = now + NetMax] => deadline'[p] = now + NetMax
    BY DEF TypeOK
  <1>1. CASE Create(p)
    <2>1. /\ TokensKept /\ issued' = issued + 1 /\ issued' \in 1 .. MaxToken
          /\ born'[issued'] = now
          /\ \A q \in Proc : pc'[q] = IF q = p THEN "reply" ELSE pc[q]
          /\ \A q \in Proc : got'[q] = IF q = p THEN issued' ELSE got[q]
          /\ UNCHANGED <<deadline, cache, now, until, faults>>
      BY <1>1, CreateBears
    <2>2. InTime(p)'
      <3>1. now <= deadline[p] /\ deadline[p] <= now + NetMax
        BY <1>1 DEF Create, TimesInv, WaitsInTime, InTime, Awaiting, Calling
      <3> QED BY <2>1, <3>1 DEF InTime, Awaiting, Calling, After
    <2>3. WaitsInTime'
      BY <2>1, <2>2, InTimeKept DEF TimesInv, WaitsInTime
    <2>4. HeldInTime'
      BY <2>1 DEF TimesInv, HeldInTime, Proc
    <2>5. BornInOrder'
      <3>1. issued \in Nat /\ now \in Nat
        BY DEF TypeOK
      <3>2. \A t \in 1 .. issued : t \in 1 .. MaxToken /\ born[t] \in Nat
        BY ConstantsTyped DEF TypeOK
      <3>3. ASSUME NEW t \in 1 .. issued'
            PROVE  born'[t] <= now' /\ \A u \in 1 .. t : born'[u] <= born'[t]
        <4>1. CASE t = issued'
          <5>1. ASSUME NEW u \in 1 .. t PROVE born'[u] <= now
            <6>1. CASE u = issued'
              BY <6>1, <2>1, <3>1
            <6>2. CASE u # issued'
              <7>1. u \in 1 .. issued
                BY <6>2, <5>1, <4>1, <2>1, <3>1
              <7> QED BY <7>1, <2>1 DEF TokensKept, TimesInv, BornInOrder
            <6> QED BY <6>1, <6>2
          <5> QED BY <5>1, <4>1, <2>1, <3>1
        <4>2. CASE t # issued'
          <5>1. t \in 1 .. issued
            BY <4>2, <2>1, <3>1
          <5>2. \A u \in 1 .. t : u \in 1 .. issued
            BY <5>1, <3>1
          <5>3. born[t] <= now /\ \A u \in 1 .. t : born[u] <= born[t]
            BY <5>1 DEF TimesInv, BornInOrder
          <5> QED BY <5>1, <5>2, <5>3, <2>1 DEF TokensKept
        <4> QED BY <4>1, <4>2
      <3> QED BY <3>3 DEF BornInOrder
    <2> QED BY <2>1, <2>3, <2>4, <2>5, CachedKept DEF TimesInv
  <1>2. CASE PoolFull(p)
    BY <1>2, <1>d, TimesKept DEF PoolFull, Goto, managerVars, vodVars, Before
  <1>3. CASE List(p)
    BY <1>3, <1>d, TimesKept DEF List, Goto, managerVars, vodVars, Before
  <1>4. CASE Delete(p)
    <2>1. pc' = [pc EXCEPT ![p] = "delete"]
      BY <1>4 DEF Delete, TypeOK
    <2> QED BY <1>4, <1>d, <2>1, TimesKept DEF Delete, managerVars, Before
  <1>5. CASE Retry(p)
    BY <1>5, <1>d, TimesKept DEF Retry, Goto, managerVars, vodVars, Before
  <1>6. CASE Refused(p)
    <2>1. \A q \in Proc \ {p} : got'[q] = got[q]
      BY <1>6 DEF Refused, Stop, TypeOK
    <2> QED BY <1>6, <1>d, <2>1, TimesKept DEF Refused, Stop, vodVars
  <1> QED BY <1>1, <1>2, <1>3, <1>4, <1>5, <1>6 DEF Refresh

\* What is known of a coroutine that has its token's number.
LEMMA ReplyInTime ==
  ASSUME TypeOK, TimesInv, NEW p \in Proc, pc[p] = "reply"
  PROVE  /\ got[p] \in 1 .. issued /\ born[got[p]] \in Nat
         /\ born[got[p]] <= now /\ now <= born[got[p]] + NetMax
  <1>1. /\ got[p] \in 1 .. issued /\ now <= deadline[p]
        /\ deadline[p] <= born[got[p]] + NetMax
    BY DEF TimesInv, WaitsInTime, InTime, After, Awaiting, Calling
  <1>2. got[p] \in 1 .. MaxToken /\ deadline[p] \in Nat /\ now \in Nat
    BY <1>1, ConstantsTyped DEF TypeOK
  <1>3. born[got[p]] \in Nat
    BY <1>2 DEF TypeOK
  <1>4. born[got[p]] <= now
    BY <1>1 DEF TimesInv, BornInOrder
  <1> QED BY <1>1, <1>2, <1>3, <1>4, ConstantsTyped

\* It falls asleep with it.
LEMMA SleepInTime ==
  ASSUME TypeOK, TimesInv, NEW p \in Proc, pc[p] = "reply",
         pc' = [pc EXCEPT ![p] = "sleep"], UNCHANGED <<now, issued, born, got>>,
         deadline' = [deadline EXCEPT ![p] = now + Activation]
  PROVE  WaitsInTime' /\ TokensKept /\ BornInOrder'
  <1>1. /\ got[p] \in 1 .. issued /\ born[got[p]] \in Nat
        /\ born[got[p]] <= now /\ now <= born[got[p]] + NetMax
    BY ReplyInTime
  <1>2. TokensKept
    BY DEF TokensKept, TypeOK
  <1>3. deadline'[p] = now + Activation /\ pc'[p] = "sleep"
    BY DEF TypeOK
  <1>4. InTime(p)'
    BY <1>1, <1>3, ConstantsTyped DEF InTime, Awaiting, After, TypeOK
  <1>5. \A q \in Proc \ {p} : pc'[q] = pc[q] /\ deadline'[q] = deadline[q]
    BY DEF TypeOK
  <1>6. WaitsInTime'
    BY <1>2, <1>4, <1>5, InTimeKept DEF TimesInv, WaitsInTime
  <1> QED BY <1>2, <1>6 DEF TimesInv, BornInOrder

LEMMA CallerInTime ==
  ASSUME TypeOK, TimesInv, LockInv, NEW c \in Caller,
         Serve(c) \/ AwaitLock(c) \/ EnterServed(c) \/ EnterRefresh(c)
         \/ Cache(c) \/ Wake(c) \/ Use(c)
  PROVE  TimesInv'
  <1>p. c \in Proc /\ Background \in Proc /\ Caller \subseteq Proc /\ c # Background
    BY ConstantsTyped DEF Proc
  <1>1. CASE Serve(c)
    <2>1. \A q \in Proc \ {c} : got'[q] = got[q]
      BY <1>1 DEF Serve, TypeOK
    <2>2. CASE pc' = [pc EXCEPT ![c] = "has"] /\ UNCHANGED deadline
      BY <1>1, <1>p, <2>1, <2>2, TimesKept DEF Serve, vodVars
    <2>3. CASE /\ pc' = [pc EXCEPT ![c] = "has", ![Background] = "create"]
               /\ deadline' = [deadline EXCEPT ![Background] = now + NetMax]
      <3>1. /\ \A q \in Proc : pc'[q] = IF q = Background THEN "create"
                                        ELSE IF q = c THEN "has" ELSE pc[q]
            /\ \A q \in Proc : deadline'[q] = IF q = Background THEN now + NetMax
                                              ELSE deadline[q]
            /\ UNCHANGED <<now, issued, born, cache, until>>
        BY <1>1, <1>p, <2>3 DEF Serve, TypeOK, vodVars
      <3>2. TokensKept
        BY <3>1 DEF TokensKept, TypeOK
      <3>3. InTime(c)'
        BY <3>1, <1>p DEF InTime, Awaiting, Calling, After
      <3>4. InTime(Background)'
        BY <3>1, <1>p, ConstantsTyped DEF InTime, Awaiting, Calling, After, TypeOK
      <3>5. WaitsInTime'
        BY <3>1, <3>2, <3>3, <3>4, <2>1, InTimeKept DEF TimesInv, WaitsInTime
      <3>6. CachedInTime' /\ BornInOrder'
        BY <3>1, <3>2, CachedKept DEF TimesInv, BornInOrder
      <3>7. HeldInTime'
        BY <3>1, <1>p DEF HeldInTime
      <3> QED BY <3>5, <3>6, <3>7 DEF TimesInv
    <2> QED BY <1>1, <2>2, <2>3 DEF Serve
  <1>2. CASE AwaitLock(c)
    BY <1>2, <1>p, TimesKept DEF AwaitLock, Goto, vodVars
  <1>3. CASE EnterServed(c)
    <2>1. \A q \in Proc \ {c} : got'[q] = got[q]
      BY <1>3 DEF EnterServed, TypeOK
    <2> QED BY <1>3, <1>p, <2>1, TimesKept DEF EnterServed, Goto, vodVars
  <1>4. CASE EnterRefresh(c)
    <2>1. /\ \A q \in Proc \ {c} : deadline'[q] = deadline[q]
          /\ deadline'[c] = now + NetMax
      BY <1>4, <1>p DEF EnterRefresh, TypeOK
    <2> QED BY <1>4, <1>p, <2>1, TimesKept DEF EnterRefresh, Goto, managerVars, vodVars, Before
  <1>5. CASE Cache(c)
    <2>1. /\ got[c] \in 1 .. issued /\ born[got[c]] \in Nat
          /\ born[got[c]] <= now /\ now <= born[got[c]] + NetMax
      BY <1>5, <1>p, ReplyInTime DEF Cache, Goto
    <2>2. WaitsInTime' /\ BornInOrder'
      BY <1>5, <1>p, SleepInTime DEF Cache, Goto, vodVars
    <2>3. CachedInTime'
      <3>1. /\ cache' = [token |-> got[c], until |-> now + Ttl, active |-> now + Activation]
            /\ UNCHANGED <<issued, born>> /\ now \in Nat
        BY <1>5 DEF Cache, vodVars, TypeOK
      <3>2. /\ born[got[c]] + Activation <= now + Activation
            /\ now + Ttl <= born[got[c]] + Ttl + NetMax
        BY <2>1, <3>1, ConstantsTyped
      <3> QED BY <2>1, <3>1, <3>2 DEF CachedInTime
    <2>4. HeldInTime'
      <3>1. pc'[Background] = pc[Background] /\ deadline'[Background] = deadline[Background]
        BY <1>5, <1>p DEF Cache, Goto, TypeOK
      <3> QED BY <1>5, <3>1 DEF Cache, TimesInv, HeldInTime
    <2> QED BY <2>2, <2>3, <2>4 DEF TimesInv
  <1>6. CASE Wake(c)
    BY <1>6, <1>p, TimesKept DEF Wake, Goto, vodVars
  <1>7. CASE Use(c)
    <2>1. \A q \in Proc \ {c} : got'[q] = got[q]
      BY <1>7 DEF Use, TypeOK
    <2> QED BY <1>7, <1>p, <2>1, TimesKept DEF Use, Goto, managerVars, vodVars
  <1> QED BY <1>1, <1>2, <1>3, <1>4, <1>5, <1>6, <1>7

LEMMA BackgroundInTime ==
  ASSUME TypeOK, TimesInv, Hold \/ Replace
  PROVE  TimesInv'
  <1>p. Background \in Proc
    BY DEF Proc
  <1>1. CASE Hold
    <2>1. WaitsInTime' /\ TokensKept /\ BornInOrder'
      BY <1>1, <1>p, SleepInTime DEF Hold, Goto, vodVars
    <2>2. CachedInTime'
      BY <1>1, <2>1, CachedKept DEF Hold, managerVars, TimesInv
    <2>3. until' = now + Ttl /\ deadline'[Background] = now + Activation
      BY <1>1, <1>p DEF Hold, TypeOK
    <2>4. HeldInTime'
      BY <2>3, ConstantsTyped DEF HeldInTime, TypeOK
    <2> QED BY <2>1, <2>2, <2>4 DEF TimesInv
  <1>2. CASE Replace
    <2>1. /\ \A q \in Proc : pc'[q] = IF q = Background THEN "idle" ELSE pc[q]
          /\ \A q \in Proc \ {Background} : got'[q] = got[q]
          /\ UNCHANGED <<now, issued, born, deadline>>
      BY <1>2 DEF Replace, TypeOK, vodVars
    <2>2. TokensKept
      BY <2>1 DEF TokensKept, TypeOK
    <2>3. InTime(Background)'
      BY <2>1, <1>p DEF InTime, Awaiting, Calling, After
    <2>4. WaitsInTime'
      BY <2>1, <2>2, <2>3, InTimeKept DEF TimesInv, WaitsInTime
    <2>5. HeldInTime'
      BY <2>1, <1>p DEF HeldInTime
    <2>6. BornInOrder'
      BY <2>1 DEF TimesInv, BornInOrder
    <2>7. CachedInTime'
      <3> DEFINE b == got[Background]
      <3>1. /\ b \in 1 .. issued /\ deadline[Background] <= now
            /\ born[b] + Activation <= deadline[Background]
            /\ deadline[Background] <= born[b] + NetMax + Activation
            /\ until = deadline[Background] + Ttl - Activation
        BY <1>2, <1>p DEF Replace, TimesInv, WaitsInTime, InTime, HeldInTime, After, TypeOK
      <3>2. b \in 1 .. MaxToken /\ deadline[Background] \in Nat /\ now \in Nat
        BY <3>1, <1>p, ConstantsTyped DEF TypeOK
      <3>3. born[b] \in Nat
        BY <3>2 DEF TypeOK
      <3>4. cache' = [token |-> b, until |-> until, active |-> now]
        BY <1>2 DEF Replace
      <3> HIDE DEF b
      <3>5. born[b] + Activation <= now /\ until <= born[b] + Ttl + NetMax
        BY <3>1, <3>2, <3>3, ConstantsTyped
      <3> QED BY <3>1, <3>4, <3>5, <2>1 DEF CachedInTime
    <2> QED BY <2>4, <2>5, <2>6, <2>7 DEF TimesInv
  <1> QED BY <1>1, <1>2

LEMMA StopInTime ==
  ASSUME TypeOK, TimesInv, NEW p \in Proc, Stop(p)
  PROVE  TimesInv'
  <1>1. \A q \in Proc \ {p} : got'[q] = got[q]
    BY DEF Stop, TypeOK
  <1> QED BY <1>1, TimesKept DEF Stop, vodVars

LEMMA TimesNext == TypeOK /\ LockInv /\ TimesInv /\ [Next]_vars => TimesInv'
  <1> SUFFICES ASSUME TypeOK, LockInv, TimesInv, [Next]_vars PROVE TimesInv'
    OBVIOUS
  <1>p. Background \in Proc /\ Caller \subseteq Proc
    BY DEF Proc
  <1>1. CASE \E c \in Caller : Serve(c) \/ AwaitLock(c) \/ CallerStep(c)
    BY <1>1, <1>p, RefreshInTime, CallerInTime DEF CallerStep
  <1>2. CASE BackgroundStep
    BY <1>2, <1>p, RefreshInTime, BackgroundInTime DEF BackgroundStep
  <1>3. CASE \E p \in Proc : Fail(p)
    BY <1>3, StopInTime DEF Fail
  <1>4. CASE Restart
    <2>1. \A p \in Proc : pc'[p] = "idle"
      BY <1>4 DEF Restart
    <2>2. WaitsInTime' /\ HeldInTime'
      BY <2>1, <1>p DEF WaitsInTime, InTime, HeldInTime, Awaiting, Calling, After
    <2>3. CachedInTime' /\ BornInOrder'
      BY <1>4 DEF Restart, CachedInTime, Empty, vodVars, TimesInv, BornInOrder
    <2> QED BY <2>2, <2>3 DEF TimesInv
  <1>5. CASE Tick
    <2>1. now' = now + 1 /\ now \in Nat /\ UNCHANGED <<pc, got, until, deadline, cache, issued, born>>
      BY <1>5 DEF Tick, TypeOK, managerVars, procVars, vodVars
    <2>2. ASSUME NEW p \in Proc PROVE InTime(p)'
      <3>1. InTime(p) /\ deadline[p] \in Nat
        BY DEF TimesInv, WaitsInTime, TypeOK
      <3>2. pc[p] \in Awaiting => now < deadline[p]
        BY <1>5 DEF Tick
      <3> QED BY <2>1, <3>1, <3>2, ConstantsTyped DEF InTime
    <2>3. CachedInTime' /\ HeldInTime'
      BY <2>1 DEF TimesInv, CachedInTime, HeldInTime
    <2>4. BornInOrder'
      <3>1. \A t \in 1 .. issued : t \in 1 .. MaxToken /\ born[t] \in Nat
        BY ConstantsTyped DEF TypeOK
      <3>2. \A t \in 1 .. issued : born[t] <= now + 1
        BY <3>1, <2>1 DEF TimesInv, BornInOrder
      <3> QED BY <2>1, <3>2 DEF TimesInv, BornInOrder
    <2> QED BY <2>2, <2>3, <2>4 DEF TimesInv, WaitsInTime
  <1>6. CASE UNCHANGED vars
    BY <1>6 DEF vars, managerVars, procVars, vodVars, TimesInv, WaitsInTime, InTime,
                HeldInTime, CachedInTime, BornInOrder
  <1> QED BY <1>1, <1>2, <1>3, <1>4, <1>5, <1>6 DEF Next

-----------------------------------------------------------------------------
(* What get_token returns *)

LEMMA SleeperAlive ==
  ASSUME TypeOK, TimesInv, NEW c \in Proc, pc[c] = "sleep", now >= deadline[c]
  PROVE  Alive(got[c])
  <1>1. /\ got[c] \in 1 .. issued /\ now <= deadline[c]
        /\ born[got[c]] + Activation <= deadline[c]
        /\ deadline[c] <= born[got[c]] + NetMax + Activation
    BY DEF TimesInv, WaitsInTime, InTime, After, Awaiting
  <1>2. got[c] \in 1 .. MaxToken /\ now \in Nat /\ deadline[c] \in Nat
    BY <1>1, ConstantsTyped DEF TypeOK
  <1>3. born[got[c]] \in Nat
    BY <1>2 DEF TypeOK
  <1>4. born[got[c]] + RealActivation <= now
    BY <1>1, <1>2, <1>3, ConstantsTyped
  <1>5. now < born[got[c]] + RealTtl
    BY <1>1, <1>2, <1>3, ConstantsTyped
  <1> QED BY <1>4, <1>5 DEF Alive

LEMMA CachedAlive ==
  ASSUME TypeOK, TimesInv, HasActive
  PROVE  Alive(cache.token)
  <1>1. /\ cache.token \in 1 .. issued
        /\ born[cache.token] + Activation <= cache.active
        /\ cache.until <= born[cache.token] + Ttl + NetMax
        /\ cache.until > now /\ now >= cache.active
    BY DEF HasActive, TimesInv, CachedInTime
  <1>2. /\ cache.token \in 1 .. MaxToken /\ now \in Nat
        /\ cache.until \in Nat /\ cache.active \in Nat
    BY <1>1, ConstantsTyped DEF TypeOK
  <1>3. born[cache.token] \in Nat
    BY <1>2 DEF TypeOK
  <1> QED BY <1>1, <1>2, <1>3, ConstantsTyped DEF Alive

\* A coroutine returns from one of three places.
LEMMA WhoReturns ==
  ASSUME TypeOK, LockInv, Next, NEW c \in Caller, Returns(c)
  PROVE  Serve(c) \/ EnterServed(c) \/ Wake(c)
  <1>p. c \in Proc /\ Background \in Proc /\ Caller \subseteq Proc /\ c # Background
    BY ConstantsTyped DEF Proc
  <1>m. \A p \in Proc : \A s : pc' = [pc EXCEPT ![p] = s] => p = c /\ s = "has"
    BY <1>p DEF Returns, TypeOK
  <1>u. pc' # pc
    BY DEF Returns
  <1>s. \A p \in Proc : ~ Stop(p)
    BY <1>m DEF Stop
  <1>r. \A p \in Proc : ~ Refresh(p)
    BY <1>m, <1>s, <1>u
       DEF Refresh, Create, PoolFull, List, Delete, Retry, Refused, Goto
  <1>1. CASE \E d \in Caller : Serve(d) \/ AwaitLock(d) \/ CallerStep(d)
    <2>1. PICK d \in Caller : Serve(d) \/ AwaitLock(d) \/ CallerStep(d)
      BY <1>1
    <2>2. d \in Proc
      BY <1>p
    <2>3. CASE Serve(d)
      <3>1. pc' = [pc EXCEPT ![d] = "has"]
            \/ pc' = [pc EXCEPT ![d] = "has", ![Background] = "create"]
        BY <2>3 DEF Serve
      <3>2. d = c
        BY <3>1, <1>p, <2>2 DEF Returns, TypeOK
      <3> QED BY <2>3, <3>2
    <2>4. CASE AwaitLock(d)
      <3>1. pc' = [pc EXCEPT ![d] = "lock"]
        BY <2>4 DEF AwaitLock, Goto
      <3>2. pc'[c] = IF c = d THEN "lock" ELSE pc[c]
        BY <3>1, <2>2, <1>p DEF TypeOK
      <3> QED BY <3>2 DEF Returns
    <2>5. CASE CallerStep(d)
      <3>1. \A s \in {"create", "sleep", "idle"} : pc' # [pc EXCEPT ![d] = s]
        BY <2>2, <1>m
      <3>2. EnterServed(d) \/ Wake(d)
        BY <2>2, <2>5, <3>1, <1>r DEF CallerStep, EnterRefresh, Cache, Use, Goto
      <3>3. pc' = [pc EXCEPT ![d] = "has"]
        BY <3>2 DEF EnterServed, Wake, Goto
      <3>4. d = c
        BY <3>3, <2>2, <1>m
      <3> QED BY <3>2, <3>4
    <2> QED BY <2>1, <2>3, <2>4, <2>5
  <1>2. CASE BackgroundStep
    BY <1>2, <1>p, <1>m, <1>r DEF BackgroundStep, Hold, Replace, Goto
  <1>3. CASE \E p \in Proc : Fail(p)
    BY <1>3, <1>s DEF Fail
  <1>4. CASE Restart
    BY <1>4, <1>p DEF Restart, Returns
  <1>5. CASE Tick
    BY <1>5, <1>u DEF Tick, procVars
  <1> QED BY <1>1, <1>2, <1>3, <1>4, <1>5 DEF Next

LEMMA ReturnIsAlive ==
  ASSUME TypeOK, LockInv, TimesInv, Next, NEW c \in Caller, Returns(c)
  PROVE  Alive(got'[c])
  <1>p. c \in Proc
    BY DEF Proc
  <1>1. CASE Serve(c) \/ EnterServed(c)
    <2>1. HasActive /\ got'[c] = cache.token
      BY <1>1, <1>p DEF Serve, EnterServed, TypeOK
    <2> QED BY <2>1, CachedAlive
  <1>2. CASE Wake(c)
    <2>1. got' = got /\ pc[c] = "sleep" /\ now >= deadline[c]
      BY <1>2 DEF Wake, Goto
    <2> QED BY <2>1, <1>p, SleeperAlive
  <1> QED BY <1>1, <1>2, WhoReturns

\* get_token returns "활성·유효한 토큰" (token_manager.py:81): for any number
\* of callers, errors, cancelled requests and restarts, a token it hands out is
\* one VOD has activated and not expired.
THEOREM ReturnsAreAlive == Spec => ReturnsAlive
  <1>1. Init => TypeOK /\ LockInv /\ TimesInv
    BY TypeInit, LockInit, TimesInit
  <1>2. TypeOK /\ LockInv /\ TimesInv /\ [Next]_vars => (TypeOK /\ LockInv /\ TimesInv)'
    BY TypeNext, LockNext, TimesNext
  <1>3. TypeOK /\ LockInv /\ TimesInv /\ [Next]_vars
          => [\A c \in Caller : Returns(c) => Alive(got'[c])]_vars
    BY ReturnIsAlive
  <1> QED BY <1>1, <1>2, <1>3, PTL DEF Spec, ReturnsAlive

-----------------------------------------------------------------------------
(* Two tokens in a lifetime *)

LEMMA NumbersTyped ==
  ASSUME TypeOK
  PROVE  /\ now \in Nat /\ issued \in Nat /\ cache.until \in Nat /\ cache.active \in Nat
         /\ \A t \in 1 .. issued : born[t] \in Nat
         /\ \A p \in Proc : deadline[p] \in Nat
  <1>1. issued \in 0 .. MaxToken /\ born \in [1 .. MaxToken -> Nat]
    BY DEF TypeOK
  <1>2. \A t \in 1 .. issued : t \in 1 .. MaxToken
    BY <1>1, ConstantsTyped
  <1> QED BY <1>1, <1>2 DEF TypeOK

\* One caller at a time holds the lock.
LEMMA OneCaller ==
  ASSUME LockInv, NEW c \in Caller, pc[c] \in Before \cup After
  PROVE  \A d \in Caller : pc[d] \in Before \cup After => d = c
  BY DEF LockInv

LEMMA PhaseOf ==
  ASSUME LockInv, NEW c \in Caller
  PROVE  /\ pc[c] \in Before => Deciding /\ ~ Uncached /\ ~ Asleep
         /\ pc[c] = "reply" => ~ Deciding /\ Uncached /\ ~ Asleep
         /\ pc[c] = "sleep" => ~ Deciding /\ ~ Uncached /\ Asleep
  <1>1. CASE pc[c] \in Before
    <2>1. \A d \in Caller : pc[d] \in Before \cup After => d = c
      BY <1>1, OneCaller
    <2> QED BY <1>1, <2>1 DEF Deciding, Uncached, Asleep, Before, After
  <1>2. CASE pc[c] \in After
    <2>1. \A d \in Caller : pc[d] \in Before \cup After => d = c
      BY <1>2, OneCaller
    <2> QED BY <1>2, <2>1 DEF Deciding, Uncached, Asleep, Before, After
  <1> QED BY <1>1, <1>2 DEF After, Before

\* Time works for those who wait.
LEMMA TimePasses ==
  ASSUME TypeOK, UNCHANGED <<issued, born, cache>>, now' \in Nat, now <= now'
  PROVE  /\ Settled' <=> Settled
         /\ \A t, d : Covers(t, d)' <=> Covers(t, d)
         /\ Stale => Stale'
         /\ OneMore => OneMore'
         /\ TwoMore => TwoMore'
         /\ \A t \in 1 .. issued : now >= born[t] + Ttl => now' >= born[t] + Ttl
  <1>1. /\ now \in Nat /\ issued \in Nat /\ cache.until \in Nat
        /\ \A t \in 1 .. issued : born[t] \in Nat
    BY NumbersTyped
  <1>2. \A t \in 1 .. issued : Past(t) => Past(t)'
    BY <1>1, ConstantsTyped DEF Past
  <1>3. OneMore => OneMore'
    <2>1. issued >= 2 => issued - 1 \in 1 .. issued
      BY <1>1
    <2> QED BY <1>2, <2>1 DEF OneMore
  <1>4. TwoMore => TwoMore'
    <2>1. issued >= 1 => issued \in 1 .. issued
      BY <1>1
    <2> QED BY <1>2, <2>1 DEF TwoMore
  <1>5. Stale => Stale'
    BY <1>1 DEF Stale
  <1>6. \A t, d : Covers(t, d)' <=> Covers(t, d)
    BY DEF Covers
  <1>7. Settled' <=> Settled
    BY DEF Settled, Covers
  <1>8. \A t \in 1 .. issued : now >= born[t] + Ttl => now' >= born[t] + Ttl
    BY <1>1, ConstantsTyped
  <1> QED BY <1>3, <1>4, <1>5, <1>6, <1>7, <1>8

\* A step that issues and caches nothing, and starts nothing.
LEMMA BoundKept ==
  ASSUME TypeOK, TimesInv, Bounded, UNCHANGED <<issued, born, cache>>,
         now' \in Nat, now <= now',
         pc'[Background] \in After <=> pc[Background] \in After,
         pc'[Background] \in Before => pc[Background] \in Before,
         pc[Background] \in After => got'[Background] = got[Background],
         Deciding' => Deciding, Uncached' <=> Uncached, SleepsUntilActive'
  PROVE  Bounded'
  <1>1. /\ Settled' <=> Settled
        /\ \A t, d : Covers(t, d)' <=> Covers(t, d)
        /\ Stale => Stale'
        /\ OneMore => OneMore'
        /\ TwoMore => TwoMore'
        /\ \A t \in 1 .. issued : now >= born[t] + Ttl => now' >= born[t] + Ttl
    BY TimePasses
  <1>2. Spaced'
    BY DEF Bounded, Spaced
  <1>c. /\ Covers(issued, 0)' <=> Covers(issued, 0)
        /\ Covers(issued - 1, 0)' <=> Covers(issued - 1, 0)
        /\ Covers(issued - 1, Activation)' <=> Covers(issued - 1, Activation)
    BY DEF Covers
  <1>3. NothingHeld'
    BY <1>1, <1>c DEF Bounded, NothingHeld
  <1>4. ASSUME pc[Background] \in After
        PROVE  OneHeld'
    <2> DEFINE b == got[Background]
    <2>1. got'[Background] = b /\ b \in 1 .. issued
      BY <1>4 DEF TimesInv, WaitsInTime, InTime, Proc
    <2>2. issued \in Nat
      BY NumbersTyped
    <2>3. /\ Uncached => issued >= 2
          /\ b < issued - 1 => now >= born[issued - 1] + Ttl
          /\ ~ Uncached /\ b = issued /\ issued >= 2 => Covers(issued - 1, Activation)
          /\ ~ Uncached /\ b < issued => Covers(issued, 0)
          /\ Deciding => OneMore /\ (b < issued => now >= born[issued] + Ttl)
      BY <1>4 DEF Bounded, OneHeld
    <2> HIDE DEF b
    <2>4. b < issued - 1 => now' >= born[issued - 1] + Ttl
      <3>1. b < issued - 1 => issued - 1 \in 1 .. issued
        BY <2>1, <2>2
      <3> QED BY <3>1, <2>3, <1>1
    <2>5. Deciding /\ b < issued => now' >= born[issued] + Ttl
      <3>1. issued \in 1 .. issued
        BY <2>1, <2>2
      <3> QED BY <3>1, <2>3, <1>1
    <2> QED BY <1>1, <1>c, <2>1, <2>3, <2>4, <2>5 DEF OneHeld
  <1>5. OneHeld'
    BY <1>4 DEF OneHeld
  <1> QED BY <1>2, <1>3, <1>5 DEF Bounded

LEMMA QuietStep ==
  ASSUME TypeOK, TimesInv, LockInv, Bounded, NEW p \in Proc, NEW s,
         pc' = [pc EXCEPT ![p] = s], UNCHANGED <<issued, born, cache, now>>,
         \A q \in Proc \ {p} : got'[q] = got[q] /\ deadline'[q] = deadline[q],
         \/ pc[p] \in Before /\ s \in Before \cup {"idle"}
         \/ p # Background /\ pc[p] \in {"idle", "lock", "has"} /\ s \in {"idle", "lock", "has"}
         \/ p = Background /\ pc[p] = "reply" /\ s = "sleep" /\ got'[p] = got[p]
  PROVE  Bounded'
  <1>1. \A q \in Proc : pc'[q] = IF q = p THEN s ELSE pc[q]
    BY DEF TypeOK
  <1>2. Background \in Proc /\ Caller \subseteq Proc /\ Background \notin Caller
    BY ConstantsTyped DEF Proc
  <1>3. /\ pc'[Background] \in After <=> pc[Background] \in After
        /\ pc'[Background] \in Before => pc[Background] \in Before
        /\ pc[Background] \in After => got'[Background] = got[Background]
    BY <1>1, <1>2 DEF Before, After
  <1>4. \A d \in Caller : pc'[d] \in Before => pc[d] \in Before
    BY <1>1, <1>2 DEF Before
  <1>5. \A d \in Caller : /\ pc'[d] = "reply" <=> pc[d] = "reply"
                          /\ pc'[d] = "sleep" <=> pc[d] = "sleep"
    BY <1>1, <1>2 DEF Before
  <1>6. (Deciding' => Deciding) /\ (Uncached' <=> Uncached) /\ (Asleep' <=> Asleep)
    BY <1>4, <1>5 DEF Deciding, Uncached, Asleep
  <1>7. \A d \in Caller : pc'[d] = "sleep" => d # p /\ pc[d] = "sleep" /\ deadline'[d] = deadline[d]
    BY <1>1, <1>2 DEF Before
  <1>8. SleepsUntilActive'
    BY <1>6, <1>7 DEF Bounded, SleepsUntilActive
  <1>9. now' \in Nat /\ now <= now'
    BY NumbersTyped
  <1> QED BY <1>3, <1>6, <1>8, <1>9, BoundKept

LEMMA RefreshQuiet ==
  ASSUME TypeOK, TimesInv, LockInv, Bounded, NEW p \in Proc,
         PoolFull(p) \/ List(p) \/ Delete(p) \/ Retry(p) \/ Refused(p)
  PROVE  Bounded'
  <1>1. CASE PoolFull(p) \/ List(p) \/ Retry(p)
    <2>1. \A q \in Proc \ {p} : deadline'[q] = deadline[q]
      BY <1>1 DEF PoolFull, List, Retry, TypeOK
    <2> QED BY <1>1, <2>1, QuietStep
            DEF PoolFull, List, Retry, Goto, managerVars, vodVars, Before
  <1>2. CASE Delete(p)
    <2>1. \A q \in Proc \ {p} : deadline'[q] = deadline[q]
      BY <1>2 DEF Delete, TypeOK
    <2>2. pc' = [pc EXCEPT ![p] = "delete"]
      BY <1>2 DEF Delete, TypeOK
    <2> QED BY <1>2, <2>1, <2>2, QuietStep DEF Delete, managerVars, Before
  <1>3. CASE Refused(p)
    <2>1. \A q \in Proc \ {p} : got'[q] = got[q]
      BY <1>3 DEF Refused, Stop, TypeOK
    <2> QED BY <1>3, <2>1, QuietStep DEF Refused, Stop, vodVars, Before
  <1> QED BY <1>1, <1>2, <1>3

\* The background task is started: the cache is served, so it is not stale,
\* and its last Ahead seconds have begun.
LEMMA ServeBound ==
  ASSUME TypeOK, TimesInv, LockInv, Bounded, NEW c \in Caller, Serve(c)
  PROVE  Bounded'
  <1>p. c \in Proc /\ Background \in Proc /\ Caller \subseteq Proc /\ c # Background
        /\ Background \notin Caller
    BY ConstantsTyped DEF Proc
  <1>1. \A q \in Proc \ {c} : got'[q] = got[q]
    BY DEF Serve, TypeOK
  <1>2. CASE pc' = [pc EXCEPT ![c] = "has"] /\ UNCHANGED deadline
    BY <1>2, <1>1, <1>p, QuietStep DEF Serve, vodVars
  <1>3. CASE /\ cache.until - now < Ahead /\ ~ refreshing
             /\ pc' = [pc EXCEPT ![c] = "has", ![Background] = "create"]
             /\ deadline' = [deadline EXCEPT ![Background] = now + NetMax]
    <2>1. /\ \A d \in Caller : pc'[d] = IF d = c THEN "has" ELSE pc[d]
          /\ pc'[Background] = "create" /\ pc[Background] = "idle"
          /\ \A d \in Caller : deadline'[d] = deadline[d]
          /\ UNCHANGED <<issued, born, cache, now>> /\ pc[c] = "idle"
      BY <1>3, <1>p DEF Serve, TypeOK, vodVars, LockInv
    <2>2. (Deciding' <=> Deciding) /\ (Uncached' <=> Uncached) /\ (Asleep' <=> Asleep)
      BY <2>1, <1>p DEF Deciding, Uncached, Asleep, Before
    <2>3. SleepsUntilActive' /\ Spaced' /\ OneHeld'
      BY <2>1, <2>2 DEF Bounded, SleepsUntilActive, Spaced, OneHeld, After
    <2>4. ~ Stale /\ cache.until < now + Ahead
      BY <1>3, NumbersTyped, ConstantsTyped DEF Serve, HasActive, Stale
    <2>5. pc[Background] \notin After /\ pc[Background] \notin Before
      BY <2>1 DEF Before, After
    <2>6. issued \in Nat /\ (issued >= 2 => issued - 1 \in 1 .. issued)
          /\ (issued >= 1 => issued \in 1 .. issued)
      BY NumbersTyped
    <2>7. \A t \in 1 .. issued : Covers(t, 0) => Past(t)
      BY <2>4, NumbersTyped, ConstantsTyped DEF Covers, Past
    <2>8. OneMore
      <3>1. issued >= 2 => Covers(issued - 1, 0)
        BY <2>4, <2>5 DEF Bounded, NothingHeld, Settled
      <3> QED BY <3>1, <2>6, <2>7 DEF OneMore
    <2>9. Deciding => TwoMore
      <3>1. Deciding => issued >= 1 /\ Covers(issued, 0)
        BY <2>4, <2>5 DEF Bounded, NothingHeld
      <3> QED BY <3>1, <2>6, <2>7 DEF TwoMore
    <2>10. (Settled' <=> Settled) /\ (Stale => Stale') /\ (OneMore => OneMore')
           /\ (TwoMore => TwoMore') /\ \A t, d : Covers(t, d)' <=> Covers(t, d)
      BY <2>1, TimePasses, NumbersTyped
    <2>11. /\ Covers(issued, 0)' <=> Covers(issued, 0)
           /\ Covers(issued - 1, 0)' <=> Covers(issued - 1, 0)
      BY <2>1 DEF Covers
    <2>12. NothingHeld'
      <3>1. NothingHeld /\ issued' = issued
        BY <2>1 DEF Bounded
      <3>2. ~ Stale
        BY <2>4
      <3> QED BY <3>1, <3>2, <2>2, <2>5, <2>8, <2>9, <2>10, <2>11 DEF NothingHeld
    <2> QED BY <2>3, <2>12 DEF Bounded
  <1> QED BY <1>2, <1>3 DEF Serve

\* A caller decides to refresh: nobody else is about to cache anything, so the
\* token it finds is one that expired, not one that is not active yet.
LEMMA EnterBound ==
  ASSUME ActiveBeforeRenewed, TypeOK, TimesInv, LockInv, Bounded,
         NEW c \in Caller, EnterRefresh(c)
  PROVE  Bounded'
  <1>p. c \in Proc /\ Background \in Proc /\ Caller \subseteq Proc /\ c # Background
        /\ Background \notin Caller
    BY ConstantsTyped DEF Proc
  <1>1. /\ \A q \in Proc : pc'[q] = IF q = c THEN "create" ELSE pc[q]
        /\ \A q \in Proc \ {c} : deadline'[q] = deadline[q]
        /\ UNCHANGED <<issued, born, cache, now, got>> /\ pc[c] = "lock"
    BY <1>p DEF EnterRefresh, Goto, TypeOK, vodVars, managerVars
  <1>2. \A d \in Caller : ~ (pc[d] \in Before \cup After)
    BY <1>1 DEF LockInv, EnterRefresh, Before, After
  <1>3. ~ Deciding /\ ~ Uncached /\ ~ Asleep
    BY <1>2 DEF Deciding, Uncached, Asleep, Before, After
  <1>4. Deciding' /\ ~ Uncached' /\ ~ Asleep' /\ \A d \in Caller : pc'[d] # "sleep"
    BY <1>1, <1>2, <1>p DEF Deciding, Uncached, Asleep, Before, After
  <1>5. cache.active <= now
    BY <1>3 DEF Bounded, SleepsUntilActive
  <1>6. Stale
    BY <1>5, NumbersTyped DEF EnterRefresh, HasActive, Stale
  <1>7. SleepsUntilActive' /\ Spaced'
    BY <1>1, <1>4, <1>5 DEF Bounded, SleepsUntilActive, Spaced
  <1>8. /\ issued \in Nat /\ now \in Nat /\ \A t \in 1 .. issued : born[t] \in Nat
        /\ issued >= 2 => issued - 1 \in 1 .. issued
        /\ issued >= 1 => issued \in 1 .. issued
    BY NumbersTyped
  <1>9. \A t \in 1 .. issued : Covers(t, Activation) => Past(t)
    BY <1>6, NumbersTyped, ConstantsTyped DEF Covers, Past, Stale, ActiveBeforeRenewed
  <1>10. \A t \in 1 .. issued : Covers(t, 0) => Past(t) /\ now >= born[t] + Ttl
    BY <1>6, NumbersTyped, ConstantsTyped DEF Covers, Past, Stale, ActiveBeforeRenewed
  <1>11. /\ Settled' <=> Settled
         /\ Stale => Stale'
         /\ OneMore => OneMore'
         /\ TwoMore => TwoMore'
    BY <1>1, <1>8, TimePasses
  <1>12. /\ pc'[Background] = pc[Background] /\ got'[Background] = got[Background]
         /\ issued' = issued /\ now' = now /\ born' = born
    BY <1>1, <1>p
  <1>13. NothingHeld'
    <2> SUFFICES ASSUME pc[Background] \notin After PROVE NothingHeld'
      BY <1>12 DEF NothingHeld
    <2>1. Settled
      BY <1>3 DEF Bounded, NothingHeld
    <2>2. OneMore /\ TwoMore
      BY <2>1, <1>8, <1>9, <1>10 DEF Settled, OneMore, TwoMore
    <2> QED BY <2>1, <2>2, <1>4, <1>6, <1>11 DEF NothingHeld
  <1>14. OneHeld'
    <2> SUFFICES ASSUME pc[Background] \in After PROVE OneHeld'
      BY <1>12 DEF OneHeld
    <2> DEFINE b == got[Background]
    <2>1. b \in 1 .. issued
      BY <1>p DEF TimesInv, WaitsInTime, InTime
    <2>2. /\ b < issued - 1 => now >= born[issued - 1] + Ttl
          /\ b = issued /\ issued >= 2 => Covers(issued - 1, Activation)
          /\ b < issued => Covers(issued, 0)
      BY <1>3 DEF Bounded, OneHeld
    <2> HIDE DEF b
    <2>3. b < issued => now >= born[issued] + Ttl
      BY <2>1, <2>2, <1>8, <1>10
    <2>4. OneMore
      <3>1. ASSUME issued >= 2 PROVE Past(issued - 1)
        <4>1. CASE b = issued
          BY <3>1, <4>1, <2>2, <1>8, <1>9
        <4>2. CASE b < issued
          <5>1. born[issued - 1] <= born[issued]
            BY <3>1, <1>8 DEF TimesInv, BornInOrder
          <5> QED BY <3>1, <4>2, <5>1, <2>3, <1>8, ConstantsTyped DEF Past, ActiveBeforeRenewed
        <4> QED BY <4>1, <4>2, <2>1, <1>8
      <3> QED BY <3>1 DEF OneMore
    <2>5. /\ Covers(issued, 0)' <=> Covers(issued, 0)
          /\ Covers(issued - 1, Activation)' <=> Covers(issued - 1, Activation)
      BY <1>1 DEF Covers
    <2>6. got'[Background] = b
      BY <1>12 DEF b
    <2> QED BY <2>2, <2>3, <2>4, <2>5, <2>6, <1>4, <1>11, <1>12 DEF OneHeld
  <1> QED BY <1>7, <1>13, <1>14 DEF Bounded

\* The bound when a token is issued.
LEMMA OneMoreSpaced ==
  ASSUME TypeOK, TimesInv, Spaced, OneMore, NEW p \in Proc, Create(p)
  PROVE  Spaced'
  <1>1. /\ TokensKept /\ issued' = issued + 1 /\ issued \in Nat
        /\ born'[issued'] = now
    BY CreateBears, NumbersTyped
  <1>2. ASSUME NEW t \in 1 .. issued' - 2
        PROVE  born'[t + 2] > born'[t] + Ttl - Ahead
    <2>1. t \in 1 .. issued /\ born'[t] = born[t]
      BY <1>1 DEF TokensKept
    <2>2. CASE t = issued - 1
      <3>1. issued >= 2 /\ t + 2 = issued'
        BY <2>2, <1>1
      <3>2. Past(t)
        BY <3>1, <2>2 DEF OneMore
      <3> QED BY <2>1, <3>1, <3>2, <1>1 DEF Past
    <2>3. CASE t # issued - 1
      <3>1. t \in 1 .. issued - 2 /\ t + 2 \in 1 .. issued
        BY <2>3, <1>1
      <3> QED BY <2>1, <3>1, <1>1 DEF Spaced, TokensKept
    <2> QED BY <2>2, <2>3
  <1> QED BY <1>2 DEF Spaced

\* What changes for the others when one token more is out.
LEMMA NextToken ==
  ASSUME TypeOK, NEW p \in Proc, Create(p)
  PROVE  /\ issued' - 1 = issued /\ issued \in Nat
         /\ issued >= 1 => \A d : Covers(issued, d) => Covers(issued - 1, d)'
         /\ TwoMore => OneMore'
         /\ Stale => Stale'
  <1>1. /\ TokensKept /\ issued' = issued + 1 /\ issued \in Nat
        /\ UNCHANGED <<cache, now>>
    BY CreateBears, NumbersTyped
  <1>2. issued' - 1 = issued
    BY <1>1
  <1>3. issued >= 1 => born'[issued] = born[issued]
    BY <1>1 DEF TokensKept
  <1>4. ASSUME issued >= 1, NEW d, Covers(issued, d) PROVE Covers(issued - 1, d)'
    BY <1>1, <1>2, <1>3, <1>4 DEF Covers
  <1>5. TwoMore => OneMore'
    BY <1>1, <1>2, <1>3 DEF TwoMore, OneMore, Past
  <1>6. Stale => Stale'
    BY <1>1 DEF Stale
  <1> QED BY <1>1, <1>2, <1>4, <1>5, <1>6

\* A caller gets a token.
LEMMA CallerCreateBound ==
  ASSUME TypeOK, TimesInv, LockInv, Bounded, NEW c \in Caller, Create(c)
  PROVE  Bounded'
  <1>p. c \in Proc /\ Background \in Proc /\ Caller \subseteq Proc /\ c # Background
        /\ Background \notin Caller
    BY ConstantsTyped DEF Proc
  <1>1. /\ TokensKept /\ issued' = issued + 1
        /\ \A q \in Proc : pc'[q] = IF q = c THEN "reply" ELSE pc[q]
        /\ \A q \in Proc : got'[q] = IF q = c THEN issued' ELSE got[q]
        /\ UNCHANGED <<deadline, cache, now>>
    BY <1>p, CreateBears
  <1>2. /\ issued' - 1 = issued /\ issued \in Nat
        /\ issued >= 1 => \A d : Covers(issued, d) => Covers(issued - 1, d)'
        /\ TwoMore => OneMore'
        /\ Stale => Stale'
    BY <1>p, NextToken
  <1>3. pc[c] \in Before
    BY DEF Create, Before
  <1>4. Deciding /\ ~ Uncached /\ ~ Asleep
    BY <1>3, PhaseOf
  <1>5. \A d \in Caller : pc[d] \in Before \cup After => d = c
    BY <1>3, OneCaller
  <1>6. \A d \in Caller : pc'[d] \in Before \cup After => pc'[d] = "reply"
    BY <1>1, <1>5, <1>p
  <1>7. ~ Deciding' /\ Uncached' /\ ~ Asleep' /\ \A d \in Caller : pc'[d] # "sleep"
    BY <1>1, <1>6, <1>p DEF Deciding, Uncached, Asleep, Before, After
  <1>8. SleepsUntilActive'
    BY <1>1, <1>4, <1>7 DEF Bounded, SleepsUntilActive
  <1>9. pc'[Background] = pc[Background] /\ got'[Background] = got[Background]
    BY <1>1, <1>p
  <1>10. OneMore
    BY <1>4 DEF Bounded, NothingHeld, OneHeld
  <1>11. Spaced'
    BY <1>p, <1>10, OneMoreSpaced DEF Bounded
  <1>12. NothingHeld'
    <2> SUFFICES ASSUME pc[Background] \notin After PROVE NothingHeld'
      BY <1>9 DEF NothingHeld
    <2>1. /\ (issued >= 1 /\ Covers(issued, 0)) \/ (Stale /\ TwoMore)
          /\ pc[Background] \in Before => TwoMore
      BY <1>4 DEF Bounded, NothingHeld
    <2>2. Stale' \/ (issued' >= 2 /\ Covers(issued - 1, 0)')
      BY <2>1, <1>1, <1>2
    <2>3. pc'[Background] \in Before => OneMore'
      BY <2>1, <1>2, <1>9
    <2> QED BY <2>2, <2>3, <1>7 DEF NothingHeld
  <1>13. OneHeld'
    <2> SUFFICES ASSUME pc[Background] \in After PROVE OneHeld'
      BY <1>9 DEF OneHeld
    <2> DEFINE b == got[Background]
    <2>1. b \in 1 .. issued
      BY <1>p DEF TimesInv, WaitsInTime, InTime
    <2>2. b < issued => now >= born[issued] + Ttl
      BY <1>4 DEF Bounded, OneHeld
    <2>3. got'[Background] = b
      BY <1>9
    <2> HIDE DEF b
    <2>4. issued' >= 2 /\ b < issued'
      BY <2>1, <1>1, <1>2
    <2>5. b < issued' - 1 => now' >= born'[issued' - 1] + Ttl
      <3>1. born'[issued] = born[issued]
        BY <2>1, <1>1, <1>2 DEF TokensKept
      <3> QED BY <3>1, <2>2, <1>1, <1>2
    <2> QED BY <2>3, <2>4, <2>5, <1>7 DEF OneHeld
  <1> QED BY <1>8, <1>11, <1>12, <1>13 DEF Bounded

\* The background task gets one.
LEMMA BackgroundCreateBound ==
  ASSUME TypeOK, TimesInv, LockInv, Bounded, Create(Background)
  PROVE  Bounded'
  <1>p. Background \in Proc /\ Caller \subseteq Proc /\ Background \notin Caller
    BY ConstantsTyped DEF Proc
  <1>1. /\ TokensKept /\ issued' = issued + 1 /\ issued' \in 1 .. MaxToken
        /\ \A q \in Proc : pc'[q] = IF q = Background THEN "reply" ELSE pc[q]
        /\ \A q \in Proc : got'[q] = IF q = Background THEN issued' ELSE got[q]
        /\ UNCHANGED <<deadline, cache, now>>
    BY <1>p, CreateBears
  <1>2. /\ issued' - 1 = issued /\ issued \in Nat
        /\ issued >= 1 => \A d : Covers(issued, d) => Covers(issued - 1, d)'
        /\ TwoMore => OneMore'
    BY <1>p, NextToken
  <1>3. pc[Background] \in Before /\ pc[Background] \notin After
    BY DEF Create, Before, After
  <1>4. \A d \in Caller : pc'[d] = pc[d]
    BY <1>1, <1>p
  <1>5. (Deciding' <=> Deciding) /\ (Uncached' <=> Uncached) /\ (Asleep' <=> Asleep)
    BY <1>4 DEF Deciding, Uncached, Asleep
  <1>6. SleepsUntilActive'
    BY <1>1, <1>4, <1>5 DEF Bounded, SleepsUntilActive
  <1>7. /\ ~ Uncached => Settled
        /\ Deciding => TwoMore
        /\ OneMore
    BY <1>3 DEF Bounded, NothingHeld
  <1>8. Spaced'
    BY <1>p, <1>7, OneMoreSpaced DEF Bounded
  <1>9. pc'[Background] = "reply" /\ got'[Background] = issued'
    BY <1>1, <1>p
  <1>10. NothingHeld'
    BY <1>9 DEF NothingHeld, After
  <1>11. Uncached => issued >= 1
    <2>1. ASSUME NEW d \in Caller, pc[d] = "reply" PROVE issued >= 1
      BY <2>1, <1>p, <1>2 DEF TimesInv, WaitsInTime, InTime, After
    <2> QED BY <2>1 DEF Uncached
  <1>12. ~ Uncached /\ issued' >= 2 => Covers(issued - 1, Activation)'
    <2>1. issued' >= 2 => issued >= 1
      BY <1>1, <1>2
    <2> QED BY <2>1, <1>2, <1>7 DEF Settled
  <1>13. OneHeld'
    <2>1. Uncached => issued' >= 2
      BY <1>11, <1>1, <1>2
    <2>3. ~ (issued' < issued' - 1) /\ ~ (issued' < issued')
      BY <1>1, <1>2
    <2>4. Deciding => OneMore'
      BY <1>2, <1>7
    <2> QED BY <2>1, <2>3, <2>4, <1>5, <1>9, <1>12 DEF OneHeld
  <1> QED BY <1>6, <1>8, <1>10, <1>13 DEF Bounded

\* A caller caches the token it got.
LEMMA CacheBound ==
  ASSUME TypeOK, TimesInv, LockInv, Bounded, NEW c \in Caller, Cache(c)
  PROVE  Bounded'
  <1>p. c \in Proc /\ Background \in Proc /\ Caller \subseteq Proc /\ c # Background
        /\ Background \notin Caller
    BY ConstantsTyped DEF Proc
  <1>1. /\ \A q \in Proc : pc'[q] = IF q = c THEN "sleep" ELSE pc[q]
        /\ \A q \in Proc : deadline'[q] = IF q = c THEN now + Activation ELSE deadline[q]
        /\ UNCHANGED <<issued, born, now, got>> /\ pc[c] = "reply"
    BY <1>p DEF Cache, Goto, TypeOK, vodVars
  <1>2. cache' = [token |-> got[c], until |-> now + Ttl, active |-> now + Activation]
    BY DEF Cache
  <1>3. got[c] \in 1 .. issued
    BY <1>1, <1>p, ReplyInTime
  <1>4. ~ Deciding /\ Uncached
    BY <1>1, PhaseOf
  <1>5. \A d \in Caller : pc[d] \in Before \cup After => d = c
    BY <1>1, OneCaller DEF After
  <1>6. ~ Deciding' /\ ~ Uncached' /\ Asleep' /\ \A d \in Caller : pc'[d] = "sleep" => d = c
    BY <1>1, <1>5, <1>p DEF Deciding, Uncached, Asleep, Before, After
  <1>7. SleepsUntilActive'
    <2>1. cache'.active = deadline'[c] /\ deadline'[c] \in Nat
      BY <1>1, <1>2, <1>p, NumbersTyped, ConstantsTyped
    <2> QED BY <2>1, <1>6 DEF SleepsUntilActive
  <1>8. Spaced'
    BY <1>1 DEF Bounded, Spaced
  <1>9. \A t \in 1 .. issued : Covers(t, 0)' /\ Covers(t, Activation)'
    <2>1. cache'.token # NoToken /\ cache'.until = now + Ttl
      BY <1>2, <1>3 DEF NoToken
    <2>2. \A t \in 1 .. issued : born[t] \in Nat /\ born[t] <= now /\ born'[t] = born[t]
      BY <1>1, NumbersTyped DEF TimesInv, BornInOrder
    <2> QED BY <2>1, <2>2, NumbersTyped, ConstantsTyped DEF Covers
  <1>10. issued \in Nat /\ issued' = issued
         /\ (issued >= 2 => issued - 1 \in 1 .. issued)
         /\ (issued >= 1 => issued \in 1 .. issued)
    BY <1>1, NumbersTyped
  <1>11. pc'[Background] = pc[Background] /\ got'[Background] = got[Background]
    BY <1>1, <1>p
  <1>12. NothingHeld'
    <2>1. Settled'
      BY <1>9, <1>10 DEF Settled
    <2>2. pc[Background] \notin After /\ pc[Background] \in Before => OneMore
      BY DEF Bounded, NothingHeld
    <2>3. OneMore => OneMore'
      BY <1>1 DEF OneMore, Past
    <2> QED BY <2>1, <2>2, <2>3, <1>6, <1>11 DEF NothingHeld
  <1>13. OneHeld'
    <2> SUFFICES ASSUME pc[Background] \in After PROVE OneHeld'
      BY <1>11 DEF OneHeld
    <2>1. got[Background] < issued - 1 => now >= born[issued - 1] + Ttl
      BY DEF Bounded, OneHeld
    <2>2. got[Background] \in 1 .. issued
      BY <1>p DEF TimesInv, WaitsInTime, InTime
    <2>3. Covers(issued, 0)' /\ (issued >= 2 => Covers(issued - 1, Activation)')
      BY <2>2, <1>9, <1>10
    <2> QED BY <2>1, <2>3, <1>1, <1>6, <1>10, <1>11 DEF OneHeld
  <1> QED BY <1>7, <1>8, <1>12, <1>13 DEF Bounded

\* A caller's token is active.
LEMMA WakeBound ==
  ASSUME TypeOK, TimesInv, LockInv, Bounded, NEW c \in Caller, Wake(c)
  PROVE  Bounded'
  <1>p. c \in Proc /\ Background \in Proc /\ Caller \subseteq Proc /\ c # Background
        /\ Background \notin Caller
    BY ConstantsTyped DEF Proc
  <1>1. /\ \A q \in Proc : pc'[q] = IF q = c THEN "has" ELSE pc[q]
        /\ UNCHANGED <<issued, born, cache, now, got, deadline>>
        /\ pc[c] = "sleep" /\ now >= deadline[c]
    BY <1>p DEF Wake, Goto, TypeOK, vodVars
  <1>2. \A d \in Caller : pc[d] \in Before \cup After => d = c
    BY <1>1, OneCaller DEF After
  <1>3. ~ Deciding' /\ ~ Uncached' /\ ~ Uncached /\ \A d \in Caller : pc'[d] # "sleep"
    BY <1>1, <1>2, <1>p DEF Deciding, Uncached, Before, After
  <1>4. cache.active <= now
    <2>1. cache.active <= deadline[c]
      BY <1>1 DEF Bounded, SleepsUntilActive
    <2> QED BY <2>1, <1>1, <1>p, NumbersTyped
  <1>5. SleepsUntilActive'
    BY <1>1, <1>3, <1>4 DEF SleepsUntilActive
  <1>6. pc'[Background] = pc[Background] /\ got'[Background] = got[Background]
    BY <1>1, <1>p
  <1>7. now' \in Nat /\ now <= now'
    BY <1>1, NumbersTyped
  <1> QED BY <1>1, <1>3, <1>5, <1>6, <1>7, BoundKept

\* The background task's token takes its place in the cache: if it is older
\* than the last ones issued, they have lived their time.
LEMMA ReplaceBound ==
  ASSUME TypeOK, TimesInv, LockInv, Bounded, Replace
  PROVE  Bounded'
  <1>p. Background \in Proc /\ Caller \subseteq Proc /\ Background \notin Caller
    BY ConstantsTyped DEF Proc
  <1> DEFINE b == got[Background]
  <1>1. /\ \A q \in Proc : pc'[q] = IF q = Background THEN "idle" ELSE pc[q]
        /\ UNCHANGED <<issued, born, now, deadline>>
        /\ pc[Background] = "sleep" /\ now >= deadline[Background]
        /\ cache' = [token |-> b, until |-> until, active |-> now]
    BY DEF Replace, TypeOK, vodVars
  <1>2. /\ b \in 1 .. issued /\ now <= deadline[Background]
        /\ born[b] + Activation <= deadline[Background]
        /\ until = deadline[Background] + Ttl - Activation
    BY <1>1, <1>p DEF TimesInv, WaitsInTime, InTime, HeldInTime, After, Awaiting
  <1>3. /\ now \in Nat /\ issued \in Nat /\ issued' = issued
        /\ \A t \in 1 .. issued : born[t] \in Nat
        /\ issued >= 1 /\ issued \in 1 .. issued
        /\ (issued >= 2 => issued - 1 \in 1 .. issued)
    BY <1>1, <1>2, NumbersTyped
  <1>4. /\ Uncached => issued >= 2
        /\ b < issued - 1 => now >= born[issued - 1] + Ttl
        /\ Deciding => OneMore /\ (b < issued => now >= born[issued] + Ttl)
    BY <1>1 DEF Bounded, OneHeld, After
  <1> HIDE DEF b
  <1>5. until = now + Ttl - Activation /\ until >= born[b] + Ttl
    BY <1>1, <1>2, <1>3, <1>p, NumbersTyped, ConstantsTyped
  <1>6. \A d \in Caller : pc'[d] = pc[d]
    BY <1>1, <1>p
  <1>7. (Deciding' <=> Deciding) /\ (Uncached' <=> Uncached) /\ (Asleep' <=> Asleep)
    BY <1>6 DEF Deciding, Uncached, Asleep
  <1>8. Spaced' /\ OneHeld'
    BY <1>1, <1>p DEF Bounded, Spaced, OneHeld, After
  <1>9. SleepsUntilActive'
    <2>1. cache'.active = now /\ now' = now
      BY <1>1
    <2>2. \A d \in Caller : pc[d] = "sleep" => now <= deadline[d]
      BY <1>p DEF TimesInv, WaitsInTime, InTime, Awaiting
    <2> QED BY <2>1, <2>2, <1>1, <1>3, <1>6 DEF SleepsUntilActive
  <1>10. cache'.token # NoToken /\ cache'.until = until
    BY <1>1, <1>2 DEF NoToken
  <1>11. Covers(issued, Activation)'
    <2>1. born[issued] <= now
      BY <1>3 DEF TimesInv, BornInOrder
    <2> QED BY <2>1, <1>1, <1>3, <1>5, <1>10, ConstantsTyped DEF Covers
  <1>12. issued >= 2 => Covers(issued - 1, 0)'
    <2> SUFFICES ASSUME issued >= 2 PROVE Covers(issued - 1, 0)'
      OBVIOUS
    <2>1. until >= born[issued - 1] + Ttl
      <3>1. CASE b < issued - 1
        BY <3>1, <1>3, <1>4, <1>5, ConstantsTyped
      <3>2. CASE b >= issued - 1
        <4>1. issued - 1 \in 1 .. b
          BY <3>2, <1>2, <1>3
        <4>2. born[issued - 1] <= born[b]
          BY <4>1, <1>2 DEF TimesInv, BornInOrder
        <4>3. born[issued - 1] \in Nat /\ born[b] \in Nat
          BY <1>2, <1>3
        <4> QED BY <4>2, <4>3, <1>5, <1>3, ConstantsTyped
      <3>3. b < issued - 1 \/ b >= issued - 1
        BY <1>2, <1>3
      <3> QED BY <3>1, <3>2, <3>3
    <2> QED BY <2>1, <1>1, <1>3, <1>5, <1>10, ConstantsTyped DEF Covers
  <1>13. Deciding => Covers(issued, 0)'
    <2> SUFFICES ASSUME Deciding PROVE Covers(issued, 0)'
      OBVIOUS
    <2>1. until >= born[issued] + Ttl
      <3>1. CASE b < issued
        BY <3>1, <1>3, <1>4, <1>5, ConstantsTyped
      <3>2. CASE b = issued
        BY <3>2, <1>5
      <3> QED BY <3>1, <3>2, <1>2, <1>3
    <2> QED BY <2>1, <1>1, <1>3, <1>5, <1>10, ConstantsTyped DEF Covers
  <1>14. Settled'
    BY <1>3, <1>11, <1>12 DEF Settled
  <1>15. OneMore => OneMore'
    BY <1>1 DEF OneMore, Past
  <1>16. pc'[Background] = "idle"
    BY <1>1, <1>p
  <1>17. Deciding' => OneMore' /\ issued' >= 1 /\ Covers(issued, 0)'
    BY <1>3, <1>4, <1>7, <1>13, <1>15
  <1>18. Uncached' => issued' >= 2 /\ Covers(issued - 1, 0)'
    BY <1>3, <1>4, <1>7, <1>12
  <1>19. NothingHeld'
    BY <1>14, <1>16, <1>17, <1>18 DEF NothingHeld, Before
  <1> QED BY <1>8, <1>9, <1>19 DEF Bounded

LEMMA TickBound ==
  ASSUME TypeOK, TimesInv, Bounded, Tick
  PROVE  Bounded'
  <1>1. /\ now' = now + 1 /\ now \in Nat
        /\ UNCHANGED <<issued, born, cache, pc, got, deadline>>
    BY NumbersTyped DEF Tick, managerVars, procVars, vodVars
  <1>2. (Deciding' <=> Deciding) /\ (Uncached' <=> Uncached) /\ (Asleep' <=> Asleep)
    BY <1>1 DEF Deciding, Uncached, Asleep
  <1>3. SleepsUntilActive'
    BY <1>1, <1>2, NumbersTyped DEF Bounded, SleepsUntilActive
  <1> QED BY <1>1, <1>2, <1>3, BoundKept

LEMMA BoundInit == Init => BoundInv
  <1> SUFFICES ASSUME Init PROVE Bounded
    BY DEF BoundInv
  <1>1. /\ \A p \in Proc : pc[p] = "idle"
        /\ issued = 0 /\ cache.active = 0 /\ now = 0
    BY DEF Init, Empty
  <1>2. ~ Deciding /\ ~ Uncached /\ ~ Asleep /\ pc[Background] = "idle"
        /\ \A c \in Caller : pc[c] # "sleep"
    BY <1>1 DEF Deciding, Uncached, Asleep, Before, Proc
  <1>3. Settled /\ Spaced
    BY <1>1 DEF Settled, Spaced
  <1> QED BY <1>1, <1>2, <1>3
      DEF Bounded, NothingHeld, OneHeld, SleepsUntilActive, Before, After

LEMMA BoundNext ==
  ASSUME ActiveBeforeRenewed
  PROVE  TypeOK /\ LockInv /\ TimesInv /\ BoundInv /\ [Next]_vars => BoundInv'
  <1> SUFFICES ASSUME TypeOK, LockInv, TimesInv, BoundInv, [Next]_vars, faults' = 0
               PROVE  Bounded'
    BY DEF BoundInv
  <1>p. Background \in Proc /\ Caller \subseteq Proc
    BY DEF Proc
  <1>f. faults \in Nat
    BY ConstantsTyped DEF TypeOK
  <1>1. CASE Restart \/ \E p \in Proc : Fail(p)
    BY <1>1, <1>f DEF Restart, Fail
  <1>2. CASE UNCHANGED faults
    <2>1. Bounded
      BY <1>2 DEF BoundInv
    <2>2. CASE \E c \in Caller : Serve(c) \/ AwaitLock(c) \/ CallerStep(c)
      <3>1. PICK c \in Caller : Serve(c) \/ AwaitLock(c) \/ CallerStep(c)
        BY <2>2
      <3>2. c \in Proc /\ c # Background
        BY <1>p, ConstantsTyped
      <3>3. CASE AwaitLock(c)
        BY <3>2, <3>3, <2>1, QuietStep DEF AwaitLock, Goto, vodVars
      <3>4. CASE EnterServed(c) \/ Use(c)
        <4>1. \A q \in Proc \ {c} : got'[q] = got[q]
          BY <3>4 DEF EnterServed, Use, TypeOK
        <4> QED BY <3>2, <3>4, <4>1, <2>1, QuietStep
                DEF EnterServed, Use, Goto, vodVars, managerVars
      <3>5. CASE CallerStep(c) /\ ~ EnterServed(c) /\ ~ Use(c)
        BY <3>2, <3>5, <2>1, EnterBound, RefreshQuiet, CallerCreateBound, CacheBound, WakeBound
           DEF CallerStep, Refresh
      <3> QED BY <3>1, <3>3, <3>4, <3>5, <2>1, ServeBound
    <2>3. CASE BackgroundStep
      <3>1. CASE Hold
        <4>1. \A q \in Proc \ {Background} : deadline'[q] = deadline[q]
          BY <3>1 DEF Hold, TypeOK
        <4> QED BY <3>1, <4>1, <1>p, <2>1, QuietStep DEF Hold, Goto, managerVars, vodVars
      <3>2. CASE Replace
        BY <3>2, <2>1, ReplaceBound
      <3>3. CASE Refresh(Background)
        BY <3>3, <1>p, <2>1, RefreshQuiet, BackgroundCreateBound DEF Refresh
      <3> QED BY <2>3, <3>1, <3>2, <3>3 DEF BackgroundStep
    <2>4. CASE Tick
      BY <2>4, <2>1, TickBound
    <2>5. CASE UNCHANGED vars
      <3>1. /\ UNCHANGED <<issued, born, cache, now, pc, got, deadline>>
            /\ now' \in Nat /\ now <= now'
        BY <2>5, NumbersTyped DEF vars, managerVars, procVars, vodVars
      <3>2. (Deciding' <=> Deciding) /\ (Uncached' <=> Uncached) /\ SleepsUntilActive'
        BY <3>1, <2>1 DEF Deciding, Uncached, Asleep, Bounded, SleepsUntilActive
      <3> QED BY <3>1, <3>2, <2>1, BoundKept
    <2> QED BY <1>1, <1>2, <2>2, <2>3, <2>4, <2>5 DEF Next
  <1>3. Restart \/ (\E p \in Proc : Fail(p)) \/ UNCHANGED faults
    BY DEF Next, Serve, AwaitLock, CallerStep, EnterServed, EnterRefresh, Cache, Wake, Use,
           BackgroundStep, Refresh, Create, PoolFull, List, Delete, Retry, Refused,
           Hold, Replace, Tick, vars
  <1> QED BY <1>1, <1>2, <1>3

\* The lock and the flag bound what a lifetime costs (token_manager.py:89-101):
\* for any number of callers, as long as nothing fails, two tokens after any
\* other are issued no earlier than that one is to be renewed.
THEOREM TwoTokensPerLifetime ==
  ASSUME ActiveBeforeRenewed
  PROVE  Spec => []TokensAreBounded
  <1>1. Init => TypeOK /\ LockInv /\ TimesInv /\ BoundInv
    BY TypeInit, LockInit, TimesInit, BoundInit
  <1>2. TypeOK /\ LockInv /\ TimesInv /\ BoundInv /\ [Next]_vars
          => (TypeOK /\ LockInv /\ TimesInv /\ BoundInv)'
    BY TypeNext, LockNext, TimesNext, BoundNext
  <1>3. TypeOK /\ BoundInv => TokensAreBounded
    BY DEF BoundInv, Bounded, Spaced, TokensAreBounded, TwoPerLifetime
  <1> QED BY <1>1, <1>2, <1>3, PTL DEF Spec
=============================================================================
