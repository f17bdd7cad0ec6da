---------------------------- MODULE TokenManager ----------------------------
(***************************************************************************)
(* services/playground/token_manager.py: the cached ApiToken of Tencent's  *)
(* gateway, which every chat request takes with get_token().               *)
(*                                                                         *)
(* get_token serves the cached token while it is active.  Otherwise one    *)
(* caller refreshes under an asyncio.Lock (a queue: it is fair) and waits  *)
(* until the new token is active.  Shortly before the token expires a      *)
(* background task, outside the lock, prepares the next one.  A refresh    *)
(* that meets the limit of the token pool first deletes old tokens.        *)
(*                                                                         *)
(* The pool and the lifetime of a token are Tencent's (external).  A step  *)
(* of a coroutine is what runs between two awaits.  Every await has a      *)
(* deadline: a request ends within its timeout, a sleep at its time.       *)
(***************************************************************************)
EXTENDS Integers, Sequences, FiniteSets, SequencesExt

CONSTANTS
  Caller,     \* requests in get_token
  Background, \* the task of _refresh_in_background
  Ttl,        \* tencent_aigc_token_ttl_seconds
  Activation, \* _ACTIVATION_WAIT_S
  Ahead,      \* _REFRESH_AHEAD_S
  Keep,       \* tokens _prune_tokens leaves
  NetMax,     \* timeout of one call to VOD
  RealTtl,    \* how long VOD accepts a token
  RealActivation, \* how long VOD takes to activate one
  PoolLimit,  \* tokens VOD keeps for one SubAppId
  MaxTime,    \* bound: no call starts after it
  MaxToken,   \* bound: tokens VOD issues
  MaxFault    \* bound: errors, cancelled requests and restarts

ASSUME TokenAssumption ==
  /\ Background \notin Caller
  /\ {Ttl, Activation, Ahead, Keep, NetMax, RealTtl, RealActivation} \subseteq Nat
  /\ {PoolLimit, MaxTime, MaxToken, MaxFault} \subseteq Nat
  /\ RealActivation <= Activation /\ Activation < Ttl
  /\ Ttl + NetMax <= RealTtl
  /\ Keep < PoolLimit

VARIABLES
  \* the manager
  cache,      \* [token, until, active]: _cached_token, _until, _active_at
  refreshing, \* _refreshing
  queue,      \* callers waiting for _lock, the first one may hold it
  \* the coroutines
  pc,
  got,        \* the token issued for it, or the one it returns
  until,      \* expires_at of the background task
  victims,    \* to_del of _prune_tokens
  deadline,   \* when the await it is in ends at the latest
  \* VOD and the clock
  now,
  issued,     \* number of tokens issued, which are numbered in that order
  born,       \* when each was issued
  pool,       \* the tokens VOD keeps
  faults

managerVars == <<cache, refreshing, queue>>
procVars    == <<pc, got, until, victims, deadline>>
vodVars     == <<issued, born, pool>>
vars == <<managerVars, procVars, vodVars, now, faults>>

Proc == Caller \cup {Background}
NoToken == 0
Empty == [token |-> NoToken, until |-> 0, active |-> 0]

Calling  == {"create", "list", "delete", "retry", "reply"}
Awaiting == Calling \cup {"sleep"}

\* _has_active
HasActive ==
  /\ cache.token # NoToken
  /\ cache.until > now
  /\ now >= cache.active

-----------------------------------------------------------------------------
(* get_token *)

Goto(p, from, to) ==
  /\ pc[p] = from
  /\ pc' = [pc EXCEPT ![p] = to]

\* The cached token is returned, and the background task started if it is due.
Serve(c) ==
  /\ now < MaxTime
  /\ pc[c] = "idle" /\ HasActive
  /\ got' = [got EXCEPT ![c] = cache.token]
  /\ \/ /\ cache.until - now < Ahead /\ ~ refreshing
        /\ refreshing' = TRUE
        /\ pc' = [pc EXCEPT ![c] = "has", ![Background] = "create"]
        /\ deadline' = [deadline EXCEPT ![Background] = now + NetMax]
     \/ /\ cache.until - now >= Ahead \/ refreshing
        /\ pc' = [pc EXCEPT ![c] = "has"]
        /\ UNCHANGED <<refreshing, deadline>>
  /\ UNCHANGED <<cache, queue, until, victims, vodVars, now, faults>>

AwaitLock(c) ==
  /\ now < MaxTime
  /\ ~ HasActive
  /\ Goto(c, "idle", "lock")
  /\ queue' = Append(queue, c)
  /\ UNCHANGED <<cache, refreshing, got, until, victims, deadline, vodVars, now, faults>>

\* The second check, under the lock.
EnterServed(c) ==
  /\ Goto(c, "lock", "has")
  /\ Head(queue) = c /\ HasActive
  /\ got' = [got EXCEPT ![c] = cache.token]
  /\ queue' = Tail(queue)
  /\ UNCHANGED <<cache, refreshing, until, victims, deadline, vodVars, now, faults>>

\* Mutant: the second check is missing.
EnterUnchecked(c) ==
  /\ Goto(c, "lock", "create")
  /\ Head(queue) = c
  /\ deadline' = [deadline EXCEPT ![c] = now + NetMax]
  /\ UNCHANGED <<managerVars, got, until, victims, vodVars, now, faults>>

EnterRefresh(c) ==
  /\ Goto(c, "lock", "create")
  /\ Head(queue) = c /\ ~ HasActive
  /\ deadline' = [deadline EXCEPT ![c] = now + NetMax]
  /\ UNCHANGED <<managerVars, got, until, victims, vodVars, now, faults>>

-----------------------------------------------------------------------------
(* _refresh *)

\* VOD issues a token; the answer is on its way.
Create(p) ==
  /\ pc[p] \in {"create", "retry"}
  /\ Cardinality(pool) < PoolLimit /\ issued < MaxToken
  /\ issued' = issued + 1
  /\ born' = [born EXCEPT ![issued'] = now]
  /\ pool' = pool \cup {issued'}
  /\ got' = [got EXCEPT ![p] = issued']
  /\ pc' = [pc EXCEPT ![p] = "reply"]
  /\ UNCHANGED <<managerVars, until, victims, deadline, now, faults>>

\* LimitExceeded: list the pool, delete, try once more.
PoolFull(p) ==
  /\ Goto(p, "create", "list")
  /\ Cardinality(pool) >= PoolLimit
  /\ deadline' = [deadline EXCEPT ![p] = now + NetMax]
  /\ UNCHANGED <<managerVars, got, until, victims, vodVars, now, faults>>

\* Mutant: all but the Keep oldest.
OldReversed(S) == {t \in S : Cardinality({u \in S : u < t}) >= Keep}

\* All but the Keep youngest, as VOD lists them from the oldest.
Old(S) == {t \in S : Cardinality({u \in S : u > t}) >= Keep}

List(p) ==
  /\ Goto(p, "list", "delete")
  /\ victims' = [victims EXCEPT ![p] = Old(pool)]
  /\ deadline' = [deadline EXCEPT ![p] = now + NetMax]
  /\ UNCHANGED <<managerVars, got, until, vodVars, now, faults>>

\* One call each; an Error in the answer is ignored.
Delete(p) ==
  /\ pc[p] = "delete"
  /\ \E t \in victims[p] :
       /\ \A u \in victims[p] : t <= u
       /\ victims' = [victims EXCEPT ![p] = @ \ {t}]
       /\ pool' \in {pool, pool \ {t}}
  /\ deadline' = [deadline EXCEPT ![p] = now + NetMax]
  /\ UNCHANGED <<managerVars, pc, got, until, issued, born, now, faults>>

Retry(p) ==
  /\ Goto(p, "delete", "retry")
  /\ victims[p] = {}
  /\ deadline' = [deadline EXCEPT ![p] = now + NetMax]
  /\ UNCHANGED <<managerVars, got, until, victims, vodVars, now, faults>>

\* Mutant: the lock is not released.
StopHoldsLock(p) ==
  /\ pc' = [pc EXCEPT ![p] = "idle"]
  /\ got' = [got EXCEPT ![p] = NoToken]
  /\ victims' = [victims EXCEPT ![p] = {}]
  /\ refreshing' = (refreshing /\ p # Background)
  /\ UNCHANGED <<cache, queue, until, deadline, vodVars, now>>

\* The exception passes get_token, which releases the lock, or ends the
\* background task.
Stop(p) ==
  /\ pc' = [pc EXCEPT ![p] = "idle"]
  /\ got' = [got EXCEPT ![p] = NoToken]
  /\ victims' = [victims EXCEPT ![p] = {}]
  /\ refreshing' = (refreshing /\ p # Background)
  /\ queue' = RemoveFirst(queue, p)
  /\ UNCHANGED <<cache, until, deadline, vodVars, now>>

\* The pool is full again, or VOD issues nothing any more.
Refused(p) ==
  /\ \/ pc[p] = "retry" /\ Cardinality(pool) >= PoolLimit
     \/ pc[p] \in {"create", "retry"} /\ issued = MaxToken
  /\ Stop(p)
  /\ UNCHANGED faults

-----------------------------------------------------------------------------
(* Activation *)

\* Mutant: it is taken for active at once.
CacheActive(c) ==
  /\ Goto(c, "reply", "sleep")
  /\ cache' = [token |-> got[c], until |-> now + Ttl, active |-> now]
  /\ deadline' = [deadline EXCEPT ![c] = now + Activation]
  /\ UNCHANGED <<refreshing, queue, got, until, victims, vodVars, now, faults>>

\* get_token caches the token before it is active.
Cache(c) ==
  /\ Goto(c, "reply", "sleep")
  /\ cache' = [token |-> got[c], until |-> now + Ttl, active |-> now + Activation]
  /\ deadline' = [deadline EXCEPT ![c] = now + Activation]
  /\ UNCHANGED <<refreshing, queue, got, until, victims, vodVars, now, faults>>

\* Mutant: the expiry is computed with the wrong sign.
HoldPast ==
  /\ Goto(Background, "reply", "sleep")
  /\ until' = now - Ttl
  /\ deadline' = [deadline EXCEPT ![Background] = now + Activation]
  /\ UNCHANGED <<managerVars, got, victims, vodVars, now, faults>>

\* The background task keeps it to itself meanwhile.
Hold ==
  /\ Goto(Background, "reply", "sleep")
  /\ until' = now + Ttl
  /\ deadline' = [deadline EXCEPT ![Background] = now + Activation]
  /\ UNCHANGED <<managerVars, got, victims, vodVars, now, faults>>

Wake(c) ==
  /\ Goto(c, "sleep", "has")
  /\ now >= deadline[c]
  /\ queue' = Tail(queue)
  /\ UNCHANGED <<cache, refreshing, got, until, victims, deadline, vodVars, now, faults>>

Replace ==
  /\ pc[Background] = "sleep" /\ now >= deadline[Background]
  /\ pc' = [pc EXCEPT ![Background] = "idle"]
  /\ cache' = [token |-> got[Background], until |-> until, active |-> now]
  /\ refreshing' = FALSE
  /\ got' = [got EXCEPT ![Background] = NoToken]
  /\ UNCHANGED <<queue, until, victims, deadline, vodVars, now, faults>>

\* The request is done with the token.
Use(c) ==
  /\ Goto(c, "has", "idle")
  /\ got' = [got EXCEPT ![c] = NoToken]
  /\ UNCHANGED <<managerVars, until, victims, deadline, vodVars, now, faults>>

-----------------------------------------------------------------------------
(* The environment *)

\* The call fails or its answer is lost, or the client goes away and the
\* request is cancelled where it waits.
Fail(p) ==
  /\ faults < MaxFault /\ faults' = faults + 1
  /\ \/ pc[p] \in Calling
     \/ p # Background /\ pc[p] \in {"lock", "sleep"}
  /\ Stop(p)

\* The process starts again with an empty cache.
Restart ==
  /\ faults < MaxFault /\ faults' = faults + 1
  /\ cache' = Empty /\ refreshing' = FALSE /\ queue' = <<>>
  /\ pc' = [p \in Proc |-> "idle"]
  /\ got' = [p \in Proc |-> NoToken]
  /\ victims' = [p \in Proc |-> {}]
  /\ UNCHANGED <<until, deadline, vodVars, now>>

\* No await outlasts its deadline.  Past MaxTime the clock only runs for
\* those who sleep.
Tick ==
  /\ \A p \in Proc : pc[p] \in Awaiting => now < deadline[p]
  /\ now < MaxTime \/ \E p \in Proc : pc[p] = "sleep"
  /\ now' = now + 1
  /\ UNCHANGED <<managerVars, procVars, vodVars, faults>>

-----------------------------------------------------------------------------

Refresh(p) ==
  \/ Create(p) \/ PoolFull(p) \/ List(p) \/ Delete(p) \/ Retry(p) \/ Refused(p)

CallerStep(c) ==
  \/ EnterServed(c) \/ EnterRefresh(c) \/ Refresh(c)
  \/ Cache(c) \/ Wake(c) \/ Use(c)

BackgroundStep == Refresh(Background) \/ Hold \/ Replace

Init ==
  /\ cache = Empty /\ refreshing = FALSE /\ queue = <<>>
  /\ pc = [p \in Proc |-> "idle"]
  /\ got = [p \in Proc |-> NoToken]
  /\ until = 0
  /\ victims = [p \in Proc |-> {}]
  /\ deadline = [p \in Proc |-> 0]
  /\ now = 0 /\ issued = 0 /\ faults = 0
  /\ born = [t \in 1 .. MaxToken |-> 0]
  /\ pool = {}

Next ==
  \/ \E c \in Caller : Serve(c) \/ AwaitLock(c) \/ CallerStep(c)
  \/ BackgroundStep
  \/ \E p \in Proc : Fail(p)
  \/ Restart
  \/ Tick

Spec == Init /\ [][Next]_vars

\* The event loop runs whoever is ready, and time passes.
FairSpec ==
  /\ Spec
  /\ WF_vars(Tick)
  /\ WF_vars(BackgroundStep)
  /\ \A c \in Caller : WF_vars(CallerStep(c))

-----------------------------------------------------------------------------

TypeOK ==
  /\ cache \in [token : 0 .. MaxToken, until : Nat, active : Nat]
  /\ refreshing \in BOOLEAN
  /\ queue \in Seq(Caller)
  /\ pc \in [Proc -> {"idle", "lock", "has"} \cup Awaiting]
  /\ got \in [Proc -> 0 .. MaxToken]
  /\ until \in Nat
  /\ victims \in [Proc -> SUBSET (1 .. MaxToken)]
  /\ deadline \in [Proc -> Nat]
  /\ now \in Nat /\ issued \in 0 .. MaxToken /\ faults \in 0 .. MaxFault
  /\ born \in [1 .. MaxToken -> Nat]
  /\ pool \in SUBSET (1 .. issued)

\* What VOD thinks of a token.
Alive(t) == born[t] + RealActivation <= now /\ now < born[t] + RealTtl

Returns(c) == pc'[c] = "has" /\ pc[c] # "has"

\* get_token returns "활성·유효한 토큰" (token_manager.py:81): active and
\* unexpired at VOD, whatever mixture of cold refreshes, background refreshes,
\* lost answers and restarts put it into the cache.
ReturnsAlive == [][\A c \in Caller : Returns(c) => Alive(got'[c])]_vars

\* And VOD still has it: a token that is handed out has not been deleted from
\* the pool to make room (_prune_tokens, token_manager.py:158-175).
ReturnsKept == [][\A c \in Caller : Returns(c) => got'[c] \in pool]_vars

\* Both: a token that is handed out can be used.
ReturnsUsable == ReturnsAlive /\ ReturnsKept

\* The lock and the flag bound what a lifetime costs: unless something fails,
\* callers and background task together take at most two tokens of the pool
\* (token_manager.py:98-101 and 89-95), however they wait for each other.
TwoPerLifetime ==
  faults = 0 => \A t \in 1 .. issued - 2 : born[t + 2] > born[t] + Ttl - Ahead
TokensAreBounded == TypeOK /\ TwoPerLifetime

\* A caller that has to wait gets a token or an error in the end: whatever
\* fails, the lock is passed on.
WaitEnds == \A c \in Caller : pc[c] = "lock" ~> pc[c] \in {"has", "idle"}
=============================================================================
