---------------------------- MODULE Distribution ----------------------------
(***************************************************************************)
(* The distribution subsystem: review requests, send-now requests and      *)
(* workers on the same rows, with crashes and database errors.             *)
(***************************************************************************)
EXTENDS ReviewDesk, SendNow, SendWorker

-----------------------------------------------------------------------------
(* The environment *)

Tick ==
  /\ now < MaxTime
  /\ now' = now + 1
  /\ UNCHANGED <<dbVars, chat, faults, localVars>>

\* A database error in the middle of a coroutine: what it had not committed
\* is rolled back.  A worker goes on with the next session, a request
\* answers 500.
DatabaseError(a) ==
  /\ faults < MaxFault
  /\ pc[a] # "idle"
  /\ faults' = faults + 1
  /\ Return(a)
  /\ UNCHANGED <<dbVars, now, chat, todo>>

\* The process dies and starts again; the lifespan starts a fresh worker.
Crash ==
  /\ faults < MaxFault
  /\ faults' = faults + 1
  /\ pc' = [a \in Actor |-> "idle"]
  /\ cur' = [a \in Actor |-> None]
  /\ mid' = [a \in Actor |-> None]
  /\ snap' = [a \in Actor |-> NoCopies]
  /\ left' = [a \in Actor |-> {}]
  /\ result' = [a \in Actor |-> "failed"]
  /\ tally' = [a \in Actor |-> {}]
  /\ todo' = [w \in Worker |-> {}]
  /\ UNCHANGED <<dbVars, now, chat>>

-----------------------------------------------------------------------------

HandlerBegin(h) == ReviewBegin(h) \/ SendNowBegin(h)

\* What an open request does next; it never waits for another one.
HandlerStep(h) == ReviewStep(h) \/ SendNowStep(h)

Generate ==
  \E s \in Session, S \in SUBSET Message :
    \E gap \in [S -> Gap] : CreateSession(s, S, gap)

Init == RowsInit

Next ==
  \/ Generate
  \/ \E h \in Handler : HandlerBegin(h) \/ HandlerStep(h)
  \/ \E w \in Worker : WorkerStep(w)
  \/ \E a \in Actor : DatabaseError(a)
  \/ Tick
  \/ Crash

Spec == Init /\ [][Next]_vars

\* The event loop runs every coroutine that is ready, every Telegram call
\* returns or raises, and time passes.  Nobody is obliged to send requests.
FairSpec ==
  /\ Spec
  /\ WF_vars(Tick)
  /\ \A h \in Handler : WF_vars(HandlerStep(h))
  /\ \A w \in Worker : WF_vars(WorkerStep(w))

-----------------------------------------------------------------------------
(* Types *)

RowsOK ==
  /\ sess \in [Session -> SessionRow]
  /\ msg \in [Message -> MessageRow]
  /\ \A m \in Message : Exists(m) => msg[m].sid \in Session

WorldOK ==
  /\ now \in 0 .. MaxTime /\ faults \in 0 .. MaxFault
  /\ chat \in [Session -> Seq(Entry)]

\* An actor at work has a session, and one that writes a single message has
\* that message.
LocalsOK ==
  /\ pc \in [Actor -> {"idle"} \cup ReviewPC \cup SendNowPC \cup WorkerPC]
  /\ \A h \in Handler : pc[h] \in {"idle"} \cup ReviewPC \cup SendNowPC
  /\ \A w \in Worker : pc[w] \in {"idle"} \cup WorkerPC
  /\ cur \in [Actor -> Session \cup {None}]
  /\ mid \in [Actor -> Message \cup {None}]
  /\ \A a \in Actor : pc[a] # "idle" => cur[a] \in Session
  /\ \A a \in Actor : pc[a] = "idle" => left[a] = {}
  /\ \A a \in Actor : pc[a] \in {"commit", "add", "remove", "edit"}
                        => mid[a] \in Message
  /\ DOMAIN snap = Actor
  /\ \A a \in Actor : /\ DOMAIN snap[a] \subseteq Message
                      /\ \A m \in DOMAIN snap[a] : snap[a][m] \in MessageRow
                      /\ left[a] \subseteq DOMAIN snap[a]
  /\ left \in [Actor -> SUBSET Message]
  /\ result \in [Actor -> Result]
  /\ tally \in [Actor -> SUBSET TerminalState]
  /\ todo \in [Worker -> SUBSET Session]

\* The type invariant of the rows, the conversation and the local state.
TypeOK == RowsOK /\ WorldOK /\ LocalsOK

-----------------------------------------------------------------------------
(* Safety *)

Heard(s) == {chat[s][i].mid : i \in DOMAIN chat[s]}

\* "동시성/재시작 환경에서 메시지를 중복 송신하지 않는다" (send_worker.py:7): no
\* message reaches Telegram twice, through whichever path it is sent.
AtMostOnce ==
  \A s \in Session : \A i, j \in DOMAIN chat[s] :
    chat[s][i].mid = chat[s][j].mid => i = j

\* However many workers, requests, crashes and deletions interleave, the
\* workers deliver a message at most once for every time it was scheduled:
\* the conditional UPDATE lets one of them through (_claim_due_messages,
\* send_worker.py:114).
OncePerSchedule ==
  \A s, t \in Session : \A i \in DOMAIN chat[s], j \in DOMAIN chat[t] :
    /\ chat[s][i].ticket > 0
    /\ chat[s][i].mid = chat[t][j].mid
    /\ chat[s][i].ticket = chat[t][j].ticket
    => s = t /\ i = j

\* A row recorded as sent was accepted by Telegram: neither a failure, nor a
\* crash, nor the other path's stale copy may write 'sent' for a message
\* nobody received (sending.py:177).
SentWasHeard ==
  \A m \in Message : Exists(m) /\ msg[m].status = "sent"
                        => m \in Heard(msg[m].sid)

\* The verdict _finalize_if_complete and send_session_now write agrees with
\* the rows (send_worker.py:265, send_now.py:140): a scheduled session is
\* 'sent' only if every message was, 'failed' only if one failed, and a
\* session sent by hand is 'sent' only if some message was and none is left
\* unanswered.
VerdictHolds ==
  \A s \in Session :
    /\ sess[s].status = "sent" /\ sess[s].start # NoTime =>
         \A m \in RowsOf(s) : msg[m].state = "sent" /\ m \in Heard(s)
    /\ sess[s].status = "failed" /\ sess[s].start # NoTime =>
         /\ \E m \in RowsOf(s) : msg[m].state = "failed"
         /\ \A m \in RowsOf(s) : msg[m].state \in TerminalState
    /\ sess[s].status = "sent" /\ sess[s].start = NoTime =>
         /\ \E m \in RowsOf(s) : msg[m].status = "sent"
         /\ \A m \in RowsOf(s) : msg[m].state \in TerminalState

\* The conversation is heard in the order of its timeline, with gaps where a
\* message failed or was lost in a crash: the scheduled times rise with
\* order_index and a batch is sent in order_index order (scheduling.py:41,
\* send_worker.py:131).
TimelineOrder ==
  \A s \in Session : \A i, j \in DOMAIN chat[s] :
    i < j => msg[chat[s][i].mid].order < msg[chat[s][j].mid].order

-----------------------------------------------------------------------------
(* What a step may never do *)

\* Nothing leaves for a session no reviewer has ever approved, even when
\* approvals, rejections, deletions and both ways of sending interleave.
ApprovedFirst ==
  [][\A s \in Session : chat'[s] # chat[s] => sess[s].approved]_vars

\* "이미 송신된 메시지는 편집할 수 없습니다" (crud.py:222): the text of a
\* message recorded as sent is the text Telegram received.
SentTextIsFinal ==
  \A s \in Session : \A i \in DOMAIN chat[s] :
    LET m == chat[s][i].mid
    IN  msg[m].status = "sent" => msg[m].body = chat[s][i].body

Gate == INSTANCE ReviewGate WITH
          phase <- [s \in Session |->
                      CASE sess[s].status \in {"unused", "pending"} -> "draft"
                        [] sess[s].status \in {"approved", "scheduled", "sending"}
                             -> "released"
                        [] OTHER -> "closed"],
          said <- [s \in Session |-> [i \in DOMAIN chat[s] |-> chat[s][i].mid]]

\* Served one request at a time, the subsystem implements ReviewGate: the
\* review gate cannot be passed, no message is repeated, and a session that
\* was closed stays silent.
KeepsReviewGate == Gate!GateSpec

-----------------------------------------------------------------------------
(* Liveness *)

\* As long as nothing fails, a scheduled session with messages comes to a
\* verdict (send_worker.py:16).
ScheduledFinishes ==
  \A s \in Session :
    (sess[s].status = "scheduled" /\ RowsOf(s) # {})
      ~> sess[s].status \in {"sent", "failed", "deleted"} \/ faults > 0

\* "재시작 안전": after any number of crashes and database errors a worker
\* still comes to every scheduled message, at least to claim it
\* (send_worker.py:26).
DueIsClaimed ==
  \A m \in Message :
    (/\ Exists(m) /\ msg[m].state = "pending" /\ msg[m].at # NoTime
     /\ sess[msg[m].sid].status = "scheduled")
      ~> (msg[m].state # "pending" \/ ~ Exists(m))
=============================================================================
