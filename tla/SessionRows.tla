---------------------------- MODULE SessionRows ----------------------------
(***************************************************************************)
(* The database rows, the Telegram conversation and the request- or        *)
(* task-local state that every part of the distribution (Telegram          *)
(* sending) subsystem reads and writes:                                     *)
(*                                                                         *)
(*   app/models/distribution.py       the two tables                       *)
(*   session_service/_common.py       the editable status                  *)
(*   session_service/sending.py       _deliver_message, _send_payload      *)
(*                                                                         *)
(* ReviewDesk, SendNow and SendWorker extend this module with the actions  *)
(* of one component each; Distribution puts them together.                 *)
(*                                                                         *)
(* One step of an action is what happens between two awaits of the         *)
(* coroutine whose interleaving matters: a query with the decision taken   *)
(* on its result, a commit, a Telegram call.  A database commit is atomic  *)
(* (PostgreSQL, READ COMMITTED); what a coroutine has read before stays in *)
(* its own ORM session (expire_on_commit=False) and may be stale.          *)
(***************************************************************************)
EXTENDS Integers, Sequences, FiniteSets, Functions

CONSTANTS
  Session,    \* ids of distribution_sessions
  Message,    \* ids of distribution_messages
  Handler,    \* HTTP requests that may be open at the same time
  Worker,     \* instances of run_send_worker
  None,       \* no session, no message
  Start,      \* values a reviewer enters for scheduled_start
  Gap,        \* values of send_after_sec
  MaxTime,    \* bound: the clock stops there
  MaxAt,      \* bound: latest scheduled_send_at
  MaxBody,    \* bound: number of edits of one message's text
  MaxFault    \* bound: crashes and database errors in a behaviour

ASSUME SessionRowsAssumption ==
  /\ None \notin Session /\ None \notin Message
  /\ Handler \cap Worker = {}
  /\ Start \subseteq Nat /\ Gap \subseteq Nat
  /\ MaxTime \in Nat /\ MaxAt \in Nat /\ MaxBody \in Nat /\ MaxFault \in Nat

VARIABLES
  \* the database
  sess,       \* [Session -> SessionRow]
  msg,        \* [Message -> MessageRow]
  \* the outside world
  now,        \* now() of the database
  chat,       \* what Telegram has accepted for the session, in that order
  faults,     \* crashes and database errors so far
  \* the local state of the coroutines
  pc,         \* where the coroutine is suspended
  cur,        \* the session it works on
  mid,        \* the message it works on
  snap,       \* its ORM copies of message rows
  left,       \* the messages its sending loop has not come to yet
  result,     \* what _deliver_message returned, not committed yet
  tally,      \* results send_session_now has counted
  todo        \* session ids _poll_once still has to process

dbVars    == <<sess, msg>>
worldVars == <<now, chat, faults>>
localVars == <<pc, cur, mid, snap, left, result, tally, todo>>
vars      == <<dbVars, worldVars, localVars>>

Actor == Handler \cup Worker

NoTime == -1     \* SQL NULL in scheduled_start and scheduled_send_at

SessionStatus == {"unused", "pending", "approved", "scheduled", "rejected",
                  "sending", "sent", "failed", "deleted"}

\* approved remembers that approved_by was set, also after the row is gone.
SessionRow == [status : SessionStatus, start : Start \cup {NoTime},
               approved : BOOLEAN]

Time == 0 .. MaxAt
Body == 0 .. MaxBody

\* status "unused" and "deleted" are ids without a row.  body counts the
\* edits of the text.  ticket is a history field: the number of times the
\* message has been scheduled.
MessageRow ==
  [sid : Session \cup {None}, order : Nat, gap : Gap \cup {0},
   at : Time \cup {NoTime}, body : Body, ticket : Nat,
   status : {"unused", "queued", "sent", "failed", "deleted"},
   state : {"pending", "sending", "sent", "failed"}]

\* One message Telegram accepted: the row, the text as it was sent, and the
\* scheduling it was sent for (0: send_session_now).
Entry == [mid : Message, body : Body, ticket : Nat]

Result == {"sent", "failed", "raised"}

-----------------------------------------------------------------------------

Exists(m) == msg[m].status \notin {"unused", "deleted"}

\* SELECT ... WHERE session_id = s
RowsOf(s) == {m \in Message : Exists(m) /\ msg[m].sid = s}

SessionExists(s) == sess[s].status \notin {"unused", "deleted"}

\* _TERMINAL_MESSAGE_STATES; "skipped" needs a sender outside the session,
\* which neither generation nor add_message can produce.
TerminalState == {"sent", "failed"}

\* The ways ORDER BY order_index can number the rows S from 0.  Equal
\* order_index values come back in any order.
Rankings(S) ==
  {r \in [S -> 0 .. Cardinality(S) - 1] :
     /\ IsInjective(r)
     /\ \A m, n \in S : msg[m].order < msg[n].order => r[m] < r[n]}

SetStatus(s, status) == sess' = [sess EXCEPT ![s].status = status]

NoCopies == [m \in {} |-> m]

\* The coroutine returns or dies: its ORM session and locals are gone.
Return(a) ==
  /\ pc'     = [pc EXCEPT ![a] = "idle"]
  /\ cur'    = [cur EXCEPT ![a] = None]
  /\ mid'    = [mid EXCEPT ![a] = None]
  /\ snap'   = [snap EXCEPT ![a] = NoCopies]
  /\ left'   = [left EXCEPT ![a] = {}]
  /\ result' = [result EXCEPT ![a] = "failed"]
  /\ tally'  = [tally EXCEPT ![a] = {}]

Goto(a, from, to) ==
  /\ pc[a] = from
  /\ pc' = [pc EXCEPT ![a] = to]

-----------------------------------------------------------------------------
(* Sending, shared by send_session_now and the worker *)

\* Both Telegram clients are opened and the targets resolved; any failure
\* goes to the caller's except block.
OpenClients(a, onFailure) ==
  /\ \/ Goto(a, "open", "loop")
     \/ Goto(a, "open", onFailure)
  /\ UNCHANGED <<dbVars, worldVars, cur, mid, snap, left, result, tally, todo>>

\* Mutant: an error from Telegram is swallowed and the message counted as sent.
DeliverSwallows(a, ticketed) ==
  /\ pc[a] = "loop"
  /\ \E m \in left[a] :
       /\ mid'    = [mid EXCEPT ![a] = m]
       /\ left'   = [left EXCEPT ![a] = @ \ {m}]
       /\ result' = [result EXCEPT ![a] = "sent"]
  /\ pc' = [pc EXCEPT ![a] = "commit"]
  /\ UNCHANGED <<dbVars, worldVars, cur, snap, tally, todo>>

\* _deliver_message for the next row of the loop.  Telegram may have accepted
\* the message although the call failed: the attachment went out and its
\* overflow text did not, or the connection broke before the answer.  Errors
\* other than RPCError, OSError and ValueError leave _deliver_message.
Deliver(a, ticketed) ==
  /\ pc[a] = "loop"
  /\ \E m \in left[a], accepted \in BOOLEAN, r \in Result :
       /\ \A n \in left[a] : snap[a][m].order <= snap[a][n].order
       /\ accepted \/ r # "sent"
       /\ LET entry == [mid |-> m, body |-> snap[a][m].body,
                        ticket |-> IF ticketed THEN snap[a][m].ticket ELSE 0]
          IN  chat' = IF accepted
                      THEN [chat EXCEPT ![cur[a]] = Append(@, entry)]
                      ELSE chat
       /\ mid'    = [mid EXCEPT ![a] = m]
       /\ left'   = [left EXCEPT ![a] = @ \ {m}]
       /\ result' = [result EXCEPT ![a] = r]
  /\ pc' = [pc EXCEPT ![a] = "commit"]
  /\ UNCHANGED <<dbVars, now, faults, cur, snap, tally, todo>>

\* The columns _deliver_message and _mark_claimed_failed write.
Recorded(row, r) == [row EXCEPT !.status = r, !.state = r]

\* The commit after _deliver_message.
CommitResult(a) ==
  /\ Goto(a, "commit", "loop")
  /\ result[a] \in TerminalState /\ Exists(mid[a])
  /\ msg' = [msg EXCEPT ![mid[a]] = Recorded(@, result[a])]
  /\ tally' = [tally EXCEPT ![a] = @ \cup {result[a]}]
  /\ mid' = [mid EXCEPT ![a] = None]
  /\ UNCHANGED <<sess, worldVars, cur, snap, left, result, todo>>

\* An error _deliver_message does not catch goes to the caller's except block.
Raise(a, onError) ==
  /\ Goto(a, "commit", onError)
  /\ result[a] = "raised"
  /\ mid' = [mid EXCEPT ![a] = None]
  /\ UNCHANGED <<dbVars, worldVars, cur, snap, left, result, tally, todo>>

\* The row was deleted meanwhile: the flush fails (StaleDataError), and so
\* does the commit of the except block, whose ORM session needs a rollback.
CommitStale(a) ==
  /\ pc[a] = "commit"
  /\ result[a] \in TerminalState /\ ~ Exists(mid[a])
  /\ Return(a)
  /\ UNCHANGED <<dbVars, worldVars, todo>>

-----------------------------------------------------------------------------

RowsInit ==
  /\ sess = [s \in Session |->
               [status |-> "unused", start |-> NoTime, approved |-> FALSE]]
  /\ msg = [m \in Message |->
              [sid |-> None, order |-> 0, gap |-> 0, at |-> NoTime, body |-> 0,
               ticket |-> 0, status |-> "unused", state |-> "pending"]]
  /\ now = 0 /\ faults = 0
  /\ chat = [s \in Session |-> <<>>]
  /\ pc = [a \in Actor |-> "idle"]
  /\ cur = [a \in Actor |-> None]
  /\ mid = [a \in Actor |-> None]
  /\ snap = [a \in Actor |-> NoCopies]
  /\ left = [a \in Actor |-> {}]
  /\ result = [a \in Actor |-> "failed"]
  /\ tally = [a \in Actor |-> {}]
  /\ todo = [w \in Worker |-> {}]
=============================================================================
