------------------------------ MODULE SendNow ------------------------------
(***************************************************************************)
(* send_session_now (session_service/send_now.py): the "send now" button,  *)
(* an HTTP request that sends every message of an approved session and     *)
(* answers when it is done.  A personas lookup that finds nothing is left  *)
(* out: the foreign keys of a session are ON DELETE RESTRICT.              *)
(***************************************************************************)
EXTENDS SessionRows

SendNowPC == {"mark", "open", "loop", "commit", "abort"}

\* Mutant: the status check is missing.
BeginSendNowUnchecked(h, s) ==
  /\ pc[h] = "idle"
  /\ RowsOf(s) # {}
  /\ pc' = [pc EXCEPT ![h] = "mark"]
  /\ cur' = [cur EXCEPT ![h] = s]
  /\ snap' = [snap EXCEPT ![h] = Restrict(msg, RowsOf(s))]
  /\ left' = [left EXCEPT ![h] = {m \in RowsOf(s) : msg[m].status # "sent"}]
  /\ UNCHANGED <<dbVars, worldVars, mid, result, tally, todo>>

\* Reads and checks: the session is approved and has messages.
BeginSendNow(h, s) ==
  /\ pc[h] = "idle"
  /\ sess[s].status = "approved"
  /\ RowsOf(s) # {}
  /\ pc' = [pc EXCEPT ![h] = "mark"]
  /\ cur' = [cur EXCEPT ![h] = s]
  /\ snap' = [snap EXCEPT ![h] = Restrict(msg, RowsOf(s))]
  /\ left' = [left EXCEPT ![h] = {m \in RowsOf(s) : msg[m].status # "sent"}]
  /\ UNCHANGED <<dbVars, worldVars, mid, result, tally, todo>>

\* The commit of status = 'sending'.
MarkSending(h) ==
  /\ Goto(h, "mark", "open")
  /\ SessionExists(cur[h])
  /\ SetStatus(cur[h], "sending")
  /\ UNCHANGED <<msg, worldVars, cur, mid, snap, left, result, tally, todo>>

\* The session's final status: 'sent' also when only a part was sent.
CloseNow(h) ==
  /\ pc[h] = "loop" /\ left[h] = {}
  /\ SessionExists(cur[h])
  /\ SetStatus(cur[h], IF tally[h] = {"failed"} THEN "failed" ELSE "sent")
  /\ Return(h)
  /\ UNCHANGED <<msg, worldVars, todo>>

\* The except block.
AbortNow(h) ==
  /\ pc[h] = "abort"
  /\ SessionExists(cur[h])
  /\ SetStatus(cur[h], "failed")
  /\ Return(h)
  /\ UNCHANGED <<msg, worldVars, todo>>

\* The session row is gone: the commit fails and the request with it.
NowStale(h) ==
  /\ pc[h] \in {"mark", "abort"} \/ (pc[h] = "loop" /\ left[h] = {})
  /\ ~ SessionExists(cur[h])
  /\ Return(h)
  /\ UNCHANGED <<dbVars, worldVars, todo>>

SendNowStep(h) ==
  \/ MarkSending(h)
  \/ OpenClients(h, "abort")
  \/ Deliver(h, FALSE)
  \/ CommitResult(h)
  \/ Raise(h, "abort")
  \/ CommitStale(h)
  \/ CloseNow(h)
  \/ AbortNow(h)
  \/ NowStale(h)

SendNowBegin(h) == \E s \in Session : BeginSendNow(h, s)
=============================================================================
