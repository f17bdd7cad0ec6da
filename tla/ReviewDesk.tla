----------------------------- MODULE ReviewDesk -----------------------------
(***************************************************************************)
(* The review of a generated conversation over HTTP:                       *)
(* session_service/crud.py, session_service/scheduling.py, the delete      *)
(* endpoint of routers/distribution_sessions.py and the rows               *)
(* generation_service.py saves.                                            *)
(*                                                                         *)
(* Every handler first reads and checks (Begin...), then writes and        *)
(* commits.  No row is locked in between, so another request or the worker *)
(* may run between the two steps.  A check that fails answers 404, 409 or  *)
(* 422 and changes nothing, so it is not a step.                           *)
(***************************************************************************)
EXTENDS SessionRows

ReviewPC == {"approve", "reject", "delete", "add", "remove", "edit"}

Begin(h, op, s, m) ==
  /\ pc[h] = "idle"
  /\ pc' = [pc EXCEPT ![h] = op]
  /\ cur' = [cur EXCEPT ![h] = s]
  /\ mid' = [mid EXCEPT ![h] = m]
  /\ UNCHANGED <<dbVars, worldVars, left, result, tally, todo>>

Finish(h, op) ==
  /\ pc[h] = op
  /\ Return(h)
  /\ UNCHANGED <<worldVars, todo>>

-----------------------------------------------------------------------------

\* An id gen_random_uuid() may return.
Fresh(m) ==
  /\ msg[m].status = "unused"
  /\ \A h \in Handler : pc[h] = "add" => mid[h] # m

\* generation_service: a session and its messages in one commit; with no
\* messages this is create_manual_session.
CreateSession(s, S, gap) ==
  /\ sess[s].status = "unused"
  /\ S \subseteq {m \in Message : Fresh(m)}
  /\ SetStatus(s, "pending")
  /\ \E r \in Rankings(S) :
       msg' = [m \in Message |->
                 IF m \in S
                 THEN [msg[m] EXCEPT !.sid = s, !.order = r[m],
                                     !.gap = gap[m], !.status = "queued"]
                 ELSE msg[m]]
  /\ UNCHANGED <<worldVars, localVars>>

-----------------------------------------------------------------------------

BeginApprove(h, s) ==
  /\ sess[s].status = "pending"
  /\ Begin(h, "approve", s, None)
  /\ UNCHANGED snap

\* approve_session without scheduled_start: waits for send-now.
ApproveNow(h) ==
  /\ Finish(h, "approve")
  /\ SessionExists(cur[h])
  /\ sess' = [sess EXCEPT ![cur[h]].status = "approved",
                          ![cur[h]].approved = TRUE]
  /\ UNCHANGED msg

\* Mutant: every message counts from the start of the session.
SchedulesFromStart(S, start) == {[m \in S |-> start + msg[m].gap]}

\* scheduled_send_at of a message: its send_after_sec after the previous one.
Schedules(S, start) ==
  {at \in [S -> Time] :
     \E r \in Rankings(S) : \A m \in S :
       IF r[m] = 0 THEN at[m] = start + msg[m].gap
       ELSE \E p \in S : r[p] = r[m] - 1 /\ at[m] = at[p] + msg[m].gap}

\* approve_session with scheduled_start, schedule_session_messages included.
ApproveAt(h, start) ==
  /\ Finish(h, "approve")
  /\ SessionExists(cur[h])
  /\ sess' = [sess EXCEPT ![cur[h]] = [status |-> "scheduled", start |-> start,
                                       approved |-> TRUE]]
  /\ \E at \in Schedules(RowsOf(cur[h]), start) :
       msg' = [m \in Message |->
                 IF m \in DOMAIN at
                 THEN [msg[m] EXCEPT !.at = at[m], !.state = "pending",
                                     !.ticket = @ + 1]
                 ELSE msg[m]]

\* Mutant: whatever is not closed can be rejected.
BeginRejectOpen(h, s) ==
  /\ sess[s].status \in {"pending", "approved", "scheduled", "sending"}
  /\ Begin(h, "reject", s, None)
  /\ UNCHANGED snap

BeginReject(h, s) ==
  /\ sess[s].status = "pending"
  /\ Begin(h, "reject", s, None)
  /\ UNCHANGED snap

\* Mutant: a status the table does not know.
RejectUnknown(h) ==
  /\ Finish(h, "reject")
  /\ SessionExists(cur[h])
  /\ SetStatus(cur[h], "cancelled")
  /\ UNCHANGED msg

Reject(h) ==
  /\ Finish(h, "reject")
  /\ SessionExists(cur[h])
  /\ SetStatus(cur[h], "rejected")
  /\ UNCHANGED msg

BeginDelete(h, s) ==
  /\ sess[s].status \in {"pending", "rejected", "failed"}
  /\ Begin(h, "delete", s, None)
  /\ UNCHANGED snap

\* ON DELETE CASCADE takes the messages along.
Delete(h) ==
  /\ Finish(h, "delete")
  /\ SessionExists(cur[h])
  /\ SetStatus(cur[h], "deleted")
  /\ LET gone == RowsOf(cur[h])
     IN  msg' = [m \in Message |-> IF m \in gone
                                   THEN [msg[m] EXCEPT !.status = "deleted"]
                                   ELSE msg[m]]

-----------------------------------------------------------------------------

\* add_message reads the session and its messages (m will be the new id) ...
BeginAdd(h, s, m) ==
  /\ sess[s].status = "pending"
  /\ Fresh(m)
  /\ Begin(h, "add", s, m)
  /\ snap' = [snap EXCEPT ![h] = Restrict(msg, RowsOf(s))]

\* ... and inserts at pos, shifting the rows it has read from their old
\* order_index.
Add(h, pos, gap) ==
  /\ Finish(h, "add")
  /\ SessionExists(cur[h])
  /\ pos \in 0 .. Cardinality(DOMAIN snap[h])
  /\ LET shifted == {n \in DOMAIN snap[h] \ {mid[h]} : snap[h][n].order >= pos}
     IN  /\ \A n \in shifted : Exists(n)
         /\ msg' = [n \in Message |->
                      CASE n = mid[h] -> [msg[n] EXCEPT !.sid = cur[h], !.order = pos,
                                                         !.gap = gap, !.status = "queued"]
                        [] n \in shifted -> [msg[n] EXCEPT
                                               !.order = snap[h][n].order + 1]
                        [] OTHER -> msg[n]]
  /\ UNCHANGED sess

BeginRemove(h, m) ==
  /\ Exists(m) /\ sess[msg[m].sid].status = "pending"
  /\ Begin(h, "remove", msg[m].sid, m)
  /\ UNCHANGED snap

\* delete_message: the row goes (if it is gone already, that is a warning),
\* the rest is numbered again from 0.
Remove(h) ==
  /\ Finish(h, "remove")
  /\ LET rest == RowsOf(cur[h]) \ {mid[h]}
     IN  \E r \in Rankings(rest) :
           msg' = [n \in Message |->
                     CASE n = mid[h] -> [msg[n] EXCEPT !.status = "deleted"]
                       [] n \in rest -> [msg[n] EXCEPT !.order = r[n]]
                       [] OTHER -> msg[n]]
  /\ UNCHANGED sess

\* update_message looks at the message only, whatever its session's status.
BeginEdit(h, m) ==
  /\ Exists(m) /\ msg[m].status # "sent"
  /\ Begin(h, "edit", msg[m].sid, m)
  /\ UNCHANGED snap

EditText(h) ==
  /\ Finish(h, "edit")
  /\ Exists(mid[h]) /\ msg[mid[h]].body < MaxBody
  /\ msg' = [msg EXCEPT ![mid[h]].body = @ + 1]
  /\ UNCHANGED sess

\* The new send_after_sec; scheduled_send_at stays what it was.
EditGap(h, gap) ==
  /\ Finish(h, "edit")
  /\ Exists(mid[h])
  /\ msg' = [msg EXCEPT ![mid[h]].gap = gap]
  /\ UNCHANGED sess

\* The row the request wants to write is gone: 500, nothing written.
WriteStale(h) ==
  /\ \/ pc[h] \in {"approve", "reject", "delete", "add"} /\ ~ SessionExists(cur[h])
     \/ pc[h] = "edit" /\ ~ Exists(mid[h])
     \/ pc[h] = "add" /\ \E n \in DOMAIN snap[h] : ~ Exists(n)
  /\ Return(h)
  /\ UNCHANGED <<dbVars, worldVars, todo>>

-----------------------------------------------------------------------------

ReviewStep(h) ==
  \/ ApproveNow(h)
  \/ \E start \in Start : ApproveAt(h, start)
  \/ Reject(h)
  \/ Delete(h)
  \/ \E pos \in 0 .. Cardinality(Message), gap \in Gap : Add(h, pos, gap)
  \/ Remove(h)
  \/ EditText(h)
  \/ \E gap \in Gap : EditGap(h, gap)
  \/ WriteStale(h)

ReviewBegin(h) ==
  \/ \E s \in Session : \/ BeginApprove(h, s)
                        \/ BeginReject(h, s)
                        \/ BeginDelete(h, s)
  \/ \E s \in Session, m \in Message : BeginAdd(h, s, m)
  \/ \E m \in Message : BeginRemove(h, m) \/ BeginEdit(h, m)
=============================================================================
