----------------------------- MODULE SendWorker -----------------------------
(***************************************************************************)
(* The background worker that sends scheduled sessions                     *)
(* (services/distribution/send_worker.py).  main.py starts one; the claim  *)
(* by conditional UPDATE is written for several, so Worker is a set.       *)
(***************************************************************************)
EXTENDS SessionRows

WorkerPC == {"load", "open", "loop", "commit", "fail", "settle", "close"}

\* Mutant: sessions already being sent are not picked up again.
DueScheduledOnly ==
  {s \in Session : /\ sess[s].status = "scheduled"
                   /\ sess[s].start # NoTime /\ sess[s].start <= now}

\* _find_due_session_ids
DueSessions ==
  {s \in Session : /\ sess[s].status \in {"scheduled", "sending"}
                   /\ sess[s].start # NoTime /\ sess[s].start <= now}

Poll(w) ==
  /\ pc[w] = "idle" /\ todo[w] = {}
  /\ DueSessions # {}
  /\ todo' = [todo EXCEPT ![w] = DueSessions]
  /\ UNCHANGED <<dbVars, worldVars, pc, cur, mid, snap, left, result, tally>>

\* Mutants: the WHERE clause without send_state, and with the row claimed
\* before taken for pending again.
ClaimableAnyState(s) ==
  {m \in RowsOf(s) : msg[m].at # NoTime /\ msg[m].at <= now}
ClaimableAgain(s) ==
  {m \in RowsOf(s) : /\ msg[m].state \in {"pending", "sending"}
                     /\ msg[m].at # NoTime /\ msg[m].at <= now}

\* What the WHERE clause of _claim_due_messages selects.
Claimable(s) ==
  {m \in RowsOf(s) : /\ msg[m].state = "pending"
                     /\ msg[m].at # NoTime /\ msg[m].at <= now}

\* The conditional UPDATE of _claim_due_messages, its commit, and the ORM
\* copies it returns.  The status of the session is not looked at again.
Claim(w, s) ==
  /\ pc[w] = "idle" /\ s \in todo[w]
  /\ \A t \in todo[w] : sess[s].start <= sess[t].start
  /\ todo' = [todo EXCEPT ![w] = @ \ {s}]
  /\ cur' = [cur EXCEPT ![w] = s]
  /\ LET claimed == Claimable(s)
     IN  /\ msg' = [m \in Message |->
                      IF m \in claimed
                      THEN [msg[m] EXCEPT !.state = "sending"]
                      ELSE msg[m]]
         /\ snap' = [snap EXCEPT ![w] = [m \in claimed |-> msg'[m]]]
         /\ left' = [left EXCEPT ![w] = claimed]
         /\ pc' = [pc EXCEPT ![w] = IF claimed = {} THEN "settle" ELSE "load"]
  /\ UNCHANGED <<sess, worldVars, mid, result, tally>>

\* _process_session reads the session and moves it to 'sending'.
LoadSession(w) ==
  /\ Goto(w, "load", "open")
  /\ SessionExists(cur[w])
  /\ SetStatus(cur[w], "sending")
  /\ UNCHANGED <<msg, worldVars, cur, mid, snap, left, result, tally, todo>>

EndBatch(w) ==
  /\ Goto(w, "loop", "close")
  /\ left[w] = {}
  /\ UNCHANGED <<dbVars, worldVars, cur, mid, snap, left, result, tally, todo>>

\* _mark_claimed_failed: every claimed row, sent or not.
MarkClaimedFailed(w) ==
  /\ Goto(w, "fail", "close")
  /\ \A m \in DOMAIN snap[w] : Exists(m)
  /\ msg' = [m \in Message |-> IF m \in DOMAIN snap[w]
                               THEN Recorded(msg[m], "failed") ELSE msg[m]]
  /\ left' = [left EXCEPT ![w] = {}]
  /\ UNCHANGED <<sess, worldVars, cur, mid, snap, result, tally, todo>>

\* Mutant: a failed message keeps its session open.
AllSent(s) ==
  /\ RowsOf(s) # {}
  /\ \A m \in RowsOf(s) : msg[m].state = "sent"

AllTerminal(s) ==
  /\ RowsOf(s) # {}
  /\ \A m \in RowsOf(s) : msg[m].state \in TerminalState

\* Mutant: send-now's rule, partial success counts as sent.
VerdictPartial(s) ==
  IF \A m \in RowsOf(s) : msg[m].state = "failed" THEN "failed" ELSE "sent"

Verdict(s) ==
  IF \E m \in RowsOf(s) : msg[m].state = "failed" THEN "failed" ELSE "sent"

\* _finalize_if_complete.  After a batch ("close") the session comes from the
\* identity map, where it is 'sending'; without one ("settle") it is read.
FinalizeIfComplete(w) ==
  /\ pc[w] \in {"settle", "close"}
  /\ LET s == cur[w]
         open == pc[w] = "close" \/ sess[s].status \notin {"sent", "failed"}
     IN  IF SessionExists(s) /\ AllTerminal(s) /\ open
         THEN SetStatus(s, Verdict(s))
         ELSE UNCHANGED sess
  /\ Return(w)
  /\ UNCHANGED <<msg, worldVars, todo>>

\* The session, or a row to be marked failed, was deleted meanwhile: the
\* worker goes on with the next session.
WorkerStale(w) ==
  /\ \/ pc[w] = "load" /\ ~ SessionExists(cur[w])
     \/ pc[w] = "fail" /\ \E m \in DOMAIN snap[w] : ~ Exists(m)
  /\ Return(w)
  /\ UNCHANGED <<dbVars, worldVars, todo>>

WorkerStep(w) ==
  \/ Poll(w)
  \/ \E s \in Session : Claim(w, s)
  \/ LoadSession(w)
  \/ OpenClients(w, "fail")
  \/ Deliver(w, TRUE)
  \/ CommitResult(w)
  \/ Raise(w, "fail")
  \/ CommitStale(w)
  \/ EndBatch(w)
  \/ MarkClaimedFailed(w)
  \/ FinalizeIfComplete(w)
  \/ WorkerStale(w)
=============================================================================
