---------------------- MODULE DistributionSerialProofs ----------------------
(***************************************************************************)
(* What holds of Distribution when requests are served one at a time, with *)
(* any number of sessions and messages, crashes and database errors:       *)
(* AtMostOnce for any number of workers; and with the one worker that      *)
(* main.py starts TimelineOrder, VerdictHolds, and that the subsystem      *)
(* implements ReviewGate.                                                  *)
(*                                                                         *)
(* No row is locked between the check of a request and its commit, so none *)
(* of this holds when two requests overlap: two approvals of a session     *)
(* schedule its messages twice.  ControlInv says what a request has        *)
(* checked and still holds when it commits; OnceInv that a message has one *)
(* ticket, and only if its session was scheduled.                          *)
(***************************************************************************)
EXTENDS DistributionProofs, WellFoundedInduction, SequenceTheorems

OneRequest == \A g, h \in Handler : g = h

\* The session was approved with a scheduled_start.
Planned(s) == sess[s].start # NoTime

-----------------------------------------------------------------------------
(* The control state: what a request has checked still holds when it       *)
(* commits, and a worker only ever works on planned sessions.              *)

SessionsInTurn ==
  \A s \in Session :
    /\ Planned(s) => sess[s].status \in {"scheduled", "sending", "sent", "failed", "deleted"}
    /\ ~ Planned(s) => sess[s].status # "scheduled"

WorkersOnPlanned ==
  \A w \in Worker : /\ \A s \in todo[w] : Planned(s)
                    /\ pc[w] # "idle" => Planned(cur[w])

RequestsInTurn ==
  \A h \in Handler :
    /\ pc[h] \in {"approve", "reject", "add", "remove"} => sess[cur[h]].status = "pending"
    /\ pc[h] = "delete" /\ ~ Planned(cur[h])
         => sess[cur[h]].status \in {"pending", "rejected", "failed"}
    /\ pc[h] = "mark" => sess[cur[h]].status = "approved"
    /\ pc[h] \in {"open", "loop", "commit", "abort"}
         => sess[cur[h]].status = "sending" /\ ~ Planned(cur[h])

ControlInv == SessionsInTurn /\ WorkersOnPlanned /\ RequestsInTurn

-----------------------------------------------------------------------------
(* AtMostOnce *)

\* Nobody has heard of a session that no reviewer has released.
Silent ==
  \A s \in Session : sess[s].status \in {"unused", "pending", "approved", "rejected"}
                       => chat[s] = <<>>

\* A message is scheduled at most once, and only with its session.
RowTickets ==
  \A m \in Message :
    /\ msg[m].status = "unused" => msg[m].ticket = 0
    /\ Exists(m) => msg[m].ticket = IF Planned(msg[m].sid) THEN 1 ELSE 0

ClaimTickets == \A w \in Worker : \A m \in left[w] : snap[w][m].ticket = 1

EntryTickets ==
  \A s \in Session : \A i \in DOMAIN chat[s] : Planned(s) => chat[s][i].ticket = 1

\* What send_session_now has still to send was not heard, and what it has
\* sent was heard once.
NowUnheard == \A h \in Handler : pc[h] \in SendNowPC => left[h] \cap Heard(cur[h]) = {}

NowOnce ==
  \A s \in Session : \A i, j \in DOMAIN chat[s] :
    ~ Planned(s) /\ chat[s][i].mid = chat[s][j].mid => i = j

OnceInv == Silent /\ RowTickets /\ ClaimTickets /\ EntryTickets /\ NowUnheard /\ NowOnce

-----------------------------------------------------------------------------
(* What a step leaves alone *)

OthersKeep(a) ==
  /\ \A b \in Actor \ {a} : /\ pc'[b] = pc[b] /\ cur'[b] = cur[b] /\ mid'[b] = mid[b]
                            /\ snap'[b] = snap[b] /\ left'[b] = left[b]
                            /\ result'[b] = result[b] /\ tally'[b] = tally[b]
  /\ \A w \in Worker \ {a} : todo'[w] = todo[w]

\* A coroutine that returns, and one that goes on.
LEMMA ReturnEffect ==
  ASSUME TypeOK, NEW a \in Actor, Return(a), todo' = todo
  PROVE  /\ OthersKeep(a)
         /\ pc'[a] = "idle" /\ left'[a] = {} /\ tally'[a] = {} /\ DOMAIN snap'[a] = {}
  BY DEF TypeOK, LocalsOK, Return, OthersKeep, NoCopies

LEMMA GoingEffect ==
  ASSUME TypeOK, NEW a \in Actor, NEW to, pc' = [pc EXCEPT ![a] = to],
         cur' = cur \/ \E v : cur' = [cur EXCEPT ![a] = v],
         mid' = mid \/ \E v : mid' = [mid EXCEPT ![a] = v],
         snap' = snap \/ \E v : snap' = [snap EXCEPT ![a] = v],
         left' = left \/ \E v : left' = [left EXCEPT ![a] = v],
         result' = result \/ \E v : result' = [result EXCEPT ![a] = v],
         tally' = tally \/ \E v : tally' = [tally EXCEPT ![a] = v],
         todo' = todo \/ \E v : todo' = [todo EXCEPT ![a] = v]
  PROVE  OthersKeep(a) /\ pc'[a] = to
  <1>1. pc'[a] = to
    BY DEF TypeOK, LocalsOK
  <1>2. ASSUME NEW b \in Actor \ {a}
        PROVE  /\ pc'[b] = pc[b] /\ cur'[b] = cur[b] /\ mid'[b] = mid[b]
               /\ snap'[b] = snap[b] /\ left'[b] = left[b]
               /\ result'[b] = result[b] /\ tally'[b] = tally[b]
    BY DEF TypeOK, LocalsOK
  <1>3. \A w \in Worker \ {a} : todo'[w] = todo[w]
    BY DEF TypeOK, LocalsOK
  <1> QED BY <1>1, <1>2, <1>3 DEF OthersKeep

LEMMA StatusEffect ==
  ASSUME TypeOK, NEW s \in Session, NEW st, SetStatus(s, st)
  PROVE  /\ \A t \in Session \ {s} : sess'[t] = sess[t]
         /\ sess'[s].status = st /\ sess'[s].start = sess[s].start
  BY DEF TypeOK, RowsOK, SessionRow, SetStatus

LEMMA ApproveNowEffect ==
  ASSUME TypeOK, NEW h \in Handler, ApproveNow(h)
  PROVE  /\ pc[h] = "approve" /\ cur[h] \in Session /\ Return(h) /\ UNCHANGED <<msg, chat, todo>>
         /\ \A t \in Session \ {cur[h]} : sess'[t] = sess[t]
         /\ sess'[cur[h]].status = "approved" /\ sess'[cur[h]].start = sess[cur[h]].start
  <1>1. pc[h] = "approve" /\ Return(h) /\ UNCHANGED <<msg, chat, todo>>
    BY DEF ApproveNow, Finish, worldVars
  <1>2. cur[h] \in Session
    BY <1>1, ActorTyped DEF Actor
  <1>3. sess \in [Session -> SessionRow]
    BY DEF TypeOK, RowsOK
  <1>4. /\ \A t \in Session \ {cur[h]} : sess'[t] = sess[t]
        /\ sess'[cur[h]].status = "approved" /\ sess'[cur[h]].start = sess[cur[h]].start
    BY <1>2, <1>3 DEF ApproveNow, SessionRow
  <1> QED BY <1>1, <1>2, <1>4

LEMMA ApproveAtEffect ==
  ASSUME TypeOK, NEW h \in Handler, NEW start \in Start, ApproveAt(h, start)
  PROVE  /\ pc[h] = "approve" /\ cur[h] \in Session /\ Return(h) /\ UNCHANGED <<chat, todo>>
         /\ \A t \in Session \ {cur[h]} : sess'[t] = sess[t]
         /\ sess'[cur[h]].status = "scheduled" /\ sess'[cur[h]].start # NoTime
  <1>1. pc[h] = "approve" /\ Return(h) /\ UNCHANGED <<chat, todo>>
    BY DEF ApproveAt, Finish, worldVars
  <1>2. cur[h] \in Session
    BY <1>1, ActorTyped DEF Actor
  <1>3. sess' = [sess EXCEPT ![cur[h]] = [status |-> "scheduled", start |-> start,
                                          approved |-> TRUE]]
    BY DEF ApproveAt
  <1>4. start # NoTime
    BY SessionRowsAssumption DEF NoTime
  <1> QED BY <1>1, <1>2, <1>3, <1>4 DEF TypeOK, RowsOK

-----------------------------------------------------------------------------
(* ControlInv *)

\* A step that touches no session, after which no request claims more.
LEMMA ControlStays ==
  ASSUME TypeOK, ControlInv, sess' = sess,
         \A w \in Worker : /\ todo'[w] \subseteq todo[w]
                           /\ pc'[w] # "idle" => pc[w] # "idle" /\ cur'[w] = cur[w],
         \A h \in Handler : \/ pc'[h] \in {"idle", "edit"}
                            \/ pc'[h] = pc[h] /\ cur'[h] = cur[h]
                            \/ /\ pc'[h] \in {"loop", "commit", "abort"} /\ cur'[h] = cur[h]
                               /\ pc[h] \in {"open", "loop", "commit"}
  PROVE  ControlInv'
  <1>1. SessionsInTurn'
    BY DEF ControlInv, SessionsInTurn, Planned
  <1>2. WorkersOnPlanned'
    BY DEF ControlInv, WorkersOnPlanned, Planned
  <1>3. RequestsInTurn'
    BY DEF ControlInv, RequestsInTurn, Planned
  <1> QED BY <1>1, <1>2, <1>3 DEF ControlInv

LEMMA ControlReview ==
  ASSUME OneRequest, TypeOK, ControlInv, NEW h \in Handler, ReviewStep(h)
  PROVE  ControlInv'
  <1>a. Return(h) /\ todo' = todo
    BY DEF ReviewStep, ApproveNow, ApproveAt, Reject, Delete, Add, Remove, EditText,
           EditGap, WriteStale, Finish
  <1>b. /\ h \in Actor /\ OthersKeep(h) /\ pc'[h] = "idle"
        /\ \A g \in Handler : g = h
        /\ \A w \in Worker : w \in Actor \ {h}
        /\ pc[h] # "idle" => cur[h] \in Session
    BY <1>a, ReturnEffect, ActorTyped, SessionRowsAssumption DEF OneRequest, Actor
  <1>c. RequestsInTurn'
    BY <1>b DEF RequestsInTurn
  <1>d. ASSUME \A s \in Session : Planned(s) => Planned(s)'
        PROVE  WorkersOnPlanned'
    <2>1. \A w \in Worker : /\ pc'[w] = pc[w] /\ cur'[w] = cur[w] /\ todo'[w] = todo[w]
                            /\ todo[w] \subseteq Session
                            /\ pc[w] # "idle" => cur[w] \in Session
      BY <1>b, ActorTyped DEF OthersKeep, TypeOK, LocalsOK
    <2> QED BY <1>d, <2>1 DEF ControlInv, WorkersOnPlanned
  <1>1. CASE ApproveNow(h)
    <2>1. /\ pc[h] = "approve" /\ cur[h] \in Session
          /\ \A t \in Session \ {cur[h]} : sess'[t] = sess[t]
          /\ sess'[cur[h]].status = "approved" /\ sess'[cur[h]].start = sess[cur[h]].start
      BY <1>1, ApproveNowEffect
    <2>2. sess[cur[h]].status = "pending"
      BY <2>1 DEF ControlInv, RequestsInTurn
    <2>3. \A s \in Session : Planned(s)' <=> Planned(s)
      BY <2>1 DEF Planned
    <2>4. SessionsInTurn'
      BY <2>1, <2>2, <2>3 DEF ControlInv, SessionsInTurn
    <2> QED BY <1>c, <1>d, <2>3, <2>4 DEF ControlInv
  <1>2. ASSUME NEW start \in Start, ApproveAt(h, start) PROVE ControlInv'
    <2>1. /\ cur[h] \in Session
          /\ \A t \in Session \ {cur[h]} : sess'[t] = sess[t]
          /\ sess'[cur[h]].status = "scheduled" /\ sess'[cur[h]].start # NoTime
      BY <1>2, ApproveAtEffect
    <2>2. \A s \in Session : Planned(s) => Planned(s)'
      BY <2>1 DEF Planned
    <2>3. SessionsInTurn'
      BY <2>1 DEF ControlInv, SessionsInTurn, Planned
    <2> QED BY <1>c, <1>d, <2>2, <2>3 DEF ControlInv
  <1>3. ASSUME NEW st \in {"rejected", "deleted"}, cur[h] \in Session, SetStatus(cur[h], st),
               st = "rejected" => ~ Planned(cur[h])
        PROVE  ControlInv'
    <2>1. /\ \A t \in Session \ {cur[h]} : sess'[t] = sess[t]
          /\ sess'[cur[h]].status = st /\ sess'[cur[h]].start = sess[cur[h]].start
      BY <1>3, StatusEffect
    <2>2. \A s \in Session : Planned(s)' <=> Planned(s)
      BY <2>1 DEF Planned
    <2>3. SessionsInTurn'
      BY <1>3, <2>1, <2>2 DEF ControlInv, SessionsInTurn
    <2> QED BY <1>c, <1>d, <2>2, <2>3 DEF ControlInv
  <1>4. CASE Reject(h)
    <2>1. cur[h] \in Session /\ sess[cur[h]].status = "pending"
      BY <1>b, <1>4 DEF Reject, Finish, ControlInv, RequestsInTurn
    <2>2. ~ Planned(cur[h])
      BY <2>1 DEF ControlInv, SessionsInTurn
    <2> QED BY <1>3, <1>4, <2>1, <2>2 DEF Reject
  <1>5. CASE Delete(h)
    BY <1>b, <1>3, <1>5 DEF Delete, Finish
  <1>6. CASE sess' = sess
    BY <1>6, <1>b, ControlStays DEF OthersKeep
  <1> QED BY <1>1, <1>2, <1>4, <1>5, <1>6
          DEF ReviewStep, Add, Remove, EditText, EditGap, WriteStale, dbVars

LEMMA ControlBegin ==
  ASSUME OneRequest, TypeOK, ControlInv, NEW h \in Handler, HandlerBegin(h)
  PROVE  ControlInv'
  <1>a. /\ h \in Actor /\ sess' = sess /\ todo' = todo
        /\ \A g \in Handler : g = h
        /\ \A w \in Worker : w \in Actor \ {h}
    BY SessionRowsAssumption
    DEF OneRequest, Actor, HandlerBegin, ReviewBegin, SendNowBegin, BeginApprove, BeginReject,
        BeginDelete, BeginAdd, BeginRemove, BeginEdit, BeginSendNow, Begin, dbVars
  <1>b. /\ \A w \in Worker : pc'[w] = pc[w] /\ cur'[w] = cur[w]
        /\ \/ pc'[h] = "edit"
           \/ /\ pc'[h] \in {"approve", "reject", "add", "remove"}
              /\ sess[cur'[h]].status = "pending"
           \/ pc'[h] = "delete" /\ sess[cur'[h]].status \in {"pending", "rejected", "failed"}
           \/ pc'[h] = "mark" /\ sess[cur'[h]].status = "approved"
    BY <1>a
    DEF HandlerBegin, ReviewBegin, SendNowBegin, BeginApprove, BeginReject, BeginDelete,
        BeginAdd, BeginRemove, BeginEdit, BeginSendNow, Begin, TypeOK, LocalsOK
  <1>1. SessionsInTurn'
    BY <1>a DEF ControlInv, SessionsInTurn, Planned
  <1>2. WorkersOnPlanned'
    BY <1>a, <1>b DEF ControlInv, WorkersOnPlanned, Planned
  <1>3. RequestsInTurn'
    BY <1>a, <1>b DEF RequestsInTurn
  <1> QED BY <1>1, <1>2, <1>3 DEF ControlInv

\* Every step of send_session_now is of the request's own coroutine; it only
\* writes the status of its session, which was not planned.
LEMMA SendNowEffect ==
  ASSUME TypeOK, NEW h \in Handler, SendNowStep(h)
  PROVE  /\ OthersKeep(h) /\ todo' = todo /\ cur[h] \in Session /\ pc[h] \in SendNowPC
         /\ pc'[h] # "idle" => cur'[h] = cur[h]
         /\ \/ sess' = sess /\ pc[h] # "mark" /\ pc'[h] \in {"idle", "loop", "commit", "abort"}
            \/ sess' = sess /\ pc[h] = "mark" /\ pc'[h] = "idle"
            \/ pc[h] = "mark" /\ SetStatus(cur[h], "sending") /\ pc'[h] = "open"
            \/ \E st \in {"sent", "failed"} :
                 /\ pc[h] \in {"loop", "abort"} /\ SetStatus(cur[h], st) /\ pc'[h] = "idle"
  <1>a. h \in Actor /\ (pc[h] # "idle" => cur[h] \in Session)
    BY ActorTyped DEF Actor
  <1> USE DEF SendNowPC
  <1>1. CASE MarkSending(h)
    BY <1>a, <1>1, GoingEffect DEF MarkSending, Goto
  <1>2. CASE OpenClients(h, "abort")
    BY <1>a, <1>2, GoingEffect DEF OpenClients, Goto, dbVars
  <1>3. CASE Deliver(h, FALSE)
    <2>1. /\ pc[h] = "loop" /\ pc' = [pc EXCEPT ![h] = "commit"]
          /\ UNCHANGED <<sess, cur, snap, tally, todo>>
          /\ \E v : mid' = [mid EXCEPT ![h] = v]
          /\ \E v : left' = [left EXCEPT ![h] = v]
          /\ \E v : result' = [result EXCEPT ![h] = v]
      BY <1>3 DEF Deliver, dbVars
    <2> QED BY <1>a, <2>1, GoingEffect
  <1>4. CASE CommitResult(h)
    BY <1>a, <1>4, GoingEffect DEF CommitResult, Goto
  <1>5. CASE Raise(h, "abort")
    BY <1>a, <1>5, GoingEffect DEF Raise, Goto, dbVars
  <1>6. CASE CommitStale(h) \/ NowStale(h)
    BY <1>a, <1>6, ReturnEffect DEF CommitStale, NowStale, dbVars
  <1>7. CASE CloseNow(h) \/ AbortNow(h)
    BY <1>a, <1>7, ReturnEffect DEF CloseNow, AbortNow
  <1> QED BY <1>1, <1>2, <1>3, <1>4, <1>5, <1>6, <1>7 DEF SendNowStep

LEMMA ControlSendNow ==
  ASSUME OneRequest, TypeOK, ControlInv, NEW h \in Handler, SendNowStep(h)
  PROVE  ControlInv'
  <1>a. /\ OthersKeep(h) /\ todo' = todo /\ cur[h] \in Session /\ pc[h] \in SendNowPC
        /\ pc'[h] # "idle" => cur'[h] = cur[h]
        /\ \/ sess' = sess /\ pc[h] # "mark" /\ pc'[h] \in {"idle", "loop", "commit", "abort"}
           \/ sess' = sess /\ pc[h] = "mark" /\ pc'[h] = "idle"
           \/ pc[h] = "mark" /\ SetStatus(cur[h], "sending") /\ pc'[h] = "open"
           \/ \E st \in {"sent", "failed"} :
                /\ pc[h] \in {"loop", "abort"} /\ SetStatus(cur[h], st) /\ pc'[h] = "idle"
    BY SendNowEffect
  <1>b. /\ \A g \in Handler : g = h
        /\ \A w \in Worker : /\ pc'[w] = pc[w] /\ cur'[w] = cur[w] /\ todo'[w] = todo[w]
                             /\ pc[w] # "idle" => cur[w] \in Session
                             /\ todo[w] \subseteq Session
    BY <1>a, ActorTyped, SessionRowsAssumption DEF OneRequest, Actor, OthersKeep, TypeOK, LocalsOK
  <1>c. ~ Planned(cur[h])
    BY <1>a DEF SendNowPC, ControlInv, RequestsInTurn, SessionsInTurn
  <1>1. ASSUME NEW st \in {"sending", "sent", "failed"}, SetStatus(cur[h], st),
               pc'[h] = "idle" \/ (pc'[h] = "open" /\ st = "sending")
        PROVE  ControlInv'
    <2>1. /\ \A t \in Session \ {cur[h]} : sess'[t] = sess[t]
          /\ sess'[cur[h]].status = st /\ sess'[cur[h]].start = sess[cur[h]].start
      BY <1>a, <1>1, StatusEffect
    <2>2. \A s \in Session : Planned(s)' <=> Planned(s)
      BY <2>1 DEF Planned
    <2>3. SessionsInTurn'
      BY <1>c, <1>1, <2>1, <2>2 DEF ControlInv, SessionsInTurn
    <2>4. WorkersOnPlanned'
      BY <1>b, <2>2 DEF ControlInv, WorkersOnPlanned
    <2>5. RequestsInTurn'
      BY <1>a, <1>b, <1>c, <1>1, <2>1 DEF RequestsInTurn, Planned
    <2> QED BY <2>3, <2>4, <2>5 DEF ControlInv
  <1>2. CASE sess' = sess
    <2>1. SessionsInTurn'
      BY <1>2 DEF ControlInv, SessionsInTurn, Planned
    <2>2. WorkersOnPlanned'
      BY <1>2, <1>b DEF ControlInv, WorkersOnPlanned, Planned
    <2>3. pc'[h] # "idle" => sess[cur[h]].status = "sending" \/ pc'[h] = "open"
      BY <1>a DEF SendNowPC, ControlInv, RequestsInTurn
    <2>4. pc'[h] = "open" => sess'[cur[h]].status = "sending"
      BY <1>a, StatusEffect
    <2>5. RequestsInTurn'
      BY <1>a, <1>b, <1>c, <1>2, <2>3, <2>4 DEF RequestsInTurn, Planned
    <2> QED BY <2>1, <2>2, <2>5 DEF ControlInv
  <1> QED BY <1>a, <1>1, <1>2

\* A worker's step; it only writes the status of the session it works on.
LEMMA WorkerEffect ==
  ASSUME TypeOK, NEW w \in Worker, WorkerStep(w)
  PROVE  /\ OthersKeep(w)
         /\ \/ Poll(w) /\ sess' = sess /\ pc' = pc /\ cur' = cur /\ todo'[w] = DueSessions
            \/ \E s \in Session :
                 /\ Claim(w, s) /\ sess' = sess /\ s \in todo[w] /\ cur'[w] = s
                 /\ todo'[w] = todo[w] \ {s} /\ pc[w] = "idle" /\ pc'[w] \in {"load", "settle"}
            \/ /\ pc[w] \in WorkerPC /\ cur[w] \in Session /\ todo' = todo
               /\ pc'[w] # "idle" => cur'[w] = cur[w]
               /\ \/ /\ sess' = sess
                     /\ \/ pc'[w] = "idle"
                        \/ /\ pc'[w] \in {"loop", "commit", "fail", "close"}
                           /\ pc[w] \in {"open", "loop", "commit", "fail"}
                  \/ pc[w] = "load" /\ SetStatus(cur[w], "sending") /\ pc'[w] = "open"
                  \/ /\ pc[w] \in {"settle", "close"} /\ AllTerminal(cur[w])
                     /\ SetStatus(cur[w], Verdict(cur[w])) /\ pc'[w] = "idle"
                     /\ SessionExists(cur[w])
  <1>a. w \in Actor /\ (pc[w] # "idle" => cur[w] \in Session)
    BY ActorTyped DEF Actor
  <1> USE DEF WorkerPC
  <1>1. CASE Poll(w)
    <2>1. todo'[w] = DueSessions
      BY <1>1 DEF Poll, TypeOK, LocalsOK
    <2>2. OthersKeep(w)
      BY <1>1 DEF Poll, OthersKeep, TypeOK, LocalsOK
    <2> QED BY <1>1, <2>1, <2>2 DEF Poll, dbVars
  <1>2. ASSUME NEW s \in Session, Claim(w, s)
        PROVE  /\ OthersKeep(w) /\ sess' = sess /\ s \in todo[w] /\ cur'[w] = s
               /\ todo'[w] = todo[w] \ {s} /\ pc[w] = "idle" /\ pc'[w] \in {"load", "settle"}
    <2>1. /\ \E to \in {"load", "settle"} : pc' = [pc EXCEPT ![w] = to]
          /\ cur' = [cur EXCEPT ![w] = s] /\ todo' = [todo EXCEPT ![w] = @ \ {s}]
          /\ \E v : snap' = [snap EXCEPT ![w] = v]
          /\ \E v : left' = [left EXCEPT ![w] = v]
          /\ UNCHANGED <<sess, mid, result, tally>> /\ pc[w] = "idle" /\ s \in todo[w]
      BY <1>2 DEF Claim
    <2>2. todo'[w] = todo[w] \ {s} /\ cur'[w] = s
      BY <1>a, <2>1 DEF TypeOK, LocalsOK
    <2>3. OthersKeep(w) /\ pc'[w] \in {"load", "settle"}
      BY <1>a, <2>1, GoingEffect
    <2> QED BY <2>1, <2>2, <2>3
  <1>3. CASE LoadSession(w)
    BY <1>a, <1>3, GoingEffect DEF LoadSession, Goto
  <1>4. CASE OpenClients(w, "fail")
    BY <1>a, <1>4, GoingEffect DEF OpenClients, Goto, dbVars
  <1>5. CASE Deliver(w, TRUE)
    <2>1. /\ pc[w] = "loop" /\ pc' = [pc EXCEPT ![w] = "commit"]
          /\ UNCHANGED <<sess, cur, snap, tally, todo>>
          /\ \E v : mid' = [mid EXCEPT ![w] = v]
          /\ \E v : left' = [left EXCEPT ![w] = v]
          /\ \E v : result' = [result EXCEPT ![w] = v]
      BY <1>5 DEF Deliver, dbVars
    <2> QED BY <1>a, <2>1, GoingEffect
  <1>6. CASE CommitResult(w)
    BY <1>a, <1>6, GoingEffect DEF CommitResult, Goto
  <1>7. CASE Raise(w, "fail")
    BY <1>a, <1>7, GoingEffect DEF Raise, Goto, dbVars
  <1>8. CASE CommitStale(w) \/ WorkerStale(w)
    BY <1>a, <1>8, ReturnEffect DEF CommitStale, WorkerStale, dbVars
  <1>9. CASE EndBatch(w)
    BY <1>a, <1>9, GoingEffect DEF EndBatch, Goto, dbVars
  <1>10. CASE MarkClaimedFailed(w)
    BY <1>a, <1>10, GoingEffect DEF MarkClaimedFailed, Goto
  <1>11. CASE FinalizeIfComplete(w)
    <2>1. pc[w] \in {"settle", "close"} /\ Return(w) /\ todo' = todo
      BY <1>11 DEF FinalizeIfComplete
    <2>2. \/ sess' = sess
          \/ /\ AllTerminal(cur[w]) /\ SetStatus(cur[w], Verdict(cur[w]))
             /\ SessionExists(cur[w])
      BY <1>11 DEF FinalizeIfComplete
    <2> QED BY <1>a, <2>1, <2>2, ReturnEffect
  <1> QED BY <1>1, <1>2, <1>3, <1>4, <1>5, <1>6, <1>7, <1>8, <1>9, <1>10, <1>11 DEF WorkerStep

LEMMA ControlWorker ==
  ASSUME TypeOK, ControlInv, NEW w \in Worker, WorkerStep(w)
  PROVE  ControlInv'
  <1>a. /\ OthersKeep(w)
        /\ \A h \in Handler : /\ pc'[h] = pc[h] /\ cur'[h] = cur[h]
                              /\ pc[h] \in {"approve", "reject", "add", "remove", "delete",
                                            "mark", "open", "loop", "commit", "abort"}
                                   => cur[h] \in Session
        /\ \A v \in Worker : (pc[v] # "idle" => cur[v] \in Session) /\ todo[v] \subseteq Session
    BY WorkerEffect, ActorTyped, SessionRowsAssumption DEF OthersKeep, Actor, TypeOK, LocalsOK
  <1>1. CASE Poll(w) /\ sess' = sess /\ pc' = pc /\ cur' = cur /\ todo'[w] = DueSessions
    BY <1>1, <1>a DEF ControlInv, SessionsInTurn, WorkersOnPlanned, RequestsInTurn, Planned,
                      DueSessions, OthersKeep, Actor
  <1>2. ASSUME NEW s \in Session, sess' = sess, s \in todo[w], cur'[w] = s,
               todo'[w] = todo[w] \ {s}
        PROVE  ControlInv'
    BY <1>2, <1>a DEF ControlInv, SessionsInTurn, WorkersOnPlanned, RequestsInTurn, Planned,
                      OthersKeep, Actor
  <1>3. ASSUME sess' = sess, pc[w] \in WorkerPC, todo' = todo,
               pc'[w] # "idle" => cur'[w] = cur[w]
        PROVE  ControlInv'
    BY <1>3, <1>a DEF ControlInv, SessionsInTurn, WorkersOnPlanned, RequestsInTurn, Planned,
                      OthersKeep, Actor, WorkerPC
  <1>4. ASSUME NEW st \in {"sending", "sent", "failed"}, SetStatus(cur[w], st), pc[w] \in WorkerPC,
               cur[w] \in Session, todo' = todo, pc'[w] # "idle" => cur'[w] = cur[w]
        PROVE  ControlInv'
    <2>1. /\ \A t \in Session \ {cur[w]} : sess'[t] = sess[t]
          /\ sess'[cur[w]].status = st /\ sess'[cur[w]].start = sess[cur[w]].start
      BY <1>4, StatusEffect
    <2>2. Planned(cur[w])
      BY <1>4 DEF WorkerPC, ControlInv, WorkersOnPlanned
    <2>3. \A s \in Session : Planned(s)' <=> Planned(s)
      BY <2>1 DEF Planned
    <2>4. SessionsInTurn'
      BY <1>4, <2>1, <2>2, <2>3 DEF ControlInv, SessionsInTurn
    <2>5. WorkersOnPlanned'
      BY <1>4, <1>a, <2>3 DEF ControlInv, WorkersOnPlanned, OthersKeep, Actor, WorkerPC
    <2>6. RequestsInTurn'
      BY <1>a, <2>1, <2>2 DEF ControlInv, RequestsInTurn, SessionsInTurn, Planned
    <2> QED BY <2>4, <2>5, <2>6 DEF ControlInv
  <1>5. Verdict(cur[w]) \in {"sent", "failed"}
    BY DEF Verdict
  <1> QED BY <1>1, <1>2, <1>3, <1>4, <1>5, WorkerEffect

LEMMA ControlInit == Init => ControlInv
  BY DEF Init, RowsInit, ControlInv, SessionsInTurn, WorkersOnPlanned, RequestsInTurn, Planned,
         Actor

LEMMA ControlNext ==
  ASSUME OneRequest, TypeOK, ControlInv, [Next]_vars
  PROVE  ControlInv'
  <1>1. CASE Generate
    <2>1. /\ UNCHANGED <<pc, cur, todo>>
          /\ \E s \in Session : sess[s].status = "unused" /\ SetStatus(s, "pending")
      BY <1>1 DEF Generate, CreateSession, localVars
    <2>2. PICK s \in Session : sess[s].status = "unused" /\ SetStatus(s, "pending")
      BY <2>1
    <2>3. /\ \A t \in Session \ {s} : sess'[t] = sess[t]
          /\ sess'[s].status = "pending" /\ sess'[s].start = sess[s].start
      BY <2>2, StatusEffect
    <2>4. \A t \in Session : Planned(t)' <=> Planned(t)
      BY <2>3 DEF Planned
    <2>5. \A a \in Actor : pc[a] # "idle" => cur[a] \in Session
      BY ActorTyped
    <2>6. SessionsInTurn'
      BY <2>2, <2>3, <2>4 DEF ControlInv, SessionsInTurn
    <2>7. WorkersOnPlanned'
      BY <2>1, <2>4, <2>5 DEF ControlInv, WorkersOnPlanned, Actor, TypeOK, LocalsOK
    <2>8. RequestsInTurn'
      BY <2>1, <2>2, <2>3, <2>4, <2>5 DEF ControlInv, RequestsInTurn, Actor
    <2> QED BY <2>6, <2>7, <2>8 DEF ControlInv
  <1>2. ASSUME NEW h \in Handler, HandlerBegin(h) \/ HandlerStep(h) PROVE ControlInv'
    BY <1>2, ControlBegin, ControlReview, ControlSendNow DEF HandlerStep
  <1>3. ASSUME NEW w \in Worker, WorkerStep(w) PROVE ControlInv'
    BY <1>3, ControlWorker
  <1>4. ASSUME NEW a \in Actor, DatabaseError(a) PROVE ControlInv'
    <2>1. sess' = sess /\ OthersKeep(a) /\ pc'[a] = "idle" /\ todo' = todo
      BY <1>4, ReturnEffect DEF DatabaseError, dbVars
    <2> QED BY <2>1, ControlStays DEF OthersKeep, Actor
  <1>5. CASE Tick \/ UNCHANGED vars
    BY <1>5, ControlStays DEF Tick, vars, dbVars, localVars
  <1>6. CASE Crash
    BY <1>6, ControlStays DEF Crash, dbVars, Actor
  <1> QED BY <1>1, <1>2, <1>3, <1>4, <1>5, <1>6 DEF Next

-----------------------------------------------------------------------------
(* What a step does to the rows.  The text and the gap of a message matter *)
(* to none of the properties below.                                        *)

SameButOrder(m) ==
  /\ msg'[m].sid = msg[m].sid /\ msg'[m].at = msg[m].at /\ msg'[m].ticket = msg[m].ticket
  /\ msg'[m].status = msg[m].status /\ msg'[m].state = msg[m].state

Same(m) == SameButOrder(m) /\ msg'[m].order = msg[m].order

\* Only the status, or both columns _deliver_message writes.
SameButStatus(m) ==
  /\ msg'[m].sid = msg[m].sid /\ msg'[m].order = msg[m].order /\ msg'[m].at = msg[m].at
  /\ msg'[m].ticket = msg[m].ticket

Inserted(m, s) ==
  /\ msg[m].status = "unused" /\ msg'[m].status = "queued" /\ msg'[m].sid = s
  /\ msg'[m].at = msg[m].at /\ msg'[m].ticket = msg[m].ticket /\ msg'[m].state = msg[m].state

LEMMA SameRow ==
  ASSUME NEW m \in Message, msg'[m] = msg[m]
  PROVE  Same(m)
  BY DEF Same, SameButOrder

LEMMA GenerateEffect ==
  ASSUME TypeOK, Generate
  PROVE  \E s \in Session, S \in SUBSET Message : \E r \in Rankings(S) :
           /\ sess[s].status = "unused" /\ SetStatus(s, "pending")
           /\ UNCHANGED chat /\ UNCHANGED localVars
           /\ \A m \in S : Inserted(m, s) /\ msg'[m].order = r[m]
           /\ \A m \in S, h \in Handler : pc[h] = "add" => mid[h] # m
           /\ \A m \in Message \ S : Same(m)
  <1>0. PICK s \in Session, S \in SUBSET Message :
          \E gap \in [S -> Gap] : CreateSession(s, S, gap)
    BY DEF Generate
  <1>1. PICK gap \in [S -> Gap] : CreateSession(s, S, gap)
    BY <1>0
  <1>2. PICK r \in Rankings(S) :
          msg' = [m \in Message |->
                    IF m \in S
                    THEN [msg[m] EXCEPT !.sid = s, !.order = r[m],
                                        !.gap = gap[m], !.status = "queued"]
                    ELSE msg[m]]
    BY <1>1 DEF CreateSession
  <1>3. ASSUME NEW m \in S
        PROVE  /\ Inserted(m, s) /\ msg'[m].order = r[m]
               /\ \A h \in Handler : pc[h] = "add" => mid[h] # m
    <2>1. msg[m] \in MessageRow /\ Fresh(m)
      BY <1>1, RowsTyped DEF CreateSession
    <2>2. msg'[m] = [msg[m] EXCEPT !.sid = s, !.order = r[m],
                                   !.gap = gap[m], !.status = "queued"]
      BY <1>2
    <2>3. /\ msg'[m].status = "queued" /\ msg'[m].sid = s /\ msg'[m].at = msg[m].at
          /\ msg'[m].ticket = msg[m].ticket /\ msg'[m].state = msg[m].state
          /\ msg'[m].order = r[m]
      BY <2>1, <2>2 DEF MessageRow
    <2> QED BY <2>1, <2>3 DEF Fresh, Inserted
  <1>4. \A m \in Message \ S : Same(m)
    BY <1>2, SameRow
  <1>5. /\ sess[s].status = "unused" /\ SetStatus(s, "pending")
        /\ UNCHANGED chat /\ UNCHANGED localVars
    BY <1>1 DEF CreateSession, worldVars
  <1> QED BY <1>3, <1>4, <1>5

LEMMA AddEffect ==
  ASSUME TypeOK, HeardInv, NEW h \in Handler, NEW pos \in 0 .. Cardinality(Message),
         NEW gap \in Gap, Add(h, pos, gap)
  PROVE  /\ pc[h] = "add" /\ cur[h] \in Session /\ Return(h) /\ UNCHANGED <<sess, chat, todo>>
         /\ mid[h] \in Message /\ Inserted(mid[h], cur[h]) /\ msg'[mid[h]].order = pos
         /\ \A n \in Message \ {mid[h]} :
              /\ SameButOrder(n)
              /\ msg'[n].order = IF n \in DOMAIN snap[h] /\ snap[h][n].order >= pos
                                 THEN snap[h][n].order + 1 ELSE msg[n].order
  <1>a. msg \in [Message -> MessageRow]
    BY RowsTyped
  <1>b. /\ pc[h] = "add" /\ Return(h) /\ UNCHANGED <<sess, chat, todo>>
        /\ cur[h] \in Session /\ mid[h] \in Message
    BY ActorTyped DEF Add, Finish, worldVars, Actor
  <1> DEFINE shifted == {n \in DOMAIN snap[h] \ {mid[h]} : snap[h][n].order >= pos}
  <1>1. msg' = [n \in Message |->
                  CASE n = mid[h] -> [msg[n] EXCEPT !.sid = cur[h], !.order = pos,
                                                     !.gap = gap, !.status = "queued"]
                    [] n \in shifted -> [msg[n] EXCEPT !.order = snap[h][n].order + 1]
                    [] OTHER -> msg[n]]
    BY DEF Add
  <1>2. Inserted(mid[h], cur[h]) /\ msg'[mid[h]].order = pos
    <2>1. PICK n \in Message : n = mid[h]
      BY <1>b
    <2>2. msg'[n] = [msg[n] EXCEPT !.sid = cur[h], !.order = pos,
                                   !.gap = gap, !.status = "queued"]
      BY <1>1, <2>1
    <2>3. msg[n] \in MessageRow /\ msg[n].status = "unused"
      BY <1>a, <1>b, <2>1 DEF HeardInv, Reserved
    <2>4. /\ msg'[n].status = "queued" /\ msg'[n].sid = cur[h] /\ msg'[n].at = msg[n].at
          /\ msg'[n].ticket = msg[n].ticket /\ msg'[n].state = msg[n].state
          /\ msg'[n].order = pos
      BY <2>2, <2>3 DEF MessageRow
    <2> QED BY <2>1, <2>3, <2>4 DEF Inserted
  <1>3. ASSUME NEW n \in Message \ {mid[h]}
        PROVE  /\ SameButOrder(n)
               /\ msg'[n].order = IF n \in DOMAIN snap[h] /\ snap[h][n].order >= pos
                                  THEN snap[h][n].order + 1 ELSE msg[n].order
    <2>1. msg[n] \in MessageRow
      BY <1>a
    <2>2. CASE n \in shifted
      <3>1. msg'[n] = [msg[n] EXCEPT !.order = snap[h][n].order + 1]
        BY <1>1, <2>2
      <3> QED BY <2>1, <2>2, <3>1 DEF MessageRow, SameButOrder
    <2>3. CASE n \notin shifted
      <3>1. msg'[n] = msg[n]
        BY <1>1, <2>3
      <3> QED BY <2>3, <3>1 DEF SameButOrder
    <2> QED BY <2>2, <2>3
  <1> QED BY <1>b, <1>2, <1>3

LEMMA RemoveEffect ==
  ASSUME TypeOK, HeardInv, NEW h \in Handler, Remove(h)
  PROVE  /\ pc[h] = "remove" /\ cur[h] \in Session /\ Return(h) /\ UNCHANGED <<sess, chat, todo>>
         /\ mid[h] \in Message /\ SameButStatus(mid[h]) /\ msg'[mid[h]].status = "deleted"
         /\ msg[mid[h]].status # "unused" /\ msg'[mid[h]].state = msg[mid[h]].state
         /\ \E r \in Rankings(RowsOf(cur[h]) \ {mid[h]}) :
              \A n \in RowsOf(cur[h]) \ {mid[h]} : SameButOrder(n) /\ msg'[n].order = r[n]
         /\ \A n \in Message \ {mid[h]} : n \notin RowsOf(cur[h]) => Same(n)
  <1>a. msg \in [Message -> MessageRow]
    BY RowsTyped
  <1>b. /\ pc[h] = "remove" /\ Return(h) /\ UNCHANGED <<sess, chat, todo>>
        /\ cur[h] \in Session /\ mid[h] \in Message /\ msg[mid[h]].status # "unused"
    BY ActorTyped DEF Remove, Finish, worldVars, Actor, HeardInv, Reserved
  <1> DEFINE rest == RowsOf(cur[h]) \ {mid[h]}
  <1>1. PICK r \in Rankings(rest) :
          msg' = [n \in Message |->
                    CASE n = mid[h] -> [msg[n] EXCEPT !.status = "deleted"]
                      [] n \in rest -> [msg[n] EXCEPT !.order = r[n]]
                      [] OTHER -> msg[n]]
    BY DEF Remove
  <1>2. /\ SameButStatus(mid[h]) /\ msg'[mid[h]].status = "deleted"
        /\ msg'[mid[h]].state = msg[mid[h]].state
    <2>1. PICK n \in Message : n = mid[h]
      BY <1>b
    <2>2. msg'[n] = [msg[n] EXCEPT !.status = "deleted"] /\ msg[n] \in MessageRow
      BY <1>a, <1>1, <2>1
    <2>3. SameButStatus(n) /\ msg'[n].status = "deleted" /\ msg'[n].state = msg[n].state
      BY <2>2 DEF MessageRow, SameButStatus
    <2> QED BY <2>1, <2>3
  <1>3. ASSUME NEW n \in rest PROVE SameButOrder(n) /\ msg'[n].order = r[n]
    <2>1. n \in Message /\ n # mid[h] /\ msg[n] \in MessageRow
      BY <1>a DEF RowsOf
    <2>2. msg'[n] = [msg[n] EXCEPT !.order = r[n]]
      BY <1>1, <2>1
    <2> QED BY <2>1, <2>2 DEF MessageRow, SameButOrder
  <1>4. \A n \in Message \ {mid[h]} : n \notin rest => Same(n)
    BY <1>1, SameRow
  <1> QED BY <1>b, <1>1, <1>2, <1>3, <1>4

LEMMA DeleteEffect ==
  ASSUME TypeOK, NEW h \in Handler, Delete(h)
  PROVE  /\ pc[h] = "delete" /\ cur[h] \in Session /\ Return(h) /\ UNCHANGED <<chat, todo>>
         /\ SetStatus(cur[h], "deleted")
         /\ \A m \in RowsOf(cur[h]) : /\ SameButStatus(m) /\ msg'[m].status = "deleted"
                                      /\ msg'[m].state = msg[m].state
         /\ \A m \in Message \ RowsOf(cur[h]) : Same(m)
  <1>a. msg \in [Message -> MessageRow]
    BY RowsTyped
  <1>b. /\ pc[h] = "delete" /\ Return(h) /\ UNCHANGED <<chat, todo>>
        /\ cur[h] \in Session /\ SetStatus(cur[h], "deleted")
    BY ActorTyped DEF Delete, Finish, worldVars, Actor
  <1> DEFINE gone == RowsOf(cur[h])
  <1>1. msg' = [m \in Message |-> IF m \in gone THEN [msg[m] EXCEPT !.status = "deleted"]
                                                ELSE msg[m]]
    BY DEF Delete
  <1>2. ASSUME NEW m \in gone
        PROVE  /\ SameButStatus(m) /\ msg'[m].status = "deleted"
               /\ msg'[m].state = msg[m].state
    <2>1. msg[m] \in MessageRow /\ m \in Message
      BY <1>a DEF RowsOf
    <2>2. msg'[m] = [msg[m] EXCEPT !.status = "deleted"]
      BY <1>1, <2>1
    <2> QED BY <2>1, <2>2 DEF MessageRow, SameButStatus
  <1>3. \A m \in Message \ gone : Same(m)
    BY <1>1, SameRow
  <1> QED BY <1>b, <1>2, <1>3

LEMMA ApproveAtRows ==
  ASSUME TypeOK, NEW h \in Handler, NEW start \in Start, ApproveAt(h, start)
  PROVE  /\ \E at \in Schedules(RowsOf(cur[h]), start) :
              \A m \in RowsOf(cur[h]) :
                /\ msg'[m].at = at[m] /\ msg'[m].state = "pending"
                /\ msg'[m].ticket = msg[m].ticket + 1 /\ msg'[m].status = msg[m].status
                /\ msg'[m].sid = msg[m].sid /\ msg'[m].order = msg[m].order
         /\ \A m \in Message \ RowsOf(cur[h]) : Same(m)
  <1>a. msg \in [Message -> MessageRow]
    BY RowsTyped
  <1>1. PICK at \in Schedules(RowsOf(cur[h]), start) :
          msg' = [m \in Message |->
                    IF m \in DOMAIN at
                    THEN [msg[m] EXCEPT !.at = at[m], !.state = "pending",
                                        !.ticket = @ + 1]
                    ELSE msg[m]]
    BY DEF ApproveAt
  <1>2. DOMAIN at = RowsOf(cur[h])
    BY DEF Schedules
  <1>3. ASSUME NEW m \in RowsOf(cur[h])
        PROVE  /\ msg'[m].at = at[m] /\ msg'[m].state = "pending"
               /\ msg'[m].ticket = msg[m].ticket + 1 /\ msg'[m].status = msg[m].status
               /\ msg'[m].sid = msg[m].sid /\ msg'[m].order = msg[m].order
    <2>1. msg[m] \in MessageRow /\ m \in Message
      BY <1>a DEF RowsOf
    <2>2. msg'[m] = [msg[m] EXCEPT !.at = at[m], !.state = "pending", !.ticket = @ + 1]
      BY <1>1, <1>2, <2>1
    <2> QED BY <2>1, <2>2 DEF MessageRow
  <1>4. \A m \in Message \ RowsOf(cur[h]) : Same(m)
    BY <1>1, <1>2, SameRow
  <1> QED BY <1>3, <1>4

LEMMA EditEffect ==
  ASSUME TypeOK, NEW h \in Handler, EditText(h) \/ \E gap \in Gap : EditGap(h, gap)
  PROVE  /\ pc[h] = "edit" /\ Return(h) /\ UNCHANGED <<sess, chat, todo>>
         /\ \A m \in Message : Same(m)
  <1>a. msg \in [Message -> MessageRow] /\ (pc[h] = "edit" => mid[h] \in Message)
    BY RowsTyped, ActorTyped DEF Actor
  <1>b. pc[h] = "edit" /\ Return(h) /\ UNCHANGED <<sess, chat, todo>>
    BY DEF EditText, EditGap, Finish, worldVars
  <1>1. ASSUME NEW m \in Message
        PROVE  \/ msg'[m] = msg[m]
               \/ \E v : msg'[m] = [msg[m] EXCEPT !.body = v]
               \/ \E v : msg'[m] = [msg[m] EXCEPT !.gap = v]
    <2>1. CASE EditText(h)
      <3>1. msg' = [msg EXCEPT ![mid[h]] = [@ EXCEPT !.body = msg[mid[h]].body + 1]]
        BY <1>a, <1>b, <2>1 DEF EditText
      <3> QED BY <1>a, <1>b, <3>1
    <2>2. ASSUME NEW gap \in Gap, EditGap(h, gap)
          PROVE  msg'[m] = msg[m] \/ \E v : msg'[m] = [msg[m] EXCEPT !.gap = v]
      <3>1. msg' = [msg EXCEPT ![mid[h]] = [@ EXCEPT !.gap = gap]]
        BY <2>2 DEF EditGap
      <3> QED BY <1>a, <1>b, <3>1
    <2> QED BY <2>1, <2>2
  <1>2. ASSUME NEW m \in Message PROVE Same(m)
    <2>1. msg[m] \in MessageRow
      BY <1>a
    <2> QED BY <1>1, <2>1 DEF MessageRow, Same, SameButOrder
  <1> QED BY <1>b, <1>2

LEMMA ClaimEffect ==
  ASSUME TypeOK, NEW w \in Worker, NEW s \in Session, Claim(w, s)
  PROVE  /\ UNCHANGED <<sess, chat>> /\ left'[w] = Claimable(s) /\ DOMAIN snap'[w] = Claimable(s)
         /\ \A m \in Claimable(s) : /\ SameButStatus(m) /\ msg'[m].status = msg[m].status
                                    /\ msg'[m].state = "sending" /\ snap'[w][m] = msg'[m]
         /\ \A m \in Message \ Claimable(s) : Same(m)
  <1>a. msg \in [Message -> MessageRow]
    BY RowsTyped
  <1> DEFINE claimed == Claimable(s)
  <1>1. /\ msg' = [m \in Message |-> IF m \in claimed THEN [msg[m] EXCEPT !.state = "sending"]
                                                      ELSE msg[m]]
        /\ snap' = [snap EXCEPT ![w] = [m \in claimed |-> msg'[m]]]
        /\ left' = [left EXCEPT ![w] = claimed]
        /\ UNCHANGED <<sess, chat>>
    BY DEF Claim, worldVars
  <1>2. snap'[w] = [m \in claimed |-> msg'[m]] /\ left'[w] = claimed
    BY <1>1 DEF TypeOK, LocalsOK, Actor
  <1>3. ASSUME NEW m \in claimed
        PROVE  SameButStatus(m) /\ msg'[m].status = msg[m].status /\ msg'[m].state = "sending"
    <2>1. msg[m] \in MessageRow /\ m \in Message
      BY <1>a DEF Claimable, RowsOf
    <2>2. msg'[m] = [msg[m] EXCEPT !.state = "sending"]
      BY <1>1, <2>1
    <2> QED BY <2>1, <2>2 DEF MessageRow, SameButStatus
  <1>4. \A m \in Message \ claimed : Same(m)
    BY <1>1, SameRow
  <1>5. DOMAIN snap'[w] = claimed /\ \A m \in claimed : snap'[w][m] = msg'[m]
    BY <1>2
  <1> QED BY <1>1, <1>2, <1>3, <1>4, <1>5

\* The commit after _deliver_message.
LEMMA CommitEffect ==
  ASSUME TypeOK, NEW a \in Actor, CommitResult(a)
  PROVE  /\ pc[a] = "commit" /\ UNCHANGED <<sess, chat, cur, snap, left, todo>>
         /\ mid[a] \in Message /\ Exists(mid[a]) /\ result[a] \in TerminalState
         /\ SameButStatus(mid[a]) /\ msg'[mid[a]].status = result[a]
         /\ msg'[mid[a]].state = result[a]
         /\ tally'[a] = tally[a] \cup {result[a]}
         /\ \A m \in Message \ {mid[a]} : Same(m)
  <1>a. msg \in [Message -> MessageRow]
    BY RowsTyped
  <1>1. /\ pc[a] = "commit" /\ UNCHANGED <<sess, chat, cur, snap, left, todo>>
        /\ Exists(mid[a]) /\ result[a] \in TerminalState
        /\ msg' = [msg EXCEPT ![mid[a]] = Recorded(@, result[a])]
        /\ tally'[a] = tally[a] \cup {result[a]}
    BY DEF CommitResult, Goto, worldVars, TypeOK, LocalsOK
  <1>2. mid[a] \in Message
    BY <1>1, ActorTyped
  <1>3. SameButStatus(mid[a]) /\ msg'[mid[a]].status = result[a] /\ msg'[mid[a]].state = result[a]
    <2>1. msg[mid[a]] \in MessageRow /\ msg'[mid[a]] = Recorded(msg[mid[a]], result[a])
      BY <1>a, <1>1, <1>2
    <2> QED BY <2>1 DEF MessageRow, Recorded, SameButStatus
  <1>4. \A m \in Message \ {mid[a]} : Same(m)
    BY <1>a, <1>1, SameRow
  <1> QED BY <1>1, <1>2, <1>3, <1>4

LEMMA MarkFailedEffect ==
  ASSUME TypeOK, NEW w \in Worker, MarkClaimedFailed(w)
  PROVE  /\ pc[w] = "fail" /\ UNCHANGED <<sess, chat, cur, snap, todo>> /\ left'[w] = {}
         /\ \A m \in DOMAIN snap[w] : /\ SameButStatus(m) /\ msg'[m].status = "failed"
                                      /\ msg'[m].state = "failed" /\ Exists(m)
         /\ \A m \in Message \ DOMAIN snap[w] : Same(m)
  <1>a. msg \in [Message -> MessageRow] /\ DOMAIN snap[w] \subseteq Message
    BY RowsTyped, ActorTyped DEF Actor
  <1>1. /\ pc[w] = "fail" /\ UNCHANGED <<sess, chat, cur, snap, todo>> /\ left'[w] = {}
        /\ \A m \in DOMAIN snap[w] : Exists(m)
        /\ msg' = [m \in Message |-> IF m \in DOMAIN snap[w] THEN Recorded(msg[m], "failed")
                                                             ELSE msg[m]]
    BY DEF MarkClaimedFailed, Goto, worldVars, TypeOK, LocalsOK, Actor
  <1>2. ASSUME NEW m \in DOMAIN snap[w]
        PROVE  SameButStatus(m) /\ msg'[m].status = "failed" /\ msg'[m].state = "failed"
    <2>1. msg[m] \in MessageRow /\ msg'[m] = Recorded(msg[m], "failed")
      BY <1>a, <1>1
    <2> QED BY <2>1 DEF MessageRow, Recorded, SameButStatus
  <1>3. \A m \in Message \ DOMAIN snap[w] : Same(m)
    BY <1>1, SameRow
  <1> QED BY <1>1, <1>2, <1>3

-----------------------------------------------------------------------------
(* OnceInv *)

Unreleased == {"unused", "pending", "approved", "rejected"}

PlansStay == \A s \in Session : Planned(s)' <=> Planned(s)

ReleasedStay == \A s \in Session : sess'[s].status \in Unreleased => sess[s].status \in Unreleased

\* No row is scheduled or comes back; what is inserted is of an unplanned
\* session.
TicketsKeep ==
  \A m \in Message :
    /\ msg'[m].ticket = msg[m].ticket
    /\ msg'[m].status = "unused" => msg[m].status = "unused"
    /\ Exists(m)' => \/ Exists(m) /\ msg'[m].sid = msg[m].sid
                     \/ msg[m].status = "unused" /\ msg'[m].sid \in Session /\ ~ Planned(msg'[m].sid)

\* A request that sends goes on doing so, or starts with a session that
\* nobody has heard of.
NowCalm ==
  \A h \in Handler : pc'[h] \in SendNowPC =>
    \/ pc[h] \in SendNowPC /\ cur'[h] = cur[h] /\ left'[h] \subseteq left[h]
    \/ cur'[h] \in Session /\ chat[cur'[h]] = <<>>

LEMMA OnceCalm ==
  ASSUME TypeOK, TypeOK', OnceInv, chat' = chat, PlansStay, ReleasedStay, TicketsKeep,
         ClaimsShrink, NowCalm
  PROVE  OnceInv'
  <1>1. Silent'
    BY DEF OnceInv, Silent, ReleasedStay, Unreleased
  <1>2. RowTickets'
    <2> SUFFICES ASSUME NEW m \in Message
                 PROVE  /\ msg'[m].status = "unused" => msg'[m].ticket = 0
                        /\ Exists(m)' => msg'[m].ticket = IF Planned(msg[m].sid)' THEN 1 ELSE 0
      BY DEF RowTickets
    <2>1. msg'[m].status = "unused" => msg'[m].ticket = 0
      BY DEF TicketsKeep, OnceInv, RowTickets
    <2>2. ASSUME Exists(m)', Exists(m), msg'[m].sid = msg[m].sid
          PROVE  msg'[m].ticket = IF Planned(msg[m].sid)' THEN 1 ELSE 0
      <3>1. msg[m].sid \in Session
        BY <2>2, SessionOfRow
      <3>2. Planned(msg[m].sid)' <=> Planned(msg[m].sid)
        BY <2>2, <3>1 DEF PlansStay, Planned
      <3> QED BY <2>2, <3>2 DEF TicketsKeep, OnceInv, RowTickets
    <2>3. ASSUME msg[m].status = "unused", msg'[m].sid \in Session, ~ Planned(msg'[m].sid)
          PROVE  msg'[m].ticket = IF Planned(msg[m].sid)' THEN 1 ELSE 0
      <3>1. ~ Planned(msg[m].sid)'
        BY <2>3 DEF PlansStay, Planned
      <3> QED BY <2>3, <3>1 DEF TicketsKeep, OnceInv, RowTickets
    <2> QED BY <2>1, <2>2, <2>3 DEF TicketsKeep
  <1>3. ClaimTickets'
    BY DEF OnceInv, ClaimTickets, ClaimsShrink
  <1>4. EntryTickets'
    BY DEF OnceInv, EntryTickets, PlansStay
  <1>5. NowUnheard'
    <2> SUFFICES ASSUME NEW h \in Handler, pc'[h] \in SendNowPC
                 PROVE  left'[h] \cap Heard(cur[h])' = {}
      BY DEF NowUnheard
    <2>1. Heard(cur[h])' = {chat[cur'[h]][i].mid : i \in DOMAIN chat[cur'[h]]}
      BY DEF Heard
    <2>2. CASE pc[h] \in SendNowPC /\ cur'[h] = cur[h] /\ left'[h] \subseteq left[h]
      BY <2>1, <2>2 DEF OnceInv, NowUnheard, Heard
    <2>3. CASE cur'[h] \in Session /\ chat[cur'[h]] = <<>>
      BY <2>1, <2>3
    <2> QED BY <2>2, <2>3 DEF NowCalm
  <1>6. NowOnce'
    BY DEF OnceInv, NowOnce, PlansStay
  <1> QED BY <1>1, <1>2, <1>3, <1>4, <1>5, <1>6 DEF OnceInv

LEMMA SameTickets ==
  ASSUME \A m \in Message : \/ Same(m) \/ SameButOrder(m)
                            \/ SameButStatus(m) /\ msg[m].status # "unused"
                               /\ (msg'[m].status = "deleted" \/ Exists(m))
                               /\ msg'[m].status # "unused"
                            \/ \E s \in Session : Inserted(m, s) /\ ~ Planned(s)
  PROVE  TicketsKeep
  BY DEF Same, SameButOrder, SameButStatus, Inserted, TicketsKeep, Exists

LEMMA SameMessages ==
  ASSUME msg' = msg
  PROVE  \A m \in Message : Same(m)
  BY SameRow

\* Any status but an unreleased one may be written.
LEMMA StatusReleases ==
  ASSUME TypeOK, NEW s \in Session, NEW st, SetStatus(s, st),
         st \in Unreleased => sess[s].status \in Unreleased
  PROVE  PlansStay /\ ReleasedStay
  <1>1. /\ \A t \in Session \ {s} : sess'[t] = sess[t]
        /\ sess'[s].status = st /\ sess'[s].start = sess[s].start
    BY StatusEffect
  <1> QED BY <1>1 DEF PlansStay, ReleasedStay, Planned

LEMMA SameSessionsCalm ==
  ASSUME sess' = sess
  PROVE  PlansStay /\ ReleasedStay
  BY DEF PlansStay, ReleasedStay, Planned

LEMMA OnceReview ==
  ASSUME OneRequest, TypeOK, TypeOK', HeardInv, ControlInv, OnceInv,
         NEW h \in Handler, ReviewStep(h)
  PROVE  OnceInv'
  <1>a. chat' = chat /\ ClaimsShrink
    BY ReviewMovesOn
  <1>b. h \in Actor /\ \A g \in Handler : g = h
    BY DEF OneRequest, Actor
  <1>c. Return(h) /\ pc'[h] = "idle" /\ OthersKeep(h)
    <2>1. Return(h) /\ todo' = todo
      BY DEF ReviewStep, ApproveNow, ApproveAt, Reject, Delete, Add, Remove, EditText,
             EditGap, WriteStale, Finish
    <2> QED BY <1>b, <2>1, ReturnEffect
  <1>d. NowCalm
    BY <1>b, <1>c DEF NowCalm, SendNowPC
  <1>e. ASSUME PlansStay, ReleasedStay, TicketsKeep PROVE OnceInv'
    BY <1>a, <1>d, <1>e, OnceCalm
  <1>1. CASE ApproveNow(h)
    <2>1. /\ \A t \in Session \ {cur[h]} : sess'[t] = sess[t]
          /\ sess'[cur[h]].status = "approved" /\ sess'[cur[h]].start = sess[cur[h]].start
          /\ sess[cur[h]].status = "pending" /\ msg' = msg
      BY <1>1, ApproveNowEffect DEF ControlInv, RequestsInTurn
    <2>2. PlansStay /\ ReleasedStay
      BY <2>1 DEF PlansStay, ReleasedStay, Planned, Unreleased
    <2> QED BY <1>e, <2>1, <2>2, SameMessages, SameTickets
  <1>2. ASSUME NEW start \in Start, ApproveAt(h, start) PROVE OnceInv'
    <2>1. /\ pc[h] = "approve" /\ cur[h] \in Session
          /\ \A t \in Session \ {cur[h]} : sess'[t] = sess[t]
          /\ sess'[cur[h]].status = "scheduled" /\ sess'[cur[h]].start # NoTime
      BY <1>2, ApproveAtEffect
    <2>2. /\ \A m \in RowsOf(cur[h]) :
               /\ msg'[m].ticket = msg[m].ticket + 1 /\ msg'[m].status = msg[m].status
               /\ msg'[m].sid = msg[m].sid
          /\ \A m \in Message \ RowsOf(cur[h]) : Same(m)
      BY <1>2, ApproveAtRows
    <2>3. sess[cur[h]].status = "pending" /\ ~ Planned(cur[h]) /\ chat[cur[h]] = <<>>
      BY <2>1 DEF ControlInv, RequestsInTurn, SessionsInTurn, OnceInv, Silent
    <2>4. /\ \A t \in Session \ {cur[h]} : Planned(t)' <=> Planned(t)
          /\ \A t \in Session : t = cur[h] => Planned(t)'
      BY <2>1 DEF Planned
    <2>5. Silent'
      BY <1>a, <2>1 DEF OnceInv, Silent
    <2>6. RowTickets'
      <3> SUFFICES ASSUME NEW m \in Message
                   PROVE  /\ msg'[m].status = "unused" => msg'[m].ticket = 0
                          /\ Exists(m)' => msg'[m].ticket = IF Planned(msg[m].sid)' THEN 1 ELSE 0
        BY DEF RowTickets
      <3>1. CASE m \in RowsOf(cur[h])
        <4>1. Exists(m) /\ msg[m].sid = cur[h] /\ msg[m].ticket = 0
          BY <2>3, <3>1 DEF RowsOf, OnceInv, RowTickets
        <4>2. msg'[m].ticket = 1 /\ msg'[m].sid = cur[h] /\ msg'[m].status # "unused"
          BY <2>2, <3>1, <4>1 DEF Exists
        <4>3. Planned(msg[m].sid)'
          BY <2>1, <4>2 DEF Planned
        <4> QED BY <4>2, <4>3
      <3>2. CASE m \notin RowsOf(cur[h])
        <4>1. /\ msg'[m].ticket = msg[m].ticket /\ msg'[m].status = msg[m].status
              /\ msg'[m].sid = msg[m].sid
          BY <2>2, <3>2 DEF Same, SameButOrder
        <4>2. Exists(m)' => Exists(m) /\ msg[m].sid \in Session \ {cur[h]}
          BY <3>2, <4>1, SessionOfRow DEF Exists, RowsOf
        <4>3. Exists(m)' => (Planned(msg[m].sid)' <=> Planned(msg[m].sid))
          BY <2>1, <4>1, <4>2 DEF Planned
        <4> QED BY <4>1, <4>2, <4>3 DEF OnceInv, RowTickets
      <3> QED BY <3>1, <3>2
    <2>7. ClaimTickets'
      BY <1>a DEF OnceInv, ClaimTickets, ClaimsShrink
    <2>8. EntryTickets'
      BY <1>a, <2>3, <2>4 DEF OnceInv, EntryTickets
    <2>9. NowUnheard'
      BY <1>b, <1>c DEF NowUnheard, SendNowPC
    <2>10. NowOnce'
      BY <1>a, <2>4 DEF OnceInv, NowOnce
    <2> QED BY <2>5, <2>6, <2>7, <2>8, <2>9, <2>10 DEF OnceInv
  <1>3. CASE Reject(h)
    <2>1. cur[h] \in Session /\ SetStatus(cur[h], "rejected") /\ msg' = msg
          /\ sess[cur[h]].status = "pending"
      BY <1>3, <1>b, ActorTyped DEF Reject, Finish, ControlInv, RequestsInTurn
    <2>2. PlansStay /\ ReleasedStay
      BY <2>1, StatusReleases DEF Unreleased
    <2> QED BY <1>e, <2>1, <2>2, SameMessages, SameTickets
  <1>4. CASE Delete(h)
    <2>1. /\ cur[h] \in Session /\ SetStatus(cur[h], "deleted")
          /\ \A m \in RowsOf(cur[h]) : SameButStatus(m) /\ msg'[m].status = "deleted"
          /\ \A m \in Message \ RowsOf(cur[h]) : Same(m)
      BY <1>4, DeleteEffect
    <2>2. PlansStay /\ ReleasedStay
      BY <2>1, StatusReleases DEF Unreleased
    <2>3. TicketsKeep
      BY <2>1, RowsOfAreRows, SameTickets
    <2> QED BY <1>e, <2>2, <2>3
  <1>5. ASSUME NEW pos \in 0 .. Cardinality(Message), NEW gap \in Gap, Add(h, pos, gap)
        PROVE  OnceInv'
    <2>1. /\ pc[h] = "add" /\ cur[h] \in Session /\ sess' = sess
          /\ Inserted(mid[h], cur[h])
          /\ \A n \in Message \ {mid[h]} : SameButOrder(n)
      BY <1>5, AddEffect
    <2>2. ~ Planned(cur[h])
      BY <2>1 DEF ControlInv, RequestsInTurn, SessionsInTurn
    <2>3. TicketsKeep
      BY <2>1, <2>2, SameTickets
    <2> QED BY <1>e, <2>1, <2>3, SameSessionsCalm
  <1>6. CASE Remove(h)
    <2>1. /\ sess' = sess /\ SameButStatus(mid[h]) /\ msg'[mid[h]].status = "deleted"
          /\ msg[mid[h]].status # "unused"
          /\ \A n \in Message \ {mid[h]} : SameButOrder(n) \/ Same(n)
      BY <1>6, RemoveEffect
    <2>2. TicketsKeep
      BY <2>1, SameTickets
    <2> QED BY <1>e, <2>1, <2>2, SameSessionsCalm
  <1>7. CASE EditText(h) \/ \E gap \in Gap : EditGap(h, gap)
    BY <1>e, <1>7, EditEffect, SameTickets, SameSessionsCalm
  <1>8. CASE WriteStale(h)
    <2>1. sess' = sess /\ msg' = msg
      BY <1>8 DEF WriteStale, dbVars
    <2> QED BY <1>e, <2>1, SameMessages, SameTickets, SameSessionsCalm
  <1> QED BY <1>1, <1>2, <1>3, <1>4, <1>5, <1>6, <1>7, <1>8 DEF ReviewStep

LEMMA OnceBegin ==
  ASSUME OneRequest, TypeOK, TypeOK', OnceInv, NEW h \in Handler, HandlerBegin(h)
  PROVE  OnceInv'
  <1>a. chat' = chat /\ ClaimsShrink
    BY BeginMovesOn
  <1>b. h \in Actor /\ \A g \in Handler : g = h
    BY DEF OneRequest, Actor
  <1>1. sess' = sess /\ msg' = msg
    BY DEF HandlerBegin, ReviewBegin, SendNowBegin, BeginApprove, BeginReject, BeginDelete,
           BeginAdd, BeginRemove, BeginEdit, BeginSendNow, Begin, dbVars
  <1>2. NowCalm
    <2>1. CASE ReviewBegin(h)
      <3>1. pc'[h] \in ReviewPC
        BY <1>b, <2>1 DEF ReviewBegin, BeginApprove, BeginReject, BeginDelete, BeginAdd,
                          BeginRemove, BeginEdit, Begin, ReviewPC, TypeOK, LocalsOK
      <3> QED BY <1>b, <3>1 DEF NowCalm, ReviewPC, SendNowPC
    <2>2. ASSUME NEW s \in Session, BeginSendNow(h, s) PROVE NowCalm
      <3>1. cur'[h] = s /\ sess[s].status = "approved"
        BY <1>b, <2>2 DEF BeginSendNow, TypeOK, LocalsOK
      <3> QED BY <1>b, <3>1 DEF NowCalm, OnceInv, Silent
    <2> QED BY <2>1, <2>2 DEF HandlerBegin, SendNowBegin
  <1> QED BY <1>a, <1>1, <1>2, SameMessages, SameTickets, SameSessionsCalm, OnceCalm

LEMMA OnceSendNow ==
  ASSUME OneRequest, TypeOK, TypeOK', ControlInv, OnceInv,
         NEW h \in Handler, SendNowStep(h), ~ Deliver(h, FALSE)
  PROVE  OnceInv'
  <1>a. chat' = chat /\ ClaimsShrink
    BY SendNowMovesOn
  <1>b. h \in Actor /\ \A g \in Handler : g = h
    BY DEF OneRequest, Actor
  <1>1. /\ cur[h] \in Session /\ pc[h] \in SendNowPC
        /\ pc'[h] # "idle" => cur'[h] = cur[h]
        /\ \/ sess' = sess
           \/ \E st \in {"sending", "sent", "failed"} : SetStatus(cur[h], st)
    BY SendNowEffect
  <1>2. PlansStay /\ ReleasedStay
    BY <1>1, StatusReleases, SameSessionsCalm DEF Unreleased
  <1>3. TicketsKeep
    <2>1. CASE CommitResult(h)
      <3>1. /\ Exists(mid[h]) /\ result[h] \in TerminalState
            /\ SameButStatus(mid[h]) /\ msg'[mid[h]].status = result[h]
            /\ \A m \in Message \ {mid[h]} : Same(m)
        BY <1>b, <2>1, CommitEffect
      <3> QED BY <3>1, SameTickets DEF Exists, TerminalState
    <2>2. CASE msg' = msg
      BY <2>2, SameMessages, SameTickets
    <2> QED BY <2>1, <2>2
            DEF SendNowStep, MarkSending, OpenClients, Raise, CommitStale, CloseNow, AbortNow,
                NowStale, dbVars
  <1>4. NowCalm
    <2>1. left'[h] \subseteq left[h]
      BY <1>b DEF SendNowStep, MarkSending, OpenClients, CommitResult, Raise, CommitStale,
                  CloseNow, AbortNow, NowStale, Return, TypeOK, LocalsOK
    <2> QED BY <1>b, <1>1, <2>1 DEF NowCalm, SendNowPC
  <1> QED BY <1>a, <1>2, <1>3, <1>4, OnceCalm

\* Workers leave the locals of the requests alone.
LEMMA WorkerNowCalm ==
  ASSUME NEW w \in Worker, OthersKeep(w)
  PROVE  NowCalm
  BY SessionRowsAssumption DEF OthersKeep, NowCalm, Actor

LEMMA OnceWorker ==
  ASSUME TypeOK, TypeOK', ControlInv, OnceInv, NEW w \in Worker, WorkerStep(w),
         ~ Deliver(w, TRUE), \A s \in Session : ~ Claim(w, s)
  PROVE  OnceInv'
  <1>a. chat' = chat /\ ClaimsShrink
    BY WorkerMovesOn
  <1>b. w \in Actor
    BY DEF Actor
  <1>1. PlansStay /\ ReleasedStay /\ NowCalm
    <2>1. /\ OthersKeep(w)
          /\ \/ sess' = sess
             \/ \E st \in {"sending", "sent", "failed"} :
                  cur[w] \in Session /\ SetStatus(cur[w], st)
      BY WorkerEffect DEF Verdict
    <2> QED BY <2>1, WorkerNowCalm, StatusReleases, SameSessionsCalm DEF Unreleased
  <1>2. TicketsKeep
    <2>1. CASE CommitResult(w)
      <3>1. /\ Exists(mid[w]) /\ result[w] \in TerminalState
            /\ SameButStatus(mid[w]) /\ msg'[mid[w]].status = result[w]
            /\ \A m \in Message \ {mid[w]} : Same(m)
        BY <1>b, <2>1, CommitEffect
      <3> QED BY <3>1, SameTickets DEF Exists, TerminalState
    <2>2. CASE MarkClaimedFailed(w)
      <3>1. /\ \A m \in DOMAIN snap[w] : /\ SameButStatus(m) /\ msg'[m].status = "failed"
                                         /\ Exists(m)
            /\ \A m \in Message \ DOMAIN snap[w] : Same(m)
        BY <2>2, MarkFailedEffect
      <3> QED BY <3>1, SameTickets DEF Exists
    <2>3. CASE msg' = msg
      BY <2>3, SameMessages, SameTickets
    <2> QED BY <2>1, <2>2, <2>3
            DEF WorkerStep, Poll, LoadSession, OpenClients, Raise, CommitStale, EndBatch,
                FinalizeIfComplete, WorkerStale, dbVars
  <1> QED BY <1>a, <1>1, <1>2, OnceCalm

\* Whoever claims a message claims its only ticket.
LEMMA OnceClaim ==
  ASSUME TypeOK, TypeOK', ControlInv, OnceInv, NEW w \in Worker, NEW s \in Session, Claim(w, s)
  PROVE  OnceInv'
  <1>1. /\ sess' = sess /\ chat' = chat /\ left'[w] = Claimable(s)
        /\ \A m \in Claimable(s) : /\ SameButStatus(m) /\ msg'[m].status = msg[m].status
                                   /\ snap'[w][m] = msg'[m]
        /\ \A m \in Message \ Claimable(s) : Same(m)
    BY ClaimEffect
  <1>2. \A m \in Claimable(s) : m \in RowsOf(s)
    BY DEF Claimable
  <1>3. WorkerStep(w) /\ s \in todo[w]
    BY DEF WorkerStep, Claim
  <1>4. OthersKeep(w)
    BY <1>3, WorkerEffect
  <1>5. \A m \in Message : /\ msg'[m].ticket = msg[m].ticket /\ msg'[m].status = msg[m].status
                           /\ msg'[m].sid = msg[m].sid
    BY <1>1 DEF Same, SameButOrder, SameButStatus
  <1>6. Silent'
    BY <1>1 DEF OnceInv, Silent
  <1>7. RowTickets'
    BY <1>1, <1>5 DEF OnceInv, RowTickets, Exists, Planned
  <1>8. ClaimTickets'
    <2>1. ASSUME NEW m \in left'[w] PROVE snap'[w][m].ticket = 1
      <3>1. m \in Claimable(s) /\ m \in Message /\ Exists(m) /\ msg[m].sid = s
        BY <1>1, <1>2 DEF RowsOf
      <3>2. msg[m].ticket = 1
        BY <1>3, <3>1 DEF OnceInv, RowTickets, ControlInv, WorkersOnPlanned
      <3> QED BY <1>1, <1>5, <3>1, <3>2
    <2>2. ASSUME NEW v \in Worker, v # w, NEW m \in left'[v] PROVE snap'[v][m].ticket = 1
      BY <1>4, <2>2 DEF OthersKeep, Actor, OnceInv, ClaimTickets
    <2> QED BY <2>1, <2>2 DEF ClaimTickets
  <1>9. EntryTickets'
    BY <1>1 DEF OnceInv, EntryTickets, Planned
  <1>10. NowUnheard'
    <2>1. \A h \in Handler : pc'[h] = pc[h] /\ cur'[h] = cur[h] /\ left'[h] = left[h]
      BY <1>4, SessionRowsAssumption DEF OthersKeep, Actor
    <2> QED BY <1>1, <2>1 DEF OnceInv, NowUnheard, Heard
  <1>11. NowOnce'
    BY <1>1 DEF OnceInv, NowOnce, Planned
  <1> QED BY <1>6, <1>7, <1>8, <1>9, <1>10, <1>11 DEF OnceInv

LEMMA DeliverControl ==
  ASSUME TypeOK, NEW a \in Actor, NEW ticketed \in BOOLEAN, Deliver(a, ticketed)
  PROVE  pc[a] = "loop" /\ pc'[a] = "commit" /\ OthersKeep(a) /\ UNCHANGED <<sess, cur, todo>>
  <1>1. /\ pc[a] = "loop" /\ pc' = [pc EXCEPT ![a] = "commit"]
        /\ UNCHANGED <<sess, cur, snap, tally, todo>>
        /\ \E v : mid' = [mid EXCEPT ![a] = v]
        /\ \E v : left' = [left EXCEPT ![a] = v]
        /\ \E v : result' = [result EXCEPT ![a] = v]
    BY DEF Deliver, dbVars
  <1> QED BY <1>1, GoingEffect

LEMMA OnceDeliver ==
  ASSUME OneRequest, TypeOK, TypeOK', ControlInv, OnceInv, NEW a \in Actor, NEW ticketed \in BOOLEAN,
         Deliver(a, ticketed), IF ticketed THEN a \in Worker ELSE a \in Handler
  PROVE  OnceInv'
  <1>1. msg' = msg /\ snap' = snap /\ cur[a] \in Session
    BY DeliverEffect
  <1>2. PICK m \in left[a] :
          /\ m \in Message
          /\ left' = [left EXCEPT ![a] = @ \ {m}]
          /\ \/ chat' = chat
             \/ \E e \in Entry :
                  /\ e.mid = m
                  /\ e.ticket = IF ticketed THEN snap[a][m].ticket ELSE 0
                  /\ chat' = [chat EXCEPT ![cur[a]] = Append(@, e)]
    BY DeliverEffect
  <1>3. pc[a] = "loop" /\ pc'[a] = "commit" /\ OthersKeep(a) /\ UNCHANGED <<sess, cur, todo>>
    BY DeliverControl
  <1>4. left'[a] = left[a] \ {m}
    BY <1>2 DEF TypeOK, LocalsOK
  <1>5. CASE chat' = chat
    <2>1. ClaimsShrink
      BY <1>1, <1>3, <1>4 DEF ClaimsShrink, OthersKeep, Actor
    <2>2. NowCalm
      BY <1>3, <1>4 DEF NowCalm, OthersKeep, Actor, SendNowPC
    <2> QED BY <1>1, <1>3, <1>5, <2>1, <2>2, SameMessages, SameTickets, SameSessionsCalm,
               OnceCalm
  <1>6. ASSUME NEW e \in Entry, e.mid = m,
               e.ticket = IF ticketed THEN snap[a][m].ticket ELSE 0,
               chat' = [chat EXCEPT ![cur[a]] = Append(@, e)]
        PROVE  OnceInv'
    <2> DEFINE s == cur[a]
    <2>0. s \in Session
      BY <1>1
    <2>a. /\ \A t \in Session \ {s} : chat'[t] = chat[t]
          /\ DOMAIN chat[s] = 1 .. Len(chat[s]) /\ Len(chat[s]) \in Nat
          /\ DOMAIN chat'[s] = 1 .. Len(chat[s]) + 1
          /\ \A i \in DOMAIN chat[s] : chat'[s][i] = chat[s][i]
          /\ chat'[s][Len(chat[s]) + 1] = e
      BY <1>6, <2>0, Appended
    <2>b. /\ ticketed => a \in Worker /\ Planned(s) /\ e.ticket = 1
          /\ ~ ticketed => /\ a \in Handler /\ ~ Planned(s) /\ m \notin Heard(s)
                           /\ left[a] \cap Heard(s) = {}
          /\ sess[s].status \notin Unreleased
      <3>1. CASE ticketed
        BY <1>2, <1>3, <1>6, <2>0, <3>1
        DEF ControlInv, WorkersOnPlanned, SessionsInTurn, OnceInv, ClaimTickets, Unreleased
      <3>2. CASE ~ ticketed
        <4>1. a \in Handler /\ ~ Planned(s) /\ sess[s].status = "sending"
          BY <1>3, <3>2 DEF ControlInv, RequestsInTurn
        <4>2. left[a] \cap Heard(s) = {}
          BY <1>3, <4>1 DEF OnceInv, NowUnheard, SendNowPC
        <4> QED BY <1>2, <3>2, <4>1, <4>2 DEF Unreleased
      <3> QED BY <3>1, <3>2
    <2>c. \A t \in Session : Planned(t)' <=> Planned(t)
      BY <1>3 DEF Planned
    <2> HIDE DEF s
    <2>1. Silent'
      BY <1>3, <2>a, <2>b DEF OnceInv, Silent, Unreleased
    <2>2. RowTickets'
      BY <1>1, <1>3 DEF OnceInv, RowTickets, Exists, Planned
    <2>3. ClaimTickets'
      BY <1>1, <1>3, <1>4 DEF OnceInv, ClaimTickets, OthersKeep, Actor
    <2>4. EntryTickets'
      <3>1. ASSUME NEW i \in DOMAIN chat'[s], Planned(s) PROVE chat'[s][i].ticket = 1
        <4>1. CASE i \in DOMAIN chat[s]
          BY <2>0, <2>a, <3>1, <4>1 DEF OnceInv, EntryTickets
        <4>2. CASE i = Len(chat[s]) + 1
          BY <2>a, <2>b, <3>1, <4>2
        <4> QED BY <2>a, <4>1, <4>2
      <3>2. ASSUME NEW t \in Session, t # s, NEW i \in DOMAIN chat'[t], Planned(t)
            PROVE  chat'[t][i].ticket = 1
        BY <2>a, <3>2 DEF OnceInv, EntryTickets
      <3> QED BY <2>0, <2>c, <3>1, <3>2 DEF EntryTickets
    <2>5. NowUnheard'
      <3> SUFFICES ASSUME NEW h \in Handler, pc'[h] \in SendNowPC
                   PROVE  left'[h] \cap Heard(cur[h])' = {}
        BY DEF NowUnheard
      <3>1. Heard(cur[h])' = {chat'[cur'[h]][i].mid : i \in DOMAIN chat'[cur'[h]]}
        BY DEF Heard
      <3>2. CASE ~ ticketed
        <4>1. h = a /\ cur'[h] = s
          BY <1>3, <2>b, <3>2 DEF OneRequest, s
        <4>2. ASSUME NEW i \in DOMAIN chat'[s] PROVE chat'[s][i].mid \in Heard(s) \cup {m}
          <5>1. CASE i \in DOMAIN chat[s]
            BY <2>a, <5>1 DEF Heard
          <5>2. CASE i = Len(chat[s]) + 1
            BY <1>6, <2>a, <5>2
          <5> QED BY <2>a, <5>1, <5>2
        <4> QED BY <1>4, <2>b, <3>1, <3>2, <4>1, <4>2
      <3>3. CASE ticketed
        <4>1. h # a /\ h \in Actor
          BY <2>b, <3>3, SessionRowsAssumption DEF Actor
        <4>2. pc'[h] = pc[h] /\ cur'[h] = cur[h] /\ left'[h] = left[h]
          BY <1>3, <4>1 DEF OthersKeep
        <4>3. cur[h] \in Session /\ ~ Planned(cur[h])
          BY <4>1, <4>2, ActorTyped DEF SendNowPC, ControlInv, RequestsInTurn, SessionsInTurn
        <4>4. cur[h] # s
          BY <2>b, <3>3, <4>3
        <4>5. Heard(cur[h])' = Heard(cur[h])
          BY <2>a, <3>1, <4>2, <4>3, <4>4 DEF Heard
        <4>6. left[h] \cap Heard(cur[h]) = {}
          BY <4>2 DEF OnceInv, NowUnheard
        <4> QED BY <4>2, <4>5, <4>6
      <3> QED BY <3>2, <3>3
    <2>6. NowOnce'
      <3>1. ASSUME NEW i \in DOMAIN chat'[s], NEW j \in DOMAIN chat'[s], ~ Planned(s),
                   chat'[s][i].mid = chat'[s][j].mid
            PROVE  i = j
        <4>0. m \notin Heard(s)
          BY <2>b, <3>1
        <4>1. \A k \in DOMAIN chat[s] : chat[s][k].mid # m
          BY <4>0 DEF Heard
        <4>2. CASE i \in DOMAIN chat[s] /\ j \in DOMAIN chat[s]
          BY <2>0, <2>a, <3>1, <4>2 DEF OnceInv, NowOnce
        <4>3. CASE ~ (i \in DOMAIN chat[s] /\ j \in DOMAIN chat[s])
          BY <1>6, <2>a, <3>1, <4>1, <4>3
        <4> QED BY <4>2, <4>3
      <3>2. ASSUME NEW t \in Session, t # s, NEW i \in DOMAIN chat'[t], NEW j \in DOMAIN chat'[t],
                   ~ Planned(t), chat'[t][i].mid = chat'[t][j].mid
            PROVE  i = j
        BY <2>a, <3>2 DEF OnceInv, NowOnce
      <3> QED BY <2>0, <2>c, <3>1, <3>2 DEF NowOnce
    <2> QED BY <2>1, <2>2, <2>3, <2>4, <2>5, <2>6 DEF OnceInv
  <1> QED BY <1>2, <1>5, <1>6

LEMMA OnceInit == Init => OnceInv
  BY DEF Init, RowsInit, OnceInv, Silent, RowTickets, ClaimTickets, EntryTickets, NowUnheard,
         NowOnce, Exists, Actor, SendNowPC

LEMMA OnceNext ==
  ASSUME OneRequest, TypeOK, TypeOK', HeardInv, ControlInv, OnceInv, [Next]_vars
  PROVE  OnceInv'
  <1>1. CASE Generate
    <2>1. PICK s \in Session, S \in SUBSET Message :
             /\ sess[s].status = "unused" /\ SetStatus(s, "pending")
             /\ UNCHANGED chat /\ UNCHANGED localVars
             /\ \A m \in S : Inserted(m, s)
             /\ \A m \in Message \ S : Same(m)
      BY <1>1, GenerateEffect
    <2>2. ~ Planned(s)
      BY <2>1 DEF ControlInv, SessionsInTurn
    <2>3. PlansStay /\ ReleasedStay
      BY <2>1, StatusReleases DEF Unreleased
    <2>4. TicketsKeep
      BY <2>1, <2>2, SameTickets
    <2>5. ClaimsShrink /\ NowCalm
      BY <2>1 DEF localVars, ClaimsShrink, NowCalm
    <2> QED BY <2>1, <2>3, <2>4, <2>5, OnceCalm
  <1>2. ASSUME NEW h \in Handler, HandlerBegin(h) \/ HandlerStep(h) PROVE OnceInv'
    <2>1. CASE Deliver(h, FALSE)
      BY <2>1, OnceDeliver DEF Actor
    <2> QED BY <1>2, <2>1, OnceBegin, OnceReview, OnceSendNow DEF HandlerStep
  <1>3. ASSUME NEW w \in Worker, WorkerStep(w) PROVE OnceInv'
    <2>1. CASE Deliver(w, TRUE)
      BY <2>1, OnceDeliver DEF Actor
    <2> QED BY <1>3, <2>1, OnceClaim, OnceWorker
  <1>4. ASSUME sess' = sess, msg' = msg, chat' = chat, ClaimsShrink,
               \A h \in Handler : pc'[h] = "idle" \/ (pc'[h] = pc[h] /\ cur'[h] = cur[h]
                                                               /\ left'[h] = left[h])
        PROVE  OnceInv'
    <2>1. NowCalm
      BY <1>4 DEF NowCalm, SendNowPC
    <2> QED BY <1>4, <2>1, SameMessages, SameTickets, SameSessionsCalm, OnceCalm
  <1>5. ASSUME NEW a \in Actor, DatabaseError(a) PROVE OnceInv'
    <2>1. OthersKeep(a) /\ pc'[a] = "idle"
      BY <1>5, ReturnEffect DEF DatabaseError
    <2>2. ClaimsShrink
      BY <1>5, ReturnKeepsClaims DEF DatabaseError
    <2> QED BY <1>4, <1>5, <2>1, <2>2 DEF DatabaseError, dbVars, OthersKeep, Actor
  <1>6. CASE Tick \/ UNCHANGED vars
    BY <1>4, <1>6 DEF Tick, vars, dbVars, worldVars, localVars, ClaimsShrink
  <1>7. CASE Crash
    BY <1>4, <1>7 DEF Crash, dbVars, ClaimsShrink, Actor
  <1> QED BY <1>1, <1>2, <1>3, <1>5, <1>6, <1>7 DEF Next

LEMMA OnceIsAtMostOnce ==
  ASSUME OncePerSchedule, OnceInv
  PROVE  AtMostOnce
  <1> SUFFICES ASSUME NEW s \in Session, NEW i \in DOMAIN chat[s], NEW j \in DOMAIN chat[s],
                      chat[s][i].mid = chat[s][j].mid
               PROVE  i = j
    BY DEF AtMostOnce
  <1>1. CASE Planned(s)
    <2>1. chat[s][i].ticket = 1 /\ chat[s][j].ticket = 1
      BY <1>1 DEF OnceInv, EntryTickets
    <2> QED BY <2>1 DEF OncePerSchedule
  <1>2. CASE ~ Planned(s)
    BY <1>2 DEF OnceInv, NowOnce
  <1> QED BY <1>1, <1>2

\* Served one request at a time, no message reaches Telegram twice, whichever
\* path sends it and however many workers run ("동시성/재시작 환경에서 메시지를
\* 중복 송신하지 않는다", send_worker.py).
THEOREM SendsAtMostOnce == ASSUME OneRequest PROVE Spec => []AtMostOnce
  <1>1. Init => TypeOK /\ TicketInv /\ HeardInv /\ ControlInv /\ OnceInv
    BY TypeInit, TicketInit, HeardInit, ControlInit, OnceInit
  <1>2. TypeOK /\ TicketInv /\ HeardInv /\ ControlInv /\ OnceInv /\ [Next]_vars
          => (TypeOK /\ TicketInv /\ HeardInv /\ ControlInv /\ OnceInv)'
    BY TypeNext, TicketNext, HeardNext, ControlNext, OnceNext
  <1>3. TicketInv /\ OnceInv => AtMostOnce
    BY OnceIsAtMostOnce DEF TicketInv
  <1> QED BY <1>1, <1>2, <1>3, PTL DEF Spec

-----------------------------------------------------------------------------
(* One worker.  A second one could overtake the first one's batch, mark a  *)
(* session as finished that the first one still sends, or open it again.   *)

OneWorker == \A v, w \in Worker : v = w

-----------------------------------------------------------------------------
(* TurnInv: the session a worker works on stays with it.                  *)

WorkersInTurn ==
  \A w \in Worker :
    /\ \A s \in todo[w] : sess[s].status \in {"scheduled", "sending"} /\ (pc[w] # "idle" => s # cur[w])
    /\ pc[w] \in {"load", "settle"} => sess[cur[w]].status \in {"scheduled", "sending"}
    /\ pc[w] \in {"open", "loop", "commit", "fail", "close"} => sess[cur[w]].status = "sending"

DeletesInTurn ==
  \A h \in Handler : pc[h] = "delete"
                       => sess[cur[h]].status \in {"pending", "rejected", "failed"}

TurnInv == WorkersInTurn /\ DeletesInTurn

-----------------------------------------------------------------------------
(* TimelineOrder *)

\* What was heard is a row of the session, and goes only with the session.
HeardKnown(s) ==
  \A m \in Heard(s) : /\ msg[m].status # "unused" /\ msg[m].sid = s
                      /\ sess[s].status # "deleted" => msg[m].status # "deleted"

NewIsEmpty(s) == sess[s].status = "unused" => RowsOf(s) = {}

OrdersDiffer(s) == \A m, n \in RowsOf(s) : msg[m].order = msg[n].order => m = n

TimesRise(s) ==
  Planned(s) => \A m, n \in RowsOf(s) :
                  msg[m].at # NoTime /\ (msg[m].order <= msg[n].order => msg[m].at <= msg[n].at)

\* What is due and taken comes before what still waits, and nothing that
\* waits was heard.
ClaimedFirst(s) ==
  Planned(s) => \A m, n \in RowsOf(s) : msg[m].state # "pending" /\ msg[n].state = "pending"
                                          => msg[m].order < msg[n].order

HeardClaimed(s) == Planned(s) => \A m \in Heard(s) : msg[m].state # "pending"

HeardInOrder(s) ==
  \A i, j \in DOMAIN chat[s] : i < j => msg[chat[s][i].mid].order < msg[chat[s][j].mid].order

InTimeline(s) ==
  /\ HeardKnown(s) /\ NewIsEmpty(s) /\ OrdersDiffer(s) /\ TimesRise(s) /\ ClaimedFirst(s)
  /\ HeardClaimed(s) /\ HeardInOrder(s)

\* What a sending loop has read is what the rows are, and all that it has
\* still to send comes after what was heard.
SendingPC == SendNowPC \cup WorkerPC

Batch(a) ==
  /\ \A m \in DOMAIN snap[a] : /\ m \in RowsOf(cur[a]) /\ snap[a][m].order = msg[m].order
                               /\ a \in Worker => msg[m].state # "pending"
  /\ \A m \in left[a] : \A n \in Heard(cur[a]) : msg[n].order < msg[m].order

Batches == \A a \in Actor : pc[a] \in SendingPC => Batch(a)

\* And an insert has read the rows it shifts.
Reading(h) ==
  DOMAIN snap[h] = RowsOf(cur[h]) /\ \A n \in DOMAIN snap[h] : snap[h][n].order = msg[n].order

AddReads == \A h \in Handler : pc[h] = "add" => Reading(h)

TimelineInv == (\A s \in Session : InTimeline(s)) /\ Batches /\ AddReads

-----------------------------------------------------------------------------
(* VerdictHolds *)

\* The two columns an answer is written to agree.
SentBoth ==
  \A m \in Message : /\ msg[m].status = "unused" => msg[m].state = "pending"
                     /\ Exists(m) /\ msg[m].state = "sent" => msg[m].status = "sent"

\* What send_session_now has counted is what the rows say, and whatever it
\* has not counted it has still to send.
AtHand(h) == {m \in RowsOf(cur[h]) : m \in left[h] \/ (pc[h] = "commit" /\ m = mid[h])}

Counted(h) ==
  /\ pc[h] \in {"mark", "open", "loop", "commit"} =>
       \A m \in RowsOf(cur[h]) \ AtHand(h) : msg[m].state \in TerminalState
  /\ pc[h] \in {"mark", "open", "loop"} /\ tally[h] = {} => left[h] # {}
  /\ pc[h] = "commit" => mid[h] \notin left[h]
  /\ pc[h] \notin SendNowPC => tally[h] = {}
  /\ "sent" \in tally[h] => \E m \in RowsOf(cur[h]) \ AtHand(h) : msg[m].status = "sent"

Counts == \A h \in Handler : Counted(h)

\* VerdictHolds, one session at a time.
InVerdict(s) ==
  /\ sess[s].status = "sent" /\ Planned(s) =>
       \A m \in RowsOf(s) : msg[m].state = "sent" /\ msg[m].status = "sent"
  /\ sess[s].status = "failed" /\ Planned(s) =>
       /\ \E m \in RowsOf(s) : msg[m].state = "failed"
       /\ \A m \in RowsOf(s) : msg[m].state \in TerminalState
  /\ sess[s].status = "sent" /\ ~ Planned(s) =>
       /\ \E m \in RowsOf(s) : msg[m].status = "sent"
       /\ \A m \in RowsOf(s) : msg[m].state \in TerminalState

VerdictInv == SentBoth /\ Counts /\ \A s \in Session : InVerdict(s)

-----------------------------------------------------------------------------
(* The proof of TurnInv *)

\* No step but the worker's own touches a session that is being sent.
LEMMA TurnStays ==
  ASSUME TypeOK, ControlInv, TurnInv,
         \A w \in Worker : todo'[w] \subseteq todo[w] /\ (pc'[w] = "idle" \/ (pc'[w] = pc[w] /\ cur'[w] = cur[w])),
         \A s \in Session : Planned(s) /\ sess[s].status \in {"scheduled", "sending"}
                              => sess'[s].status = sess[s].status,
         \A h \in Handler : pc'[h] = "delete" => sess'[cur'[h]].status \in {"pending", "rejected", "failed"}
  PROVE  TurnInv'
  <1>1. ASSUME NEW w \in Worker, NEW s \in todo[w]
        PROVE  s \in Session /\ Planned(s) /\ sess[s].status \in {"scheduled", "sending"}
               /\ (pc[w] # "idle" => s # cur[w])
    BY DEF TypeOK, LocalsOK, ControlInv, WorkersOnPlanned, TurnInv, WorkersInTurn
  <1>2. ASSUME NEW w \in Worker, pc[w] # "idle"
        PROVE  /\ cur[w] \in Session /\ Planned(cur[w])
               /\ sess[cur[w]].status \in {"scheduled", "sending"}
               /\ pc[w] \in {"open", "loop", "commit", "fail", "close"}
                    => sess[cur[w]].status = "sending"
    <2>1. pc[w] \in WorkerPC /\ cur[w] \in Session
      BY <1>2 DEF TypeOK, LocalsOK, Actor
    <2> QED BY <1>2, <2>1 DEF ControlInv, WorkersOnPlanned, TurnInv, WorkersInTurn, WorkerPC
  <1>3. WorkersInTurn'
    BY <1>1, <1>2 DEF WorkersInTurn
  <1>4. DeletesInTurn'
    BY DEF DeletesInTurn
  <1> QED BY <1>3, <1>4 DEF TurnInv

LEMMA TurnReview ==
  ASSUME OneRequest, TypeOK, ControlInv, TurnInv, NEW h \in Handler, ReviewStep(h)
  PROVE  TurnInv'
  <1>a. Return(h) /\ todo' = todo
    BY DEF ReviewStep, ApproveNow, ApproveAt, Reject, Delete, Add, Remove, EditText,
           EditGap, WriteStale, Finish
  <1>b. /\ h \in Actor /\ OthersKeep(h) /\ pc'[h] = "idle" /\ \A g \in Handler : g = h
        /\ \A w \in Worker : w \in Actor \ {h}
    BY <1>a, ReturnEffect, SessionRowsAssumption DEF OneRequest, Actor
  <1>1. ASSUME \A s \in Session : Planned(s) /\ sess[s].status \in {"scheduled", "sending"}
                                    => sess'[s].status = sess[s].status
        PROVE  TurnInv'
    BY <1>b, <1>1, TurnStays DEF OthersKeep
  <1>2. ASSUME cur[h] \in Session, sess[cur[h]].status \in {"pending", "rejected", "failed"},
               \A t \in Session \ {cur[h]} : sess'[t] = sess[t]
        PROVE  TurnInv'
    BY <1>1, <1>2
  <1>3. CASE ApproveNow(h)
    BY <1>2, <1>3, ApproveNowEffect DEF ControlInv, RequestsInTurn
  <1>4. ASSUME NEW start \in Start, ApproveAt(h, start) PROVE TurnInv'
    BY <1>2, <1>4, ApproveAtEffect DEF ControlInv, RequestsInTurn
  <1>5. CASE Reject(h) \/ Delete(h)
    <2>1. /\ cur[h] \in Session /\ sess[cur[h]].status \in {"pending", "rejected", "failed"}
          /\ \E st : SetStatus(cur[h], st)
      BY <1>b, <1>5, ActorTyped
      DEF Reject, Delete, Finish, ControlInv, RequestsInTurn, TurnInv, DeletesInTurn
    <2> QED BY <1>2, <2>1, StatusEffect
  <1>6. CASE sess' = sess
    BY <1>1, <1>6
  <1> QED BY <1>3, <1>4, <1>5, <1>6
          DEF ReviewStep, Add, Remove, EditText, EditGap, WriteStale, dbVars

LEMMA TurnBegin ==
  ASSUME OneRequest, TypeOK, ControlInv, TurnInv, NEW h \in Handler, HandlerBegin(h)
  PROVE  TurnInv'
  <1>a. /\ h \in Actor /\ sess' = sess /\ todo' = todo
        /\ \A g \in Handler : g = h
        /\ \A w \in Worker : w \in Actor \ {h}
    BY SessionRowsAssumption
    DEF OneRequest, Actor, HandlerBegin, ReviewBegin, SendNowBegin, BeginApprove, BeginReject,
        BeginDelete, BeginAdd, BeginRemove, BeginEdit, BeginSendNow, Begin, dbVars
  <1>b. /\ \A w \in Worker : pc'[w] = pc[w] /\ cur'[w] = cur[w]
        /\ pc'[h] = "delete" => sess[cur'[h]].status \in {"pending", "rejected", "failed"}
    BY <1>a
    DEF HandlerBegin, ReviewBegin, SendNowBegin, BeginApprove, BeginReject, BeginDelete,
        BeginAdd, BeginRemove, BeginEdit, BeginSendNow, Begin, TypeOK, LocalsOK
  <1> QED BY <1>a, <1>b, TurnStays

LEMMA TurnSendNow ==
  ASSUME OneRequest, TypeOK, ControlInv, TurnInv, NEW h \in Handler, SendNowStep(h)
  PROVE  TurnInv'
  <1>1. /\ OthersKeep(h) /\ cur[h] \in Session /\ pc[h] \in SendNowPC
        /\ sess' = sess \/ \E st \in {"sending", "sent", "failed"} : SetStatus(cur[h], st)
        /\ pc'[h] \in {"idle", "open", "loop", "commit", "abort"}
    BY SendNowEffect
  <1>2. ~ Planned(cur[h])
    BY <1>1 DEF SendNowPC, ControlInv, RequestsInTurn, SessionsInTurn
  <1>3. \A s \in Session : Planned(s) => sess'[s] = sess[s]
    BY <1>1, <1>2, StatusEffect
  <1>4. (\A g \in Handler : g = h) /\ \A w \in Worker : w \in Actor \ {h}
    BY SessionRowsAssumption DEF OneRequest, Actor
  <1> QED BY <1>1, <1>3, <1>4, TurnStays DEF OthersKeep

LEMMA TurnWorker ==
  ASSUME OneWorker, TypeOK, ControlInv, TurnInv, NEW w \in Worker, WorkerStep(w)
  PROVE  TurnInv'
  <1>a. /\ OthersKeep(w) /\ \A v \in Worker : v = w
        /\ \A h \in Handler : /\ pc'[h] = pc[h] /\ cur'[h] = cur[h]
                              /\ pc[h] = "delete" => cur[h] \in Session
        /\ (pc[w] # "idle" => cur[w] \in Session) /\ todo[w] \subseteq Session
    BY WorkerEffect, ActorTyped, SessionRowsAssumption
    DEF OneWorker, OthersKeep, Actor, TypeOK, LocalsOK
  <1>1. CASE Poll(w) /\ sess' = sess /\ pc' = pc /\ cur' = cur /\ todo'[w] = DueSessions
    BY <1>1, <1>a DEF Poll, DueSessions, TurnInv, WorkersInTurn, DeletesInTurn
  <1>2. ASSUME NEW s \in Session, sess' = sess, s \in todo[w], cur'[w] = s,
               todo'[w] = todo[w] \ {s}, pc'[w] \in {"load", "settle"}
        PROVE  TurnInv'
    BY <1>2, <1>a DEF TurnInv, WorkersInTurn, DeletesInTurn
  <1>3. ASSUME sess' = sess, todo' = todo, pc'[w] # "idle" => cur'[w] = cur[w],
               \/ pc'[w] = "idle"
               \/ /\ pc'[w] \in {"loop", "commit", "fail", "close"}
                  /\ pc[w] \in {"open", "loop", "commit", "fail"}
        PROVE  TurnInv'
    BY <1>3, <1>a DEF TurnInv, WorkersInTurn, DeletesInTurn
  <1>4. ASSUME NEW st, SetStatus(cur[w], st), pc[w] \in {"load", "settle", "close"},
               cur[w] \in Session, todo' = todo, pc'[w] # "idle" => cur'[w] = cur[w],
               pc'[w] = "idle" \/ (pc'[w] = "open" /\ st = "sending")
        PROVE  TurnInv'
    <2>1. /\ \A t \in Session \ {cur[w]} : sess'[t] = sess[t]
          /\ sess'[cur[w]].status = st
      BY <1>4, StatusEffect
    <2>2. sess[cur[w]].status \in {"scheduled", "sending"}
      BY <1>4 DEF TurnInv, WorkersInTurn
    <2>3. \A s \in todo[w] : s # cur[w]
      BY <1>4 DEF TurnInv, WorkersInTurn
    <2>4. WorkersInTurn'
      BY <1>a, <1>4, <2>1, <2>3 DEF TurnInv, WorkersInTurn
    <2>5. DeletesInTurn'
      BY <1>a, <2>1, <2>2 DEF TurnInv, DeletesInTurn
    <2> QED BY <2>4, <2>5 DEF TurnInv
  <1> QED BY <1>1, <1>2, <1>3, <1>4, WorkerEffect

LEMMA TurnInit == Init => TurnInv
  BY DEF Init, RowsInit, TurnInv, WorkersInTurn, DeletesInTurn, Actor

LEMMA TurnNext ==
  ASSUME OneRequest, OneWorker, TypeOK, ControlInv, TurnInv, [Next]_vars
  PROVE  TurnInv'
  <1>1. CASE Generate
    <2>1. PICK s \in Session : /\ sess[s].status = "unused" /\ SetStatus(s, "pending")
                               /\ UNCHANGED localVars
      BY <1>1, GenerateEffect
    <2>2. UNCHANGED <<pc, cur, todo>>
      BY <2>1 DEF localVars
    <2>3. /\ \A t \in Session \ {s} : sess'[t] = sess[t]
          /\ sess'[s].status = "pending"
      BY <2>1, StatusEffect
    <2>4. \A h \in Handler : pc[h] = "delete" => cur[h] \in Session
      BY ActorTyped DEF Actor
    <2> QED BY <2>1, <2>2, <2>3, <2>4, TurnStays DEF TurnInv, DeletesInTurn
  <1>2. ASSUME NEW h \in Handler, HandlerBegin(h) \/ HandlerStep(h) PROVE TurnInv'
    BY <1>2, TurnBegin, TurnReview, TurnSendNow DEF HandlerStep
  <1>3. ASSUME NEW w \in Worker, WorkerStep(w) PROVE TurnInv'
    BY <1>3, TurnWorker
  <1>4. ASSUME NEW a \in Actor, DatabaseError(a) PROVE TurnInv'
    <2>1. sess' = sess /\ OthersKeep(a) /\ pc'[a] = "idle" /\ todo' = todo
      BY <1>4, ReturnEffect DEF DatabaseError, dbVars
    <2> QED BY <2>1, TurnStays DEF OthersKeep, Actor, TurnInv, DeletesInTurn
  <1>5. CASE Tick \/ UNCHANGED vars
    BY <1>5, TurnStays DEF Tick, vars, dbVars, localVars, TurnInv, DeletesInTurn
  <1>6. CASE Crash
    BY <1>6, TurnStays DEF Crash, dbVars, Actor
  <1> QED BY <1>1, <1>2, <1>3, <1>4, <1>5, <1>6 DEF Next

-----------------------------------------------------------------------------
(* The proof of TimelineInv *)

\* A row keeps its place in the timeline; only an answer to what was taken
\* is written to it.
RowSteady(m) ==
  /\ msg'[m].sid = msg[m].sid /\ msg'[m].order = msg[m].order /\ msg'[m].at = msg[m].at
  /\ msg'[m].status # "unused"
  /\ Exists(m) => msg'[m].status # "deleted"
  /\ msg[m].status = "deleted" => msg'[m].status = "deleted"

Steady(s) ==
  /\ chat'[s] = chat[s] /\ RowsOf(s)' = RowsOf(s) /\ (Planned(s)' <=> Planned(s))
  /\ sess'[s].status = "unused" => sess[s].status = "unused"
  /\ sess[s].status = "deleted" => sess'[s].status = "deleted"
  /\ \A m \in Message : msg[m].status # "unused" /\ msg[m].sid = s =>
       /\ RowSteady(m)
       /\ Planned(s) => (msg'[m].state = "pending" <=> msg[m].state = "pending")

LEMMA HeardIsMessage ==
  ASSUME TypeOK, NEW s \in Session
  PROVE  Heard(s) \subseteq Message /\ \A i \in DOMAIN chat[s] : chat[s][i].mid \in Heard(s)
  <1>1. chat[s] \in Seq(Entry)
    BY DEF TypeOK, WorldOK
  <1>2. \A i \in DOMAIN chat[s] : chat[s][i] \in Entry
    BY <1>1
  <1> QED BY <1>2 DEF Heard, Entry

LEMMA RowOf ==
  ASSUME NEW s, NEW m
  PROVE  m \in RowsOf(s) <=> m \in Message /\ Exists(m) /\ msg[m].sid = s
  BY DEF RowsOf

LEMMA SteadyInTimeline ==
  ASSUME TypeOK, NEW s \in Session, InTimeline(s), Steady(s)
  PROVE  InTimeline(s)'
  <1>1. Heard(s)' = Heard(s)
    BY DEF Steady, Heard
  <1>2. \A m \in Heard(s) : m \in Message /\ msg[m].status # "unused" /\ msg[m].sid = s
    BY HeardIsMessage DEF InTimeline, HeardKnown
  <1>3. \A m \in RowsOf(s) : m \in Message /\ msg[m].status # "unused" /\ msg[m].sid = s
    BY RowOf DEF Exists
  <1>4. ASSUME NEW m \in Message, msg[m].status # "unused", msg[m].sid = s
        PROVE  /\ RowSteady(m)
               /\ Planned(s) => (msg'[m].state = "pending" <=> msg[m].state = "pending")
    BY <1>4 DEF Steady
  <1>5. HeardKnown(s)'
    <2>1. ASSUME NEW m \in Heard(s)
          PROVE  /\ msg'[m].status # "unused" /\ msg'[m].sid = s
                 /\ sess'[s].status # "deleted" => msg'[m].status # "deleted"
      BY <1>2, <1>4 DEF RowSteady, Steady, InTimeline, HeardKnown, Exists
    <2> QED BY <1>1, <2>1 DEF HeardKnown
  <1>6. NewIsEmpty(s)'
    BY DEF Steady, InTimeline, NewIsEmpty
  <1>7. OrdersDiffer(s)'
    BY <1>3, <1>4 DEF Steady, RowSteady, InTimeline, OrdersDiffer
  <1>8. TimesRise(s)'
    BY <1>3, <1>4 DEF Steady, RowSteady, InTimeline, TimesRise
  <1>9. ClaimedFirst(s)'
    BY <1>3, <1>4 DEF Steady, RowSteady, InTimeline, ClaimedFirst
  <1>10. HeardClaimed(s)'
    BY <1>1, <1>2, <1>4 DEF Steady, InTimeline, HeardClaimed
  <1>11. HeardInOrder(s)'
    <2>1. \A i \in DOMAIN chat[s] : msg'[chat[s][i].mid].order = msg[chat[s][i].mid].order
      BY HeardIsMessage, <1>2, <1>4 DEF RowSteady
    <2>2. chat'[s] = chat[s]
      BY DEF Steady
    <2> QED BY <2>1, <2>2 DEF InTimeline, HeardInOrder
  <1> QED BY <1>5, <1>6, <1>7, <1>8, <1>9, <1>10, <1>11 DEF InTimeline

\* Nobody sends a session that is still being reviewed, or is deleted.
LEMMA SendersElsewhere ==
  ASSUME TypeOK, ControlInv, TurnInv, NEW a \in Actor, pc[a] \in SendingPC
  PROVE  /\ cur[a] \in Session
         /\ sess[cur[a]].status \in {"approved", "scheduled", "sending"}
         /\ Planned(cur[a]) <=> a \in Worker
  <1>1. cur[a] \in Session
    BY ActorTyped DEF SendingPC, SendNowPC, WorkerPC
  <1>2. CASE a \in Handler
    <2>1. pc[a] \in SendNowPC
      BY <1>2 DEF TypeOK, LocalsOK, SendingPC, SendNowPC, WorkerPC, ReviewPC
    <2> QED BY <1>1, <1>2, <2>1, SessionRowsAssumption
            DEF ControlInv, RequestsInTurn, SessionsInTurn, SendNowPC
  <1>3. CASE a \in Worker
    <2>1. pc[a] \in WorkerPC
      BY <1>3 DEF TypeOK, LocalsOK, SendingPC, SendNowPC, WorkerPC
    <2> QED BY <1>1, <1>3, <2>1
            DEF ControlInv, WorkersOnPlanned, TurnInv, WorkersInTurn, WorkerPC
  <1> QED BY <1>1, <1>2, <1>3 DEF Actor

LEMMA BatchSteady ==
  ASSUME TypeOK, ControlInv, TurnInv, TimelineInv, NEW a \in Actor, pc[a] \in SendingPC,
         cur'[a] = cur[a], snap'[a] = snap[a], left'[a] \subseteq left[a],
         \A s \in Session : s = cur[a] => Steady(s)
  PROVE  Batch(a)'
  <1>1. PICK s \in Session : s = cur[a] /\ (Planned(s) <=> a \in Worker)
    BY SendersElsewhere
  <1>2. Steady(s) /\ Batch(a)
    BY <1>1 DEF TimelineInv, Batches
  <1>3. RowsOf(cur[a])' = RowsOf(s) /\ Heard(cur[a])' = Heard(s)
    BY <1>1, <1>2 DEF Steady, RowsOf, Exists, Heard
  <1>4. ASSUME NEW m \in RowsOf(s) \cup Heard(s)
        PROVE  /\ msg'[m].order = msg[m].order
               /\ Planned(s) => (msg'[m].state = "pending" <=> msg[m].state = "pending")
    <2>1. m \in Message /\ msg[m].status # "unused" /\ msg[m].sid = s
      BY RowOf, HeardIsMessage DEF TimelineInv, InTimeline, HeardKnown, Exists
    <2> QED BY <1>2, <2>1 DEF Steady, RowSteady
  <1>5. ASSUME NEW m \in DOMAIN snap[a]
        PROVE  /\ m \in RowsOf(s) /\ snap[a][m].order = msg'[m].order
               /\ a \in Worker => msg'[m].state # "pending"
    BY <1>1, <1>2, <1>4 DEF Batch
  <1>6. ASSUME NEW m \in left'[a], NEW n \in Heard(s) PROVE msg'[n].order < msg'[m].order
    <2>1. m \in RowsOf(s) /\ msg[n].order < msg[m].order
      BY <1>1, <1>2, ActorTyped DEF Batch
    <2> QED BY <1>4, <2>1
  <1> QED BY <1>3, <1>5, <1>6 DEF Batch

LEMMA ReadSteady ==
  ASSUME TypeOK, TimelineInv, NEW h \in Handler, pc[h] = "add",
         cur'[h] = cur[h], snap'[h] = snap[h], \A s \in Session : s = cur[h] => Steady(s)
  PROVE  Reading(h)'
  <1>1. PICK s \in Session : s = cur[h]
    BY ActorTyped DEF Actor
  <1>2. Steady(s) /\ DOMAIN snap[h] = RowsOf(s)
        /\ \A n \in DOMAIN snap[h] : snap[h][n].order = msg[n].order
    BY <1>1 DEF TimelineInv, AddReads, Reading
  <1>3. RowsOf(cur[h])' = RowsOf(s)
    BY <1>1, <1>2 DEF Steady, RowsOf, Exists
  <1>4. \A n \in RowsOf(s) : msg'[n].order = msg[n].order
    BY <1>2, RowOf DEF Steady, RowSteady, Exists
  <1> QED BY <1>2, <1>3, <1>4 DEF Reading

\* A coroutine that stops, or goes on with what it has read.
GoesOn(a) ==
  pc'[a] \in SendingPC \cup {"add"} =>
    /\ pc'[a] = pc[a] \/ (pc[a] \in SendingPC /\ pc'[a] \in SendingPC)
    /\ cur'[a] = cur[a] /\ snap'[a] = snap[a] /\ left'[a] \subseteq left[a]

\* A step that reads nothing and delivers nothing, in the sessions where
\* nobody works but the coroutine that ends with it.
LEMMA TimelineFrame ==
  ASSUME TypeOK, ControlInv, TurnInv, TimelineInv, NEW D,
         \A a \in Actor : GoesOn(a),
         \A s \in Session \ D : Steady(s), \A s \in Session \cap D : InTimeline(s)',
         \A s \in Session \cap D : sess[s].status \in {"unused", "pending", "rejected", "failed"},
         \A h \in Handler : pc'[h] = "add" => cur[h] \notin D
  PROVE  TimelineInv'
  <1>1. ASSUME NEW s \in Session PROVE InTimeline(s)'
    <2>1. CASE s \notin D
      BY <2>1, SteadyInTimeline DEF TimelineInv
    <2> QED BY <2>1
  <1>2. Batches'
    <2>1. ASSUME NEW a \in Actor, pc'[a] \in SendingPC PROVE Batch(a)'
      <3>1. /\ pc[a] \in SendingPC /\ cur'[a] = cur[a] /\ snap'[a] = snap[a]
            /\ left'[a] \subseteq left[a]
        BY <2>1 DEF GoesOn
      <3>2. cur[a] \in Session \ D
        BY <3>1, SendersElsewhere
      <3> QED BY <3>1, <3>2, BatchSteady
    <2> QED BY <2>1 DEF Batches
  <1>3. AddReads'
    <2>1. ASSUME NEW h \in Handler, pc'[h] = "add"
          PROVE  Reading(h)'
      <3>1. pc[h] = "add" /\ cur'[h] = cur[h] /\ snap'[h] = snap[h]
        BY <2>1 DEF GoesOn, SendingPC, SendNowPC, WorkerPC, Actor
      <3> QED BY <2>1, <3>1, ReadSteady
    <2> QED BY <2>1 DEF AddReads
  <1> QED BY <1>1, <1>2, <1>3 DEF TimelineInv

\* A request that ends with what it did to one session.
LEMMA TimelineRequest ==
  ASSUME TypeOK, ControlInv, TurnInv, TimelineInv, \A a \in Actor : GoesOn(a),
         NEW c \in Session, sess[c].status \in {"unused", "pending", "rejected", "failed"},
         InTimeline(c)', \A s \in Session \ {c} : Steady(s),
         \A h \in Handler : pc'[h] = "add" => cur[h] # c
  PROVE  TimelineInv'
  <1> DEFINE D == {c}
  <1>1. (\A s \in Session \ D : Steady(s)) /\ \A s \in Session \cap D : InTimeline(s)'
    <2>1. \A s \in Session : s = c => InTimeline(s)'
      OBVIOUS
    <2> QED BY <2>1
  <1>2. /\ \A s \in Session \cap D : sess[s].status \in {"unused", "pending", "rejected", "failed"}
        /\ \A h \in Handler : pc'[h] = "add" => cur[h] \notin D
    OBVIOUS
  <1> HIDE DEF D
  <1> QED BY <1>1, <1>2, TimelineFrame

SessionSteady(s) ==
  /\ Planned(s)' <=> Planned(s)
  /\ sess'[s].status = "unused" => sess[s].status = "unused"
  /\ sess[s].status = "deleted" => sess'[s].status = "deleted"

LEMMA StatusSteady ==
  ASSUME TypeOK, NEW c \in Session, NEW st, SetStatus(c, st), st # "unused", SessionExists(c)
  PROVE  \A s \in Session : SessionSteady(s)
  <1>1. /\ \A t \in Session \ {c} : sess'[t] = sess[t]
        /\ sess'[c].status = st /\ sess'[c].start = sess[c].start
    BY StatusEffect
  <1> QED BY <1>1 DEF SessionSteady, Planned, SessionExists

LEMMA SameSessionsSteady ==
  ASSUME sess' = sess
  PROVE  \A s \in Session : SessionSteady(s)
  BY DEF SessionSteady, Planned

\* Whatever happens to the rows of other sessions.
LEMMA RowsSteady ==
  ASSUME NEW s \in Session, SessionSteady(s), chat'[s] = chat[s],
         \A m \in Message :
           \/ Same(m)
           \/ msg[m].status = "unused" /\ msg'[m].sid # s
           \/ msg[m].status # "unused" /\ msg[m].sid # s /\ msg'[m].sid # s
           \/ /\ Exists(m) /\ RowSteady(m) 
              /\ Planned(s) => (msg'[m].state = "pending" <=> msg[m].state = "pending")
  PROVE  Steady(s)
  <1>1. \A m \in Message : m \in RowsOf(s)' <=> m \in RowsOf(s)
    BY RowOf DEF RowsOf, Exists, Same, SameButOrder, RowSteady
  <1>2. RowsOf(s)' = RowsOf(s)
    BY <1>1 DEF RowsOf
  <1>3. ASSUME NEW m \in Message, msg[m].status # "unused", msg[m].sid = s
        PROVE  /\ RowSteady(m)
               /\ Planned(s) => (msg'[m].state = "pending" <=> msg[m].state = "pending")
    BY <1>3 DEF Same, SameButOrder, RowSteady, Exists
  <1> QED BY <1>2, <1>3 DEF Steady, SessionSteady

-----------------------------------------------------------------------------
(* The scheduled times rise with order_index. *)

LEMMA LeastNumber ==
  ASSUME NEW S, S \subseteq Nat, S # {}
  PROVE  \E k \in S : \A n \in S : k <= n
  <1> DEFINE R == OpToRel(<, Nat)
  <1>1. IsWellFoundedOn(R, Nat)
    BY Zenon, NatLessThanWellFounded
  <1>2. \A x, y \in Nat : x < y => <<x, y>> \in R
    BY DEF OpToRel
  <1> HIDE DEF R
  <1>3. PICK k \in S : \A n \in S : ~ (<<n, k>> \in R)
    BY <1>1, WFMin
  <1>4. \A n \in S : ~ (n < k)
    BY <1>2, <1>3
  <1>5. \A n \in S : n \in Nat /\ k \in Nat
    OBVIOUS
  <1> QED BY <1>4, <1>5

\* Were there a message due before an earlier one, take the first of them:
\* the message before it is not due before the earlier one either.
LEMMA SchedulesRise ==
  ASSUME TypeOK, NEW S, S \subseteq Message, NEW start \in Start, NEW at \in Schedules(S, start),
         \A m, n \in S : msg[m].order = msg[n].order => m = n,
         NEW m \in S, NEW n \in S, msg[m].order <= msg[n].order
  PROVE  at[m] <= at[n]
  <1>a. at \in [S -> Time] /\ \A k \in S : at[k] \in Int
    BY SessionRowsAssumption DEF Schedules, Time
  <1>b. PICK r \in Rankings(S) :
          \A k \in S : IF r[k] = 0 THEN at[k] = start + msg[k].gap
                       ELSE \E p \in S : r[p] = r[k] - 1 /\ at[k] = at[p] + msg[k].gap
    BY DEF Schedules
  <1>c. \A k \in S : r[k] \in Nat /\ msg[k].order \in Nat /\ msg[k].gap \in Nat
    <2>1. \A k \in S : msg[k] \in MessageRow
      BY RowsTyped
    <2>2. \A k \in S : r[k] \in Nat
      BY RankingsType
    <2>3. \A k \in S : msg[k].order \in Nat /\ msg[k].gap \in Gap \cup {0}
      BY <2>1 DEF MessageRow
    <2>4. Gap \cup {0} \subseteq Nat
      BY SessionRowsAssumption
    <2> QED BY <2>2, <2>3, <2>4
  <1>d. DOMAIN r = S /\ \A k, l \in S : r[k] = r[l] => k = l
    BY DEF Rankings, IsInjective
  <1>e. \A k, l \in S : msg[k].order < msg[l].order => r[k] < r[l]
    BY DEF Rankings
  <1>1. r[m] <= r[n]
    BY <1>c, <1>e
  <1> SUFFICES ASSUME at[n] < at[m] PROVE FALSE
    BY <1>a
  <1> DEFINE Early == {r[k] : k \in {l \in S : r[m] <= r[l] /\ at[l] < at[m]}}
  <1>2. Early \subseteq Nat /\ Early # {}
    BY <1>1, <1>c
  <1>3. PICK first \in Early : \A e \in Early : first <= e
    BY <1>2, LeastNumber
  <1>4. PICK k \in S : r[k] = first /\ r[m] <= r[k] /\ at[k] < at[m]
    BY <1>3
  <1>5. k # m
    BY <1>4, <1>a
  <1>6. r[m] < r[k] /\ r[k] # 0
    BY <1>4, <1>5, <1>c, <1>d
  <1>7. PICK p \in S : r[p] = r[k] - 1 /\ at[k] = at[p] + msg[k].gap
    BY <1>6, <1>b
  <1>8. r[m] <= r[p] /\ at[p] < at[m]
    BY <1>4, <1>6, <1>7, <1>a, <1>c
  <1>9. first <= r[p]
    BY <1>3, <1>8
  <1> QED BY <1>4, <1>7, <1>9, <1>c

-----------------------------------------------------------------------------

\* The session a request has reviewed, while nobody has heard of it.
LEMMA QuietTimeline ==
  ASSUME NEW c \in Session, chat'[c] = <<>>, sess'[c].status # "unused",
         Planned(c)' => TimesRise(c)' /\ ClaimedFirst(c)', OrdersDiffer(c)'
  PROVE  InTimeline(c)'
  <1>1. Heard(c)' = {}
    BY DEF Heard
  <1>2. HeardKnown(c)' /\ HeardClaimed(c)'
    BY <1>1 DEF HeardKnown, HeardClaimed
  <1>3. HeardInOrder(c)'
    BY DEF HeardInOrder
  <1>4. TimesRise(c)' /\ ClaimedFirst(c)'
    BY DEF TimesRise, ClaimedFirst
  <1> QED BY <1>2, <1>3, <1>4 DEF InTimeline, NewIsEmpty

LEMMA ReturnGoesOn ==
  ASSUME TypeOK, NEW a \in Actor, OthersKeep(a), pc'[a] = "idle"
  PROVE  \A b \in Actor : GoesOn(b)
  BY DEF OthersKeep, GoesOn, SendingPC, SendNowPC, WorkerPC

LEMMA TimelineApproveAt ==
  ASSUME OneRequest, TypeOK, ControlInv, OnceInv, TurnInv, TimelineInv,
         NEW h \in Handler, NEW start \in Start, ApproveAt(h, start)
  PROVE  TimelineInv'
  <1>1. PICK c \in Session : c = cur[h]
    BY ApproveAtEffect
  <1>2. /\ pc[h] = "approve" /\ Return(h) /\ chat' = chat /\ todo' = todo
        /\ \A t \in Session \ {c} : sess'[t] = sess[t]
        /\ sess'[c].status = "scheduled"
        /\ sess[c].status = "pending" /\ chat[c] = <<>>
    BY <1>1, ApproveAtEffect DEF ControlInv, RequestsInTurn, OnceInv, Silent
  <1>3. /\ \E at \in Schedules(RowsOf(c), start) :
             \A m \in RowsOf(c) :
               /\ msg'[m].at = at[m] /\ msg'[m].state = "pending"
               /\ msg'[m].status = msg[m].status
               /\ msg'[m].sid = msg[m].sid /\ msg'[m].order = msg[m].order
        /\ \A m \in Message \ RowsOf(c) : Same(m)
    <2>1. /\ \E at \in Schedules(RowsOf(cur[h]), start) :
             \A m \in RowsOf(cur[h]) :
               /\ msg'[m].at = at[m] /\ msg'[m].state = "pending"
               /\ msg'[m].ticket = msg[m].ticket + 1 /\ msg'[m].status = msg[m].status
               /\ msg'[m].sid = msg[m].sid /\ msg'[m].order = msg[m].order
          /\ \A m \in Message \ RowsOf(cur[h]) : Same(m)
      BY ApproveAtRows
    <2> QED BY <2>1, <1>1
  <1>4. PICK at \in Schedules(RowsOf(c), start) :
          \A m \in RowsOf(c) : /\ msg'[m].at = at[m] /\ msg'[m].state = "pending"
                               /\ msg'[m].status = msg[m].status
                               /\ msg'[m].sid = msg[m].sid /\ msg'[m].order = msg[m].order
    BY <1>3
  <1>5. \A m \in Message : m \in RowsOf(c)' <=> m \in RowsOf(c)
    BY <1>3, <1>4 DEF RowsOf, Exists, Same, SameButOrder
  <1>6. \A m \in RowsOf(c)' : m \in RowsOf(c)
    BY <1>5 DEF RowsOf
  <1>7. InTimeline(c)'
    <2>1. \A m, n \in RowsOf(c) : msg[m].order = msg[n].order => m = n
      BY DEF TimelineInv, InTimeline, OrdersDiffer
    <2>2. OrdersDiffer(c)'
      BY <1>4, <1>6, <2>1 DEF OrdersDiffer
    <2>3. TimesRise(c)'
      <3>1. ASSUME NEW m \in RowsOf(c), NEW n \in RowsOf(c), msg[m].order <= msg[n].order
            PROVE  at[m] <= at[n]
        BY <2>1, <3>1, SchedulesRise DEF RowsOf
      <3>2. \A m \in RowsOf(c) : at[m] # NoTime
        BY SessionRowsAssumption DEF Schedules, Time, NoTime
      <3> QED BY <1>4, <1>6, <3>1, <3>2 DEF TimesRise
    <2>4. ClaimedFirst(c)'
      BY <1>4, <1>6 DEF ClaimedFirst
    <2> QED BY <1>2, <2>2, <2>3, <2>4, QuietTimeline
  <1>8. \A s \in Session \ {c} : Steady(s)
    <2>1. \A s \in Session \ {c} : SessionSteady(s)
      BY <1>2 DEF SessionSteady, Planned
    <2>2. \A m \in RowsOf(c) : msg[m].status # "unused" /\ msg[m].sid = c /\ msg'[m].sid = c
      BY <1>4 DEF RowsOf, Exists
    <2> QED BY <1>2, <1>3, <2>1, <2>2, RowsSteady
  <1>9. OthersKeep(h) /\ pc'[h] = "idle" /\ \A g \in Handler : g = h
    BY <1>2, ReturnEffect DEF OneRequest, Actor
  <1>10. \A a \in Actor : GoesOn(a)
    BY <1>9, ReturnGoesOn DEF Actor
  <1> QED BY <1>2, <1>7, <1>8, <1>9, <1>10, TimelineRequest

\* add_message shifts exactly the rows that come after the new one.
LEMMA TimelineAdd ==
  ASSUME OneRequest, TypeOK, HeardInv, ControlInv, OnceInv, TurnInv, TimelineInv,
         NEW h \in Handler, NEW pos \in 0 .. Cardinality(Message), NEW gap \in Gap,
         Add(h, pos, gap)
  PROVE  TimelineInv'
  <1>0. PICK c \in Session : c = cur[h]
    BY AddEffect
  <1>1. /\ pc[h] = "add" /\ Return(h) /\ UNCHANGED <<sess, chat, todo>>
        /\ mid[h] \in Message /\ Inserted(mid[h], c) /\ msg'[mid[h]].order = pos
        /\ \A n \in Message \ {mid[h]} :
             /\ SameButOrder(n)
             /\ msg'[n].order = IF n \in DOMAIN snap[h] /\ snap[h][n].order >= pos
                                THEN snap[h][n].order + 1 ELSE msg[n].order
    BY <1>0, AddEffect
  <1>2. sess[c].status = "pending" /\ chat[c] = <<>> /\ ~ Planned(c)
    BY <1>0, <1>1 DEF ControlInv, RequestsInTurn, SessionsInTurn, OnceInv, Silent
  <1>3. DOMAIN snap[h] = RowsOf(c) /\ \A n \in RowsOf(c) : snap[h][n].order = msg[n].order
    BY <1>0, <1>1 DEF TimelineInv, AddReads, Reading
  <1>4. \A n \in Message \ {mid[h]} :
          msg'[n].order = IF n \in RowsOf(c) /\ msg[n].order >= pos THEN msg[n].order + 1
                                                                   ELSE msg[n].order
    BY <1>1, <1>3
  <1>5. \A n \in Message \ {mid[h]} : n \in RowsOf(c)' <=> n \in RowsOf(c)
    BY <1>1 DEF RowsOf, Exists, SameButOrder
  <1>6. \A n \in RowsOf(c)' : n = mid[h] \/ (n \in RowsOf(c) /\ n # mid[h])
    BY <1>5 DEF RowsOf
  <1>7. \A n \in RowsOf(c) : n \in Message /\ msg[n].order \in Nat
    BY RowsTyped DEF RowsOf, MessageRow
  <1>8. pos \in Nat
    BY SMT
  <1>9. OrdersDiffer(c)'
    <2> SUFFICES ASSUME NEW m \in RowsOf(c)', NEW n \in RowsOf(c)', msg'[m].order = msg'[n].order
                 PROVE  m = n
      BY DEF OrdersDiffer
    <2>1. \A k \in RowsOf(c) : k # mid[h] =>
            IF msg[k].order >= pos THEN msg'[k].order = msg[k].order + 1
                                   ELSE msg'[k].order = msg[k].order
      BY <1>4, <1>7
    <2>2. \A k \in RowsOf(c) : k # mid[h] => msg'[k].order # pos
      BY <2>1, <1>7, <1>8
    <2>3. CASE m # mid[h] /\ n # mid[h]
      <3>1. m \in RowsOf(c) /\ n \in RowsOf(c)
        BY <1>6, <2>3
      <3>2. msg[m].order = msg[n].order
        BY <2>1, <2>3, <3>1, <1>7, <1>8
      <3> QED BY <3>1, <3>2 DEF TimelineInv, InTimeline, OrdersDiffer
    <2>4. CASE m = mid[h] \/ n = mid[h]
      BY <1>1, <1>6, <2>2, <2>4
    <2> QED BY <2>3, <2>4
  <1>10. InTimeline(c)'
    BY <1>1, <1>2, <1>9, QuietTimeline DEF Planned
  <1>11. \A s \in Session \ {c} : Steady(s)
    <2>1. ASSUME NEW n \in Message \ {mid[h]}
          PROVE  \/ Same(n)
                 \/ msg[n].status # "unused" /\ msg[n].sid = c /\ msg'[n].sid = c
      <3>1. CASE n \in RowsOf(c)
        BY <1>1, <3>1 DEF RowsOf, Exists, SameButOrder
      <3>2. CASE n \notin RowsOf(c)
        BY <1>1, <1>4, <3>2 DEF Same
      <3> QED BY <3>1, <3>2
    <2>2. \A s \in Session : SessionSteady(s)
      BY <1>1, SameSessionsSteady
    <2> QED BY <1>1, <2>1, <2>2, RowsSteady DEF Inserted
  <1>12. OthersKeep(h) /\ pc'[h] = "idle" /\ \A g \in Handler : g = h
    BY <1>1, ReturnEffect DEF OneRequest, Actor
  <1>13. \A a \in Actor : GoesOn(a)
    BY <1>12, ReturnGoesOn DEF Actor
  <1> QED BY <1>2, <1>10, <1>11, <1>12, <1>13, TimelineRequest

LEMMA TimelineRemove ==
  ASSUME OneRequest, TypeOK, HeardInv, ControlInv, OnceInv, TurnInv, TimelineInv,
         NEW h \in Handler, Remove(h)
  PROVE  TimelineInv'
  <1>0. PICK c \in Session : c = cur[h]
    BY RemoveEffect
  <1>1. /\ pc[h] = "remove" /\ Return(h) /\ UNCHANGED <<sess, chat, todo>>
        /\ mid[h] \in Message /\ SameButStatus(mid[h]) /\ msg'[mid[h]].status = "deleted"
        /\ msg[mid[h]].status # "unused" /\ msg[mid[h]].sid = c
        /\ \A n \in Message \ {mid[h]} : n \notin RowsOf(c) => Same(n)
    BY <1>0, RemoveEffect DEF HeardInv, Reserved
  <1>2. sess[c].status = "pending" /\ chat[c] = <<>> /\ ~ Planned(c)
    BY <1>0, <1>1 DEF ControlInv, RequestsInTurn, SessionsInTurn, OnceInv, Silent
  <1>3. PICK r \in Rankings(RowsOf(c) \ {mid[h]}) :
          \A n \in RowsOf(c) \ {mid[h]} : SameButOrder(n) /\ msg'[n].order = r[n]
    BY <1>0, RemoveEffect
  <1>4. \A n \in RowsOf(c)' : n \in RowsOf(c) \ {mid[h]}
    BY <1>1, <1>3 DEF RowsOf, Exists, Same, SameButOrder
  <1>5. DOMAIN r = RowsOf(c) \ {mid[h]} /\ \A m, n \in DOMAIN r : r[m] = r[n] => m = n
    BY DEF Rankings, IsInjective
  <1>6. OrdersDiffer(c)'
    BY <1>3, <1>4, <1>5 DEF OrdersDiffer
  <1>7. InTimeline(c)'
    BY <1>1, <1>2, <1>6, QuietTimeline DEF Planned
  <1>8. \A s \in Session \ {c} : Steady(s)
    <2>1. \A n \in RowsOf(c) \ {mid[h]} : msg[n].status # "unused" /\ msg[n].sid = c /\ msg'[n].sid = c
      BY <1>3 DEF RowsOf, Exists, SameButOrder
    <2>2. \A s \in Session : SessionSteady(s)
      BY <1>1, SameSessionsSteady
    <2> QED BY <1>1, <2>1, <2>2, RowsSteady DEF SameButStatus
  <1>9. OthersKeep(h) /\ pc'[h] = "idle" /\ \A g \in Handler : g = h
    BY <1>1, ReturnEffect DEF OneRequest, Actor
  <1>10. \A a \in Actor : GoesOn(a)
    BY <1>9, ReturnGoesOn DEF Actor
  <1> QED BY <1>2, <1>7, <1>8, <1>9, <1>10, TimelineRequest

\* A step after which no row has moved, and nothing waits that had been taken.
LEMMA TimelineCalm ==
  ASSUME TypeOK, ControlInv, TurnInv, TimelineInv, \A a \in Actor : GoesOn(a), chat' = chat,
         \A s \in Session : SessionSteady(s),
         \A m \in Message :
           \/ Same(m)
           \/ /\ Exists(m) /\ RowSteady(m)
              /\ \A s \in Session : s = msg[m].sid /\ Planned(s)
                    => (msg'[m].state = "pending" <=> msg[m].state = "pending")
  PROVE  TimelineInv'
  <1>1. ASSUME NEW s \in Session PROVE Steady(s)
    <2>1. ASSUME NEW m \in Message
          PROVE  \/ Same(m)
                 \/ msg[m].status # "unused" /\ msg[m].sid # s /\ msg'[m].sid # s
                 \/ /\ Exists(m) /\ RowSteady(m)
                    /\ Planned(s) => (msg'[m].state = "pending" <=> msg[m].state = "pending")
      BY DEF RowSteady, Exists
    <2> QED BY <2>1, RowsSteady
  <1> DEFINE D == {}
  <1>2. /\ \A s \in Session \ D : Steady(s)
        /\ \A s \in Session \cap D : InTimeline(s)'
    BY <1>1
  <1>3. /\ \A s \in Session \cap D : sess[s].status \in {"unused", "pending", "rejected", "failed"}
        /\ \A h \in Handler : pc'[h] = "add" => cur[h] \notin D
    OBVIOUS
  <1> HIDE DEF D
  <1> QED BY <1>2, <1>3, TimelineFrame

LEMMA TimelineDelete ==
  ASSUME OneRequest, TypeOK, ControlInv, TurnInv, TimelineInv, NEW h \in Handler, Delete(h)
  PROVE  TimelineInv'
  <1>0. PICK c \in Session : c = cur[h]
    BY DeleteEffect
  <1>1. /\ pc[h] = "delete" /\ Return(h) /\ UNCHANGED <<chat, todo>> /\ SetStatus(c, "deleted")
        /\ \A m \in RowsOf(c) : /\ SameButStatus(m) /\ msg'[m].status = "deleted"
                                /\ msg'[m].state = msg[m].state
        /\ \A m \in Message \ RowsOf(c) : Same(m)
    BY <1>0, DeleteEffect
  <1>2. /\ \A t \in Session \ {c} : sess'[t] = sess[t]
        /\ sess'[c].status = "deleted" /\ (Planned(c)' <=> Planned(c))
    BY <1>1, StatusEffect DEF Planned
  <1>3. sess[c].status \in {"pending", "rejected", "failed"}
    BY <1>0, <1>1 DEF TurnInv, DeletesInTurn
  <1>4. RowsOf(c)' = {}
    BY <1>1 DEF RowsOf, Exists, Same, SameButOrder
  <1>5. /\ Heard(c)' = Heard(c)
        /\ \A m \in Heard(c) : m \in Message /\ msg[m].status # "unused" /\ msg[m].sid = c
    BY <1>1, HeardIsMessage DEF Heard, TimelineInv, InTimeline, HeardKnown
  <1>6. \A m \in Heard(c) : /\ msg'[m].status # "unused" /\ msg'[m].sid = c
                            /\ msg'[m].order = msg[m].order /\ msg'[m].state = msg[m].state
    BY <1>1, <1>5 DEF Same, SameButOrder, SameButStatus
  <1>7. InTimeline(c)'
    <2>1. HeardKnown(c)' /\ NewIsEmpty(c)' /\ OrdersDiffer(c)' /\ TimesRise(c)' /\ ClaimedFirst(c)'
      BY <1>2, <1>4, <1>5, <1>6
      DEF HeardKnown, NewIsEmpty, OrdersDiffer, TimesRise, ClaimedFirst
    <2>2. HeardClaimed(c)'
      BY <1>2, <1>5, <1>6 DEF HeardClaimed, TimelineInv, InTimeline
    <2>3. HeardInOrder(c)'
      <3>1. \A i \in DOMAIN chat[c] : msg'[chat[c][i].mid].order = msg[chat[c][i].mid].order
        BY <1>6, HeardIsMessage
      <3> QED BY <1>1, <3>1 DEF HeardInOrder, TimelineInv, InTimeline
    <2> QED BY <2>1, <2>2, <2>3 DEF InTimeline
  <1>8. \A s \in Session \ {c} : Steady(s)
    <2>1. \A s \in Session \ {c} : SessionSteady(s)
      BY <1>2 DEF SessionSteady, Planned
    <2>2. \A m \in RowsOf(c) : msg[m].status # "unused" /\ msg[m].sid = c /\ msg'[m].sid = c
      BY <1>1 DEF RowsOf, Exists, SameButStatus
    <2> QED BY <1>1, <2>1, <2>2, RowsSteady
  <1>9. OthersKeep(h) /\ pc'[h] = "idle" /\ \A g \in Handler : g = h
    BY <1>1, ReturnEffect DEF OneRequest, Actor
  <1>10. \A a \in Actor : GoesOn(a)
    BY <1>9, ReturnGoesOn DEF Actor
  <1> QED BY <1>3, <1>7, <1>8, <1>9, <1>10, TimelineRequest

LEMMA TimelineReview ==
  ASSUME OneRequest, TypeOK, HeardInv, ControlInv, OnceInv, TurnInv, TimelineInv,
         NEW h \in Handler, ReviewStep(h)
  PROVE  TimelineInv'
  <1>a. Return(h) /\ todo' = todo /\ chat' = chat
    BY DEF ReviewStep, ApproveNow, ApproveAt, Reject, Delete, Add, Remove, EditText,
           EditGap, WriteStale, Finish, worldVars
  <1>b. \A a \in Actor : GoesOn(a)
    BY <1>a, ReturnEffect, ReturnGoesOn DEF Actor
  <1>1. ASSUME NEW st \in {"approved", "rejected"}, cur[h] \in Session, SessionExists(cur[h]),
               sess'[cur[h]].status = st, sess'[cur[h]].start = sess[cur[h]].start,
               \A t \in Session \ {cur[h]} : sess'[t] = sess[t], msg' = msg
        PROVE  TimelineInv'
    <2>1. \A s \in Session : SessionSteady(s)
      BY <1>1 DEF SessionSteady, Planned, SessionExists
    <2> QED BY <1>a, <1>b, <1>1, <2>1, SameMessages, TimelineCalm
  <1>2. CASE ApproveNow(h)
    <2>1. SessionExists(cur[h])
      BY <1>2 DEF ApproveNow
    <2> QED BY <1>1, <1>2, <2>1, ApproveNowEffect
  <1>3. CASE Reject(h)
    <2>1. cur[h] \in Session /\ SessionExists(cur[h]) /\ SetStatus(cur[h], "rejected") /\ msg' = msg
      BY <1>3, ActorTyped DEF Reject, Finish, Actor
    <2> QED BY <1>1, <2>1, StatusEffect
  <1>4. CASE EditText(h) \/ \E gap \in Gap : EditGap(h, gap)
    BY <1>a, <1>b, <1>4, EditEffect, SameSessionsSteady, TimelineCalm
  <1>5. CASE WriteStale(h)
    <2>1. sess' = sess /\ msg' = msg
      BY <1>5 DEF WriteStale, dbVars
    <2> QED BY <1>a, <1>b, <2>1, SameMessages, SameSessionsSteady, TimelineCalm
  <1> QED BY <1>2, <1>3, <1>4, <1>5, TimelineApproveAt, TimelineDelete, TimelineAdd,
             TimelineRemove DEF ReviewStep

\* A coroutine that reads, while nothing is written.
LEMMA TimelineReader ==
  ASSUME TypeOK, ControlInv, TurnInv, TimelineInv, NEW a \in Actor,
         sess' = sess, msg' = msg, chat' = chat,
         \A b \in Actor \ {a} : /\ pc'[b] = pc[b] /\ cur'[b] = cur[b] /\ snap'[b] = snap[b]
                                /\ left'[b] = left[b],
         pc'[a] \in SendingPC => Batch(a)',
         a \in Handler /\ pc'[a] = "add" => Reading(a)'
  PROVE  TimelineInv'
  <1>1. \A s \in Session : Steady(s)
    BY SameSessionsSteady, SameMessages, RowsSteady
  <1>2. \A s \in Session : InTimeline(s)'
    BY <1>1, SteadyInTimeline DEF TimelineInv
  <1>3. ASSUME NEW b \in Actor, pc'[b] \in SendingPC PROVE Batch(b)'
    <2>1. CASE b # a
      BY <1>1, <1>3, <2>1, BatchSteady
    <2> QED BY <1>3, <2>1
  <1>4. ASSUME NEW h \in Handler, pc'[h] = "add" PROVE Reading(h)'
    <2>1. CASE h # a
      BY <1>1, <1>4, <2>1, ReadSteady DEF Actor
    <2> QED BY <1>4, <2>1
  <1> QED BY <1>2, <1>3, <1>4 DEF TimelineInv, Batches, AddReads

LEMMA TimelineBegin ==
  ASSUME TypeOK, ControlInv, OnceInv, TurnInv, TimelineInv, NEW h \in Handler, HandlerBegin(h)
  PROVE  TimelineInv'
  <1>a. h \in Actor /\ h \notin Worker
    BY SessionRowsAssumption DEF Actor
  <1>1. /\ sess' = sess /\ msg' = msg /\ chat' = chat
        /\ \A b \in Actor \ {h} : /\ pc'[b] = pc[b] /\ cur'[b] = cur[b] /\ snap'[b] = snap[b]
                                  /\ left'[b] = left[b]
    BY <1>a
    DEF HandlerBegin, ReviewBegin, SendNowBegin, BeginApprove, BeginReject, BeginDelete, BeginAdd,
        BeginRemove, BeginEdit, BeginSendNow, Begin, dbVars, worldVars, TypeOK, LocalsOK
  <1>2. ASSUME NEW s \in Session, NEW m \in Message, BeginAdd(h, s, m) PROVE TimelineInv'
    <2>1. /\ pc'[h] = "add" /\ cur'[h] = s /\ snap'[h] = [n \in RowsOf(s) |-> msg[n]]
      BY <1>a, <1>2 DEF BeginAdd, Begin, Restrict, TypeOK, LocalsOK
    <2>2. RowsOf(cur[h])' = RowsOf(s)
      BY <1>1, <2>1 DEF RowsOf, Exists
    <2>3. Reading(h)'
      BY <1>1, <2>1, <2>2 DEF Reading
    <2> QED BY <1>a, <1>1, <2>1, <2>3, TimelineReader DEF SendingPC, SendNowPC, WorkerPC
  <1>3. ASSUME NEW s \in Session, BeginSendNow(h, s) PROVE TimelineInv'
    <2>1. /\ pc'[h] = "mark" /\ cur'[h] = s /\ snap'[h] = [n \in RowsOf(s) |-> msg[n]]
          /\ sess[s].status = "approved"
      BY <1>a, <1>3 DEF BeginSendNow, Restrict, TypeOK, LocalsOK
    <2>2. RowsOf(cur[h])' = RowsOf(s)
      BY <1>1, <2>1 DEF RowsOf, Exists
    <2>3. Heard(cur[h])' = {}
      BY <1>1, <2>1 DEF Heard, OnceInv, Silent
    <2>4. Batch(h)'
      BY <1>a, <1>1, <2>1, <2>2, <2>3 DEF Batch
    <2> QED BY <1>a, <1>1, <2>1, <2>4, TimelineReader
  <1>4. ASSUME pc'[h] \notin SendingPC \cup {"add"} PROVE TimelineInv'
    BY <1>a, <1>1, <1>4, TimelineReader
  <1>5. ASSUME \/ \E s \in Session : BeginApprove(h, s) \/ BeginReject(h, s) \/ BeginDelete(h, s)
               \/ \E m \in Message : BeginRemove(h, m) \/ BeginEdit(h, m)
        PROVE  TimelineInv'
    <2>1. pc'[h] \in {"approve", "reject", "delete", "remove", "edit"}
      BY <1>a, <1>5
      DEF BeginApprove, BeginReject, BeginDelete, BeginRemove, BeginEdit, Begin, TypeOK, LocalsOK
    <2> QED BY <1>4, <2>1 DEF SendingPC, SendNowPC, WorkerPC
  <1> QED BY <1>2, <1>3, <1>5 DEF HandlerBegin, ReviewBegin, SendNowBegin

LEMMA SendNowGoesOn ==
  ASSUME TypeOK, NEW h \in Handler, SendNowStep(h)
  PROVE  \A a \in Actor : GoesOn(a)
  <1>a. h \in Actor /\ OthersKeep(h) /\ pc[h] \in SendingPC
    BY SendNowEffect DEF Actor, SendingPC
  <1>1. CASE Return(h)
    <2>1. pc'[h] = "idle"
      BY <1>a, <1>1 DEF Return, TypeOK, LocalsOK
    <2> QED BY <1>a, <2>1, ReturnGoesOn
  <1>2. CASE ~ Return(h)
    <2>1. /\ cur' = cur /\ snap' = snap /\ left'[h] \subseteq left[h]
          /\ pc'[h] \in SendNowPC
      <3>1. CASE Deliver(h, FALSE)
        <4>1. /\ UNCHANGED <<cur, snap>> /\ pc' = [pc EXCEPT ![h] = "commit"]
              /\ \E m : left' = [left EXCEPT ![h] = @ \ {m}]
          BY <3>1 DEF Deliver
        <4> QED BY <1>a, <4>1 DEF TypeOK, LocalsOK, SendNowPC
      <3>2. CASE ~ Deliver(h, FALSE)
        BY <1>a, <1>2, <3>2
        DEF SendNowStep, MarkSending, OpenClients, CommitResult, Raise, CommitStale, CloseNow,
            AbortNow, NowStale, Goto, TypeOK, LocalsOK, SendNowPC
      <3> QED BY <3>1, <3>2
    <2>2. GoesOn(h)
      BY <1>a, <2>1 DEF GoesOn, SendingPC, SendNowPC, WorkerPC
    <2> QED BY <1>a, <2>2 DEF GoesOn, OthersKeep
  <1> QED BY <1>1, <1>2

LEMMA TimelineSendNow ==
  ASSUME TypeOK, HeardInv, ControlInv, TurnInv, TimelineInv,
         NEW h \in Handler, SendNowStep(h), ~ Deliver(h, FALSE)
  PROVE  TimelineInv'
  <1>a. (\A a \in Actor : GoesOn(a)) /\ h \in Actor /\ cur[h] \in Session /\ chat' = chat
    BY SendNowGoesOn, SendNowMovesOn, SendNowEffect DEF Actor
  <1>1. ASSUME NEW st \in {"sending", "sent", "failed"}, SetStatus(cur[h], st),
               SessionExists(cur[h]), msg' = msg
        PROVE  TimelineInv'
    <2>1. \A s \in Session : SessionSteady(s)
      BY <1>a, <1>1, StatusSteady
    <2> QED BY <1>a, <1>1, <2>1, SameMessages, TimelineCalm
  <1>2. CASE CommitResult(h)
    <2>1. /\ pc[h] = "commit" /\ sess' = sess /\ mid[h] \in Message /\ Exists(mid[h])
          /\ result[h] \in TerminalState
          /\ SameButStatus(mid[h]) /\ msg'[mid[h]].status = result[h]
          /\ \A m \in Message \ {mid[h]} : Same(m)
      BY <1>a, <1>2, CommitEffect
    <2>2. RowSteady(mid[h])
      BY <2>1 DEF RowSteady, SameButStatus, Exists, TerminalState
    <2>3. msg[mid[h]].sid = cur[h] /\ ~ Planned(cur[h])
      BY <1>a, <2>1 DEF HeardInv, ReadRows, Answered, ControlInv, RequestsInTurn
    <2> QED BY <1>a, <2>1, <2>2, <2>3, SameSessionsSteady, TimelineCalm
  <1>3. CASE sess' = sess /\ msg' = msg
    BY <1>a, <1>3, SameMessages, SameSessionsSteady, TimelineCalm
  <1>4. CASE MarkSending(h) \/ CloseNow(h) \/ AbortNow(h)
    BY <1>1, <1>4 DEF MarkSending, CloseNow, AbortNow
  <1> QED BY <1>2, <1>3, <1>4
          DEF SendNowStep, OpenClients, Raise, CommitStale, NowStale, dbVars

LEMMA WorkerGoesOn ==
  ASSUME TypeOK, NEW w \in Worker, WorkerStep(w), \A s \in Session : ~ Claim(w, s)
  PROVE  \A a \in Actor : GoesOn(a)
  <1>a. w \in Actor /\ OthersKeep(w)
    BY WorkerEffect DEF Actor
  <1>1. CASE Return(w)
    <2>1. pc'[w] = "idle"
      BY <1>a, <1>1 DEF Return, TypeOK, LocalsOK
    <2> QED BY <1>a, <2>1, ReturnGoesOn
  <1>2. CASE ~ Return(w)
    <2>1. /\ cur' = cur /\ snap' = snap /\ left'[w] \subseteq left[w]
          /\ pc'[w] = pc[w] \/ (pc[w] \in WorkerPC /\ pc'[w] \in WorkerPC)
      <3>1. CASE Deliver(w, TRUE)
        <4>1. /\ UNCHANGED <<cur, snap>> /\ pc' = [pc EXCEPT ![w] = "commit"] /\ pc[w] = "loop"
              /\ \E m : left' = [left EXCEPT ![w] = @ \ {m}]
          BY <3>1 DEF Deliver
        <4> QED BY <1>a, <4>1 DEF TypeOK, LocalsOK, WorkerPC
      <3>2. CASE ~ Deliver(w, TRUE)
        BY <1>a, <1>2, <3>2
        DEF WorkerStep, Poll, LoadSession, OpenClients, CommitResult, Raise, CommitStale, EndBatch,
            MarkClaimedFailed, FinalizeIfComplete, WorkerStale, Goto, TypeOK, LocalsOK, WorkerPC
      <3> QED BY <3>1, <3>2
    <2>2. GoesOn(w)
      BY <1>a, <2>1 DEF GoesOn, SendingPC
    <2> QED BY <1>a, <2>2 DEF GoesOn, OthersKeep
  <1> QED BY <1>1, <1>2

LEMMA TimelineWorker ==
  ASSUME TypeOK, HeardInv, ControlInv, TurnInv, TimelineInv,
         NEW w \in Worker, WorkerStep(w), ~ Deliver(w, TRUE), \A s \in Session : ~ Claim(w, s)
  PROVE  TimelineInv'
  <1>a. (\A a \in Actor : GoesOn(a)) /\ w \in Actor /\ chat' = chat
    BY WorkerGoesOn, WorkerMovesOn DEF Actor
  <1>1. CASE CommitResult(w)
    <2>1. /\ pc[w] = "commit" /\ sess' = sess /\ mid[w] \in Message /\ Exists(mid[w])
          /\ result[w] \in TerminalState
          /\ SameButStatus(mid[w]) /\ msg'[mid[w]].status = result[w]
          /\ msg'[mid[w]].state = result[w]
          /\ \A m \in Message \ {mid[w]} : Same(m)
      BY <1>a, <1>1, CommitEffect
    <2>2. RowSteady(mid[w])
      BY <2>1 DEF RowSteady, SameButStatus, Exists, TerminalState
    <2>3. msg[mid[w]].state # "pending" /\ msg'[mid[w]].state # "pending"
      BY <1>a, <2>1
      DEF HeardInv, Answered, TimelineInv, Batches, Batch, SendingPC, WorkerPC, TerminalState
    <2> QED BY <1>a, <2>1, <2>2, <2>3, SameSessionsSteady, TimelineCalm
  <1>2. CASE MarkClaimedFailed(w)
    <2>1. /\ pc[w] = "fail" /\ sess' = sess
          /\ \A m \in DOMAIN snap[w] : /\ SameButStatus(m) /\ msg'[m].status = "failed"
                                       /\ msg'[m].state = "failed" /\ Exists(m)
          /\ \A m \in Message \ DOMAIN snap[w] : Same(m)
      BY <1>2, MarkFailedEffect
    <2>2. \A m \in DOMAIN snap[w] : RowSteady(m) /\ msg[m].state # "pending"
      BY <1>a, <2>1
      DEF RowSteady, SameButStatus, Exists, TimelineInv, Batches, Batch, SendingPC, WorkerPC
    <2> QED BY <1>a, <2>1, <2>2, SameSessionsSteady, TimelineCalm
  <1>3. CASE LoadSession(w) \/ FinalizeIfComplete(w)
    <2>1. pc[w] \in {"load", "settle", "close"} /\ msg' = msg
      BY <1>3 DEF LoadSession, FinalizeIfComplete, Goto
    <2>2. cur[w] \in Session
      BY <1>a, <2>1, ActorTyped
    <2>3. \/ sess' = sess
          \/ \E st \in {"sending", "sent", "failed"} : SetStatus(cur[w], st) /\ SessionExists(cur[w])
      BY <1>3 DEF LoadSession, FinalizeIfComplete, Verdict
    <2>4. \A s \in Session : SessionSteady(s)
      BY <2>2, <2>3, StatusSteady, SameSessionsSteady
    <2> QED BY <1>a, <2>1, <2>4, SameMessages, TimelineCalm
  <1>4. CASE sess' = sess /\ msg' = msg
    BY <1>a, <1>4, SameMessages, SameSessionsSteady, TimelineCalm
  <1> QED BY <1>1, <1>2, <1>3, <1>4
          DEF WorkerStep, Poll, OpenClients, Raise, CommitStale, EndBatch, WorkerStale, dbVars

\* A request that adds a message is to a session nobody sends.
LEMMA AddsElsewhere ==
  ASSUME TypeOK, ControlInv, NEW h \in Handler, pc[h] = "add"
  PROVE  cur[h] \in Session /\ sess[cur[h]].status = "pending"
  BY ActorTyped DEF ControlInv, RequestsInTurn, Actor

\* One actor goes on with one session; the others work on other ones.
LEMMA TimelineSender ==
  ASSUME TypeOK, ControlInv, TurnInv, TimelineInv, NEW a \in Actor, OthersKeep(a),
         NEW c \in Session, sess[c].status \in {"approved", "scheduled", "sending"},
         \A b \in Actor \ {a} : pc[b] \in SendingPC => cur[b] # c,
         InTimeline(c)', \A s \in Session \ {c} : Steady(s),
         pc'[a] \in SendingPC, Batch(a)'
  PROVE  TimelineInv'
  <1>1. \A s \in Session : InTimeline(s)'
    <2>1. \A s \in Session \ {c} : InTimeline(s)'
      BY SteadyInTimeline DEF TimelineInv
    <2> QED BY <2>1
  <1>2. ASSUME NEW b \in Actor, pc'[b] \in SendingPC PROVE Batch(b)'
    <2>1. CASE b # a
      <3>1. /\ pc[b] \in SendingPC /\ cur'[b] = cur[b] /\ snap'[b] = snap[b]
            /\ left'[b] \subseteq left[b]
        BY <1>2, <2>1 DEF OthersKeep
      <3>2. cur[b] \in Session \ {c}
        BY <2>1, <3>1, SendersElsewhere
      <3> QED BY <3>1, <3>2, BatchSteady
    <2> QED BY <1>2, <2>1
  <1>3. ASSUME NEW h \in Handler, pc'[h] = "add" PROVE Reading(h)'
    <2>1. h # a /\ h \in Actor
      BY <1>3 DEF SendingPC, SendNowPC, WorkerPC, Actor
    <2>2. pc[h] = "add" /\ cur'[h] = cur[h] /\ snap'[h] = snap[h]
      BY <1>3, <2>1 DEF OthersKeep
    <2>3. cur[h] \in Session \ {c}
      BY <2>2, AddsElsewhere
    <2> QED BY <2>2, <2>3, ReadSteady
  <1> QED BY <1>1, <1>2, <1>3 DEF TimelineInv, Batches, AddReads

\* What is claimed is due, what still waits is not: the scheduled times rise,
\* so a batch comes before the rest of its session, and after what was heard.
LEMMA TimelineClaim ==
  ASSUME OneWorker, TypeOK, ControlInv, TurnInv, TimelineInv,
         NEW w \in Worker, NEW c \in Session, Claim(w, c)
  PROVE  TimelineInv'
  <1>1. /\ UNCHANGED <<sess, chat>> /\ left'[w] = Claimable(c) /\ DOMAIN snap'[w] = Claimable(c)
        /\ \A m \in Claimable(c) : /\ SameButStatus(m) /\ msg'[m].status = msg[m].status
                                   /\ msg'[m].state = "sending" /\ snap'[w][m] = msg'[m]
        /\ \A m \in Message \ Claimable(c) : Same(m)
    BY ClaimEffect
  <1>2. /\ w \in Actor /\ OthersKeep(w) /\ c \in todo[w] /\ cur'[w] = c /\ pc'[w] \in {"load", "settle"}
    <2>1. WorkerStep(w) /\ pc[w] = "idle" /\ c \in todo[w] /\ todo' = [todo EXCEPT ![w] = @ \ {c}]
          /\ cur' = [cur EXCEPT ![w] = c]
          /\ \E to \in {"load", "settle"} : pc' = [pc EXCEPT ![w] = to]
      BY DEF WorkerStep, Claim
    <2> QED BY <2>1, WorkerEffect DEF Actor, TypeOK, LocalsOK
  <1>3. Planned(c) /\ sess[c].status \in {"scheduled", "sending"}
    BY <1>2 DEF ControlInv, WorkersOnPlanned, TurnInv, WorkersInTurn
  <1>4. \A m \in Claimable(c) : m \in RowsOf(c) /\ msg[m].state = "pending" /\ msg[m].at <= now
    BY DEF Claimable
  <1>5. \A m \in RowsOf(c) \ Claimable(c) : msg[m].state = "pending" /\ msg[m].at # NoTime
                                              => ~ (msg[m].at <= now)
    BY DEF Claimable
  <1>6. \A m \in Message : msg'[m].sid = msg[m].sid /\ msg'[m].order = msg[m].order
                           /\ msg'[m].at = msg[m].at /\ msg'[m].status = msg[m].status
    BY <1>1 DEF Same, SameButOrder, SameButStatus
  <1>7. RowsOf(c)' = RowsOf(c) /\ Heard(c)' = Heard(c)
    BY <1>1, <1>6 DEF RowsOf, Exists, Heard
  <1>8. \A m \in RowsOf(c) \cup Heard(c) : m \in Message
    BY HeardIsMessage DEF RowsOf
  <1>9. ASSUME NEW m \in RowsOf(c), NEW n \in RowsOf(c),
               msg'[m].state # "pending", msg'[n].state = "pending"
        PROVE  msg[m].order < msg[n].order
    <2>1. n \notin Claimable(c) /\ msg[n].state = "pending"
      BY <1>1, <1>8, <1>9 DEF Same, SameButOrder
    <2>2. CASE m \in Claimable(c)
      <3>1. msg[n].at # NoTime /\ (msg[n].order <= msg[m].order => msg[n].at <= msg[m].at)
        BY <1>3 DEF TimelineInv, InTimeline, TimesRise
      <3>2. ~ (msg[n].at <= now) /\ msg[m].at <= now
        BY <1>4, <1>5, <2>1, <2>2, <3>1
      <3>3. /\ msg[m].order \in Int /\ msg[n].order \in Int
            /\ msg[m].at \in Int /\ msg[n].at \in Int /\ now \in Int
        <4>1. msg[m] \in MessageRow /\ msg[n] \in MessageRow /\ now \in Int
          BY <1>8, RowsTyped DEF TypeOK, WorldOK
        <4> QED BY <4>1 DEF MessageRow, Time, NoTime
      <3> QED BY <3>1, <3>2, <3>3
    <2>3. CASE m \notin Claimable(c)
      <3>1. msg[m].state # "pending"
        BY <1>1, <1>8, <1>9, <2>3 DEF Same, SameButOrder
      <3> QED BY <1>3, <2>1, <3>1 DEF TimelineInv, InTimeline, ClaimedFirst
    <2> QED BY <2>2, <2>3
  <1>10. InTimeline(c)'
    <2>1. HeardKnown(c)' /\ NewIsEmpty(c)'
      BY <1>1, <1>6, <1>7, <1>8 DEF TimelineInv, InTimeline, HeardKnown, NewIsEmpty
    <2>2. OrdersDiffer(c)' /\ TimesRise(c)'
      BY <1>1, <1>6, <1>7, <1>8 DEF TimelineInv, InTimeline, OrdersDiffer, TimesRise, Planned
    <2>3. ClaimedFirst(c)'
      BY <1>6, <1>7, <1>8, <1>9 DEF ClaimedFirst
    <2>4. HeardClaimed(c)'
      <3>1. \A m \in Message : msg[m].state # "pending" => msg'[m].state # "pending"
        BY <1>1 DEF Same, SameButOrder
      <3> QED BY <1>3, <1>7, <1>8, <3>1 DEF TimelineInv, InTimeline, HeardClaimed
    <2>5. HeardInOrder(c)'
      BY <1>1, <1>6, <1>8, HeardIsMessage DEF TimelineInv, InTimeline, HeardInOrder
    <2> QED BY <2>1, <2>2, <2>3, <2>4, <2>5 DEF InTimeline
  <1>11. \A s \in Session \ {c} : Steady(s)
    <2>1. \A m \in Claimable(c) : msg[m].status # "unused" /\ msg[m].sid = c /\ msg'[m].sid = c
      BY <1>4, <1>6, <1>8, RowOf DEF Exists
    <2> QED BY <1>1, <2>1, SameSessionsSteady, RowsSteady
  <1>12. Batch(w)'
    <2>1. \A m \in DOMAIN snap'[w] : /\ m \in RowsOf(c) /\ snap'[w][m].order = msg'[m].order
                                     /\ msg'[m].state # "pending"
      BY <1>1, <1>4
    <2>2. ASSUME NEW m \in left'[w], NEW n \in Heard(c) PROVE msg'[n].order < msg'[m].order
      <3>1. n \in RowsOf(c) /\ msg[n].state # "pending"
        BY <1>3, <1>8, RowOf DEF TimelineInv, InTimeline, HeardKnown, HeardClaimed, Exists
      <3>2. m \in RowsOf(c) /\ msg[m].state = "pending"
        BY <1>1, <1>4
      <3>3. msg[n].order < msg[m].order
        BY <1>3, <3>1, <3>2 DEF TimelineInv, InTimeline, ClaimedFirst
      <3> QED BY <1>6, <1>8, <3>2, <3>3
    <2>3. RowsOf(cur[w])' = RowsOf(c) /\ Heard(cur[w])' = Heard(c)
      BY <1>1, <1>2, <1>6 DEF RowsOf, Exists, Heard
    <2> QED BY <2>1, <2>2, <2>3 DEF Batch
  <1>13. \A b \in Actor \ {w} : pc[b] \in SendingPC => cur[b] # c
    BY <1>3, SendersElsewhere DEF OneWorker
  <1> QED BY <1>2, <1>3, <1>10, <1>11, <1>12, <1>13, TimelineSender DEF SendingPC, WorkerPC

\* A batch is sent in order_index order.
LEMMA TimelineDeliver ==
  ASSUME OneRequest, OneWorker, TypeOK, ControlInv, TurnInv, TimelineInv,
         NEW a \in Actor, NEW ticketed \in BOOLEAN, Deliver(a, ticketed),
         IF ticketed THEN a \in Worker ELSE a \in Handler, \A b \in Actor : GoesOn(b)
  PROVE  TimelineInv'
  <1>1. /\ msg' = msg /\ snap' = snap /\ pc[a] = "loop" /\ pc'[a] = "commit" /\ OthersKeep(a)
        /\ UNCHANGED <<sess, cur, todo>>
    BY DeliverEffect, DeliverControl
  <1>2. PICK c \in Session : /\ c = cur[a] /\ sess[c].status \in {"approved", "scheduled", "sending"}
                             /\ Planned(c) <=> a \in Worker
    BY <1>1, SendersElsewhere DEF SendingPC, WorkerPC
  <1>3. PICK m \in left[a] :
          /\ m \in Message
          /\ left' = [left EXCEPT ![a] = @ \ {m}]
          /\ \A n \in left[a] : snap[a][m].order <= snap[a][n].order
          /\ \/ chat' = chat
             \/ \E e \in Entry : e.mid = m /\ chat' = [chat EXCEPT ![c] = Append(@, e)]
    BY <1>2, DeliverEffect
  <1>4. CASE chat' = chat
    BY <1>1, <1>4, SameMessages, SameSessionsSteady, TimelineCalm
  <1>5. ASSUME NEW e \in Entry, e.mid = m, chat' = [chat EXCEPT ![c] = Append(@, e)]
        PROVE  TimelineInv'
    <2>1. /\ \A t \in Session \ {c} : chat'[t] = chat[t]
          /\ DOMAIN chat[c] = 1 .. Len(chat[c]) /\ Len(chat[c]) \in Nat
          /\ DOMAIN chat'[c] = 1 .. Len(chat[c]) + 1
          /\ \A i \in DOMAIN chat[c] : chat'[c][i] = chat[c][i]
          /\ chat'[c][Len(chat[c]) + 1] = e
      BY <1>5, Appended
    <2>2. \A n \in Heard(c)' : n \in Heard(c) \/ n = m
      <3>1. \A i \in DOMAIN chat'[c] : chat'[c][i].mid \in Heard(c) \cup {m}
        BY <1>5, <2>1 DEF Heard
      <3> QED BY <3>1 DEF Heard
    <2>3. Batch(a) /\ left[a] \subseteq DOMAIN snap[a]
      BY <1>1, ActorTyped DEF TimelineInv, Batches, SendingPC, WorkerPC
    <2>4. /\ m \in RowsOf(c) /\ m \in DOMAIN snap[a] /\ snap[a][m].order = msg[m].order
          /\ a \in Worker => msg[m].state # "pending"
          /\ \A n \in Heard(c) : msg[n].order < msg[m].order
      BY <1>2, <2>3 DEF Batch
    <2>5. InTimeline(c)
      BY DEF TimelineInv
    <2>6. RowsOf(c)' = RowsOf(c)
      BY <1>1 DEF RowsOf, Exists
    <2>7. InTimeline(c)'
      <3>1. HeardKnown(c)'
        BY <1>1, <2>2, <2>4, <2>5, RowOf DEF InTimeline, HeardKnown, Exists
      <3>2. NewIsEmpty(c)' /\ OrdersDiffer(c)' /\ TimesRise(c)' /\ ClaimedFirst(c)'
        BY <1>1, <2>5, <2>6
        DEF InTimeline, NewIsEmpty, OrdersDiffer, TimesRise, ClaimedFirst, Planned
      <3>3. HeardClaimed(c)'
        BY <1>1, <1>2, <2>2, <2>4, <2>5 DEF InTimeline, HeardClaimed, Planned
      <3>4. HeardInOrder(c)'
        <4> SUFFICES ASSUME NEW i \in DOMAIN chat'[c], NEW j \in DOMAIN chat'[c], i < j
                     PROVE  msg[chat'[c][i].mid].order < msg[chat'[c][j].mid].order
          BY <1>1 DEF HeardInOrder
        <4>1. i \in DOMAIN chat[c]
          BY <2>1
        <4>2. CASE j \in DOMAIN chat[c]
          BY <2>1, <2>5, <4>1, <4>2 DEF InTimeline, HeardInOrder
        <4>3. CASE j = Len(chat[c]) + 1
          <5>1. chat[c][i].mid \in Heard(c)
            BY <4>1 DEF Heard
          <5> QED BY <1>5, <2>1, <2>4, <4>1, <4>3, <5>1
        <4> QED BY <2>1, <4>2, <4>3
      <3> QED BY <3>1, <3>2, <3>3, <3>4 DEF InTimeline
    <2>8. \A s \in Session \ {c} : Steady(s)
      BY <1>1, <2>1, SameMessages, SameSessionsSteady, RowsSteady
    <2>9. Batch(a)'
      <3>1. RowsOf(cur[a])' = RowsOf(c) /\ Heard(cur[a])' = Heard(c)'
        BY <1>1, <1>2 DEF RowsOf, Exists, Heard
      <3>2. left'[a] = left[a] \ {m}
        BY <1>3 DEF TypeOK, LocalsOK
      <3>3. ASSUME NEW n \in left'[a], NEW k \in Heard(c)' PROVE msg[k].order < msg[n].order
        <4>1. n \in left[a] /\ n # m /\ n \in RowsOf(c) /\ snap[a][n].order = msg[n].order
          BY <1>2, <2>3, <3>2 DEF Batch
        <4>2. msg[m].order < msg[n].order
          <5>1. msg[m].order <= msg[n].order
            BY <1>3, <2>4, <4>1
          <5>2. msg[m].order # msg[n].order
            BY <2>4, <2>5, <4>1 DEF InTimeline, OrdersDiffer
          <5>3. msg[m].order \in Int /\ msg[n].order \in Int
            <6>1. msg[m] \in MessageRow /\ msg[n] \in MessageRow
              BY <2>4, <4>1, RowsTyped DEF RowsOf
            <6> QED BY <6>1 DEF MessageRow
          <5> QED BY <5>1, <5>2, <5>3
        <4>3. CASE k = m
          BY <4>2, <4>3
        <4>4. CASE k \in Heard(c)
          BY <1>2, <2>3, <4>1, <4>4 DEF Batch
        <4> QED BY <2>2, <4>3, <4>4
      <3> QED BY <1>1, <1>2, <2>3, <3>1, <3>3 DEF Batch
    <2>10. \A b \in Actor \ {a} : pc[b] \in SendingPC => cur[b] # c
      BY <1>2, SendersElsewhere DEF OneRequest, OneWorker, Actor
    <2> QED BY <1>1, <1>2, <2>7, <2>8, <2>9, <2>10, TimelineSender DEF SendingPC, WorkerPC
  <1> QED BY <1>3, <1>4, <1>5

LEMMA TimelineInit == Init => TimelineInv
  <1> SUFFICES ASSUME Init PROVE TimelineInv
    OBVIOUS
  <1>1. /\ \A a \in Actor : pc[a] = "idle"
        /\ \A s \in Session : chat[s] = <<>> /\ ~ Planned(s)
        /\ \A m \in Message : ~ Exists(m)
    BY DEF Init, RowsInit, Planned, Exists
  <1>2. \A s \in Session : Heard(s) = {} /\ RowsOf(s) = {}
    BY <1>1 DEF Heard, RowsOf
  <1>3. \A s \in Session : InTimeline(s)
    BY <1>1, <1>2
    DEF InTimeline, HeardKnown, NewIsEmpty, OrdersDiffer, TimesRise, ClaimedFirst, HeardClaimed,
        HeardInOrder
  <1>4. Batches /\ AddReads
    BY <1>1 DEF Batches, AddReads, SendingPC, SendNowPC, WorkerPC, Actor
  <1> QED BY <1>3, <1>4 DEF TimelineInv

LEMMA TimelineGenerate ==
  ASSUME TypeOK, ControlInv, OnceInv, TurnInv, TimelineInv, Generate
  PROVE  TimelineInv'
  <1>1. PICK c \in Session, S \in SUBSET Message : \E r \in Rankings(S) :
          /\ sess[c].status = "unused" /\ SetStatus(c, "pending")
          /\ UNCHANGED chat /\ UNCHANGED localVars
          /\ \A m \in S : Inserted(m, c) /\ msg'[m].order = r[m]
          /\ \A m \in Message \ S : Same(m)
    BY GenerateEffect
  <1>2. PICK r \in Rankings(S) : \A m \in S : Inserted(m, c) /\ msg'[m].order = r[m]
    BY <1>1
  <1>3. /\ \A t \in Session \ {c} : sess'[t] = sess[t]
        /\ sess'[c].status = "pending" /\ (Planned(c)' <=> Planned(c))
    BY <1>1, StatusEffect DEF Planned
  <1>4. RowsOf(c) = {} /\ chat[c] = <<>> /\ ~ Planned(c)
    BY <1>1 DEF TimelineInv, InTimeline, NewIsEmpty, OnceInv, Silent, ControlInv, SessionsInTurn
  <1>5. \A m \in RowsOf(c)' : m \in S
    BY <1>1, <1>4 DEF RowsOf, Exists, Same, SameButOrder
  <1>6. DOMAIN r = S /\ \A m, n \in S : r[m] = r[n] => m = n
    BY DEF Rankings, IsInjective
  <1>7. OrdersDiffer(c)'
    BY <1>2, <1>5, <1>6 DEF OrdersDiffer
  <1>8. InTimeline(c)'
    BY <1>1, <1>3, <1>4, <1>7, QuietTimeline
  <1>9. \A s \in Session \ {c} : Steady(s)
    <2>1. \A s \in Session \ {c} : SessionSteady(s)
      BY <1>3 DEF SessionSteady, Planned
    <2> QED BY <1>1, <2>1, RowsSteady DEF Inserted
  <1>10. \A a \in Actor : GoesOn(a)
    BY <1>1 DEF localVars, GoesOn
  <1>11. \A h \in Handler : pc'[h] = "add" => cur[h] # c
    BY <1>1, AddsElsewhere DEF localVars
  <1> QED BY <1>1, <1>8, <1>9, <1>10, <1>11, TimelineRequest

LEMMA TimelineNext ==
  ASSUME OneRequest, OneWorker, TypeOK, HeardInv, ControlInv, OnceInv, TurnInv, TimelineInv,
         [Next]_vars
  PROVE  TimelineInv'
  <1>1. ASSUME NEW h \in Handler, HandlerBegin(h) \/ HandlerStep(h) PROVE TimelineInv'
    <2>1. CASE Deliver(h, FALSE)
      BY <2>1, SendNowGoesOn, TimelineDeliver DEF SendNowStep, Actor
    <2> QED BY <1>1, <2>1, TimelineBegin, TimelineReview, TimelineSendNow DEF HandlerStep
  <1>2. ASSUME NEW w \in Worker, WorkerStep(w) PROVE TimelineInv'
    <2>1. CASE Deliver(w, TRUE)
      <3>1. \A s \in Session : ~ Claim(w, s)
        BY <2>1 DEF Deliver, Claim
      <3> QED BY <1>2, <2>1, <3>1, WorkerGoesOn, TimelineDeliver DEF Actor
    <2> QED BY <1>2, <2>1, TimelineClaim, TimelineWorker
  <1>3. ASSUME sess' = sess, msg' = msg, chat' = chat, \A a \in Actor : GoesOn(a)
        PROVE  TimelineInv'
    BY <1>3, SameMessages, SameSessionsSteady, TimelineCalm
  <1>4. ASSUME NEW a \in Actor, DatabaseError(a) PROVE TimelineInv'
    <2>1. OthersKeep(a) /\ pc'[a] = "idle"
      BY <1>4, ReturnEffect DEF DatabaseError
    <2> QED BY <1>3, <1>4, <2>1, ReturnGoesOn DEF DatabaseError, dbVars
  <1>5. CASE Tick \/ UNCHANGED vars
    BY <1>3, <1>5 DEF Tick, vars, dbVars, worldVars, localVars, GoesOn
  <1>6. CASE Crash
    BY <1>3, <1>6 DEF Crash, dbVars, GoesOn, SendingPC, SendNowPC, WorkerPC
  <1> QED BY <1>1, <1>2, <1>4, <1>5, <1>6, TimelineGenerate DEF Next

-----------------------------------------------------------------------------
(* The proof of VerdictInv *)

\* A row is not marked as sent but with its delivery.
RowAgrees(m) ==
  /\ msg'[m].status = "unused" => msg[m].status = "unused" /\ msg'[m].state = msg[m].state
  /\ Exists(m)' /\ msg'[m].state = "sent" =>
       msg'[m].status = "sent" \/ (Exists(m) /\ msg[m].state = "sent" /\ msg'[m].status = msg[m].status)

\* The rows of a session and their columns stay what they are.
Still(s) ==
  /\ RowsOf(s)' = RowsOf(s)
  /\ \A m \in RowsOf(s) : msg'[m].status = msg[m].status /\ msg'[m].state = msg[m].state

\* And so does its verdict.
Calm(s) ==
  /\ Still(s) /\ (Planned(s)' <=> Planned(s))
  /\ sess'[s].status \in {"sent", "failed"} => sess'[s].status = sess[s].status

LEMMA RowsStill ==
  ASSUME NEW s \in Session,
         \A m \in Message : \/ Same(m) \/ SameButOrder(m)
                            \/ msg[m].status = "unused" /\ msg'[m].sid # s
                            \/ msg[m].status # "unused" /\ msg[m].sid # s /\ msg'[m].sid # s
  PROVE  Still(s)
  <1>1. \A m \in Message : m \in RowsOf(s)' <=> m \in RowsOf(s)
    BY RowOf DEF RowsOf, Exists, Same, SameButOrder
  <1>2. RowsOf(s)' = RowsOf(s)
    BY <1>1 DEF RowsOf
  <1>3. \A m \in RowsOf(s) : msg'[m].status = msg[m].status /\ msg'[m].state = msg[m].state
    BY RowOf DEF Same, SameButOrder, Exists
  <1> QED BY <1>2, <1>3 DEF Still

LEMMA CalmVerdict ==
  ASSUME NEW s \in Session, InVerdict(s), Calm(s)
  PROVE  InVerdict(s)'
  BY DEF InVerdict, Calm, Still

LEMMA RowsAgree ==
  ASSUME \A m \in Message :
           \/ Same(m) \/ SameButOrder(m) \/ \E s : Inserted(m, s)
           \/ msg'[m].status = "deleted"
           \/ msg'[m].status # "unused" /\ (msg'[m].state = "sent" => msg'[m].status = "sent"),
         SentBoth
  PROVE  SentBoth'
  <1>1. ASSUME NEW m \in Message PROVE RowAgrees(m)
    BY DEF SentBoth, RowAgrees, Same, SameButOrder, Inserted, Exists
  <1> QED BY <1>1 DEF SentBoth, RowAgrees, Exists

\* A request that goes on where it is while nobody writes its rows, or one
\* that does not send.
LEMMA StillCounted ==
  ASSUME TypeOK, NEW h \in Handler, Counted(h),
         pc'[h] = pc[h], cur'[h] = cur[h], mid'[h] = mid[h], left'[h] = left[h], tally'[h] = tally[h],
         pc[h] \in SendNowPC => \A s \in Session : s = cur[h] => Still(s)
  PROVE  Counted(h)'
  <1>1. CASE pc[h] \in SendNowPC
    <2>1. PICK s \in Session : s = cur[h]
      BY <1>1, ActorTyped DEF Actor, SendNowPC
    <2>2. Still(s)
      BY <1>1, <2>1
    <2>3. RowsOf(cur[h])' = RowsOf(s) /\ AtHand(h)' = AtHand(h)
      BY <2>1, <2>2 DEF Still, RowsOf, Exists, AtHand
    <2> QED BY <2>1, <2>2, <2>3 DEF Counted, Still
  <1>2. CASE pc[h] \notin SendNowPC
    BY <1>2 DEF Counted, SendNowPC
  <1> QED BY <1>1, <1>2

LEMMA IdleCounted ==
  ASSUME NEW h \in Handler, pc'[h] \notin SendNowPC, tally'[h] = {}
  PROVE  Counted(h)'
  BY DEF Counted, SendNowPC

\* A request that sends is of an unplanned session.
LEMMA SendersUnplanned ==
  ASSUME TypeOK, ControlInv, NEW h \in Handler, pc[h] \in SendNowPC
  PROVE  cur[h] \in Session /\ ~ Planned(cur[h]) /\ sess[cur[h]].status \in {"approved", "sending"}
  BY ActorTyped DEF Actor, SendNowPC, ControlInv, RequestsInTurn, SessionsInTurn

LEMMA VerdictReview ==
  ASSUME OneRequest, TypeOK, HeardInv, ControlInv, TurnInv, VerdictInv,
         NEW h \in Handler, ReviewStep(h)
  PROVE  VerdictInv'
  <1>a. Return(h) /\ todo' = todo
    BY DEF ReviewStep, ApproveNow, ApproveAt, Reject, Delete, Add, Remove, EditText,
           EditGap, WriteStale, Finish
  <1>b. Counts'
    <2>1. pc'[h] = "idle" /\ tally'[h] = {} /\ \A g \in Handler : g = h
      BY <1>a, ReturnEffect DEF OneRequest, Actor
    <2> QED BY <2>1, IdleCounted DEF Counts, SendNowPC
  <1>c. ASSUME NEW c \in Session, sess'[c].status \notin {"sent", "failed"},
               \A s \in Session \ {c} : sess'[s] = sess[s],
               \A m \in Message : \/ Same(m)
                                  \/ msg[m].status = "unused" /\ msg'[m].sid = c
                                  \/ msg[m].status # "unused" /\ msg[m].sid = c /\ msg'[m].sid = c
        PROVE  \A s \in Session : InVerdict(s)'
    <2>1. InVerdict(c)'
      BY <1>c DEF InVerdict
    <2>2. ASSUME NEW s \in Session \ {c} PROVE InVerdict(s)'
      <3>1. Still(s)
        BY <1>c, RowsStill
      <3>2. Calm(s)
        BY <1>c, <3>1 DEF Calm, Planned
      <3> QED BY <3>2, CalmVerdict DEF VerdictInv
    <2> QED BY <2>1, <2>2
  <1>d. ASSUME sess' = sess, \A m \in Message : Same(m) PROVE VerdictInv'
    <2>1. \A s \in Session : Calm(s)
      BY <1>d, RowsStill DEF Calm, Planned
    <2>2. SentBoth'
      BY <1>d, RowsAgree DEF VerdictInv
    <2> QED BY <1>b, <2>1, <2>2, CalmVerdict DEF VerdictInv
  <1>1. ASSUME NEW st \in {"approved", "rejected"}, cur[h] \in Session,
               sess'[cur[h]].status = st, \A t \in Session \ {cur[h]} : sess'[t] = sess[t], msg' = msg
        PROVE  VerdictInv'
    <2>1. \A s \in Session : InVerdict(s)'
      BY <1>1, <1>c, SameMessages
    <2>2. SentBoth'
      BY <1>1, RowsAgree, SameMessages DEF VerdictInv
    <2> QED BY <1>b, <2>1, <2>2 DEF VerdictInv
  <1>2. CASE ApproveNow(h)
    BY <1>1, <1>2, ApproveNowEffect
  <1>3. CASE Reject(h)
    <2>1. cur[h] \in Session /\ SetStatus(cur[h], "rejected") /\ msg' = msg
      BY <1>3, ActorTyped DEF Reject, Finish, Actor
    <2> QED BY <1>1, <2>1, StatusEffect
  <1>4. ASSUME NEW start \in Start, ApproveAt(h, start) PROVE VerdictInv'
    <2>0. PICK c \in Session : c = cur[h]
      BY <1>4, ApproveAtEffect
    <2>1. /\ sess'[c].status = "scheduled" /\ \A t \in Session \ {c} : sess'[t] = sess[t]
      BY <1>4, <2>0, ApproveAtEffect
    <2>2. /\ \A m \in RowsOf(cur[h]) : /\ msg'[m].state = "pending" /\ msg'[m].status = msg[m].status
                                       /\ msg'[m].sid = msg[m].sid
          /\ \A m \in Message \ RowsOf(cur[h]) : Same(m)
      BY <1>4, ApproveAtRows
    <2>3. \A m \in RowsOf(cur[h]) : msg[m].status # "unused" /\ msg[m].sid = c /\ msg'[m].sid = c
      BY <2>0, <2>2 DEF RowsOf, Exists
    <2>4. SentBoth'
      BY <2>2, <2>3, RowsAgree DEF VerdictInv
    <2>5. \A s \in Session : InVerdict(s)'
      BY <1>c, <2>1, <2>2, <2>3
    <2> QED BY <1>b, <2>4, <2>5 DEF VerdictInv
  <1>5. CASE Delete(h)
    <2>0. PICK c \in Session : c = cur[h]
      BY <1>5, DeleteEffect
    <2>1. /\ SetStatus(c, "deleted")
          /\ \A m \in RowsOf(c) : SameButStatus(m) /\ msg'[m].status = "deleted"
          /\ \A m \in Message \ RowsOf(c) : Same(m)
      BY <1>5, <2>0, DeleteEffect
    <2>2. \A m \in RowsOf(c) : msg[m].status # "unused" /\ msg[m].sid = c /\ msg'[m].sid = c
      BY <2>1 DEF RowsOf, Exists, SameButStatus
    <2>3. sess'[c].status = "deleted" /\ \A t \in Session \ {c} : sess'[t] = sess[t]
      BY <2>1, StatusEffect
    <2>4. SentBoth'
      BY <2>1, RowsAgree DEF VerdictInv
    <2>5. \A s \in Session : InVerdict(s)'
      BY <1>c, <2>1, <2>2, <2>3
    <2> QED BY <1>b, <2>4, <2>5 DEF VerdictInv
  <1>6. ASSUME NEW pos \in 0 .. Cardinality(Message), NEW gap \in Gap, Add(h, pos, gap)
        PROVE  VerdictInv'
    <2>0. PICK c \in Session : c = cur[h]
      BY <1>6, AddEffect
    <2>1. /\ pc[h] = "add" /\ sess' = sess /\ mid[h] \in Message /\ Inserted(mid[h], c)
          /\ \A n \in Message \ {mid[h]} : SameButOrder(n)
      BY <1>6, <2>0, AddEffect
    <2>2. sess[c].status = "pending"
      BY <2>0, <2>1 DEF ControlInv, RequestsInTurn
    <2>3. \A s \in Session \ {c} : InVerdict(s)'
      <3>1. \A s \in Session \ {c} : Still(s)
        BY <2>1, RowsStill DEF Inserted
      <3> QED BY <2>1, <3>1, CalmVerdict DEF Calm, Planned, VerdictInv
    <2>4. InVerdict(c)'
      BY <2>1, <2>2 DEF InVerdict
    <2>5. SentBoth'
      BY <2>1, RowsAgree DEF VerdictInv
    <2>6. \A s \in Session : InVerdict(s)'
      BY <2>3, <2>4
    <2> QED BY <1>b, <2>5, <2>6 DEF VerdictInv
  <1>7. CASE Remove(h)
    <2>0. PICK c \in Session : c = cur[h]
      BY <1>7, RemoveEffect
    <2>1. /\ pc[h] = "remove" /\ sess' = sess /\ mid[h] \in Message
          /\ SameButStatus(mid[h]) /\ msg'[mid[h]].status = "deleted"
          /\ msg[mid[h]].status # "unused" /\ msg[mid[h]].sid = c
          /\ \A n \in Message \ {mid[h]} : SameButOrder(n) \/ Same(n)
      BY <1>7, <2>0, RemoveEffect DEF HeardInv, Reserved
    <2>2. sess[c].status = "pending"
      BY <2>0, <2>1 DEF ControlInv, RequestsInTurn
    <2>3. \A s \in Session \ {c} : InVerdict(s)'
      <3>1. \A s \in Session \ {c} : Still(s)
        BY <2>1, RowsStill DEF SameButStatus
      <3> QED BY <2>1, <3>1, CalmVerdict DEF Calm, Planned, VerdictInv
    <2>4. InVerdict(c)'
      BY <2>1, <2>2 DEF InVerdict
    <2>5. SentBoth'
      BY <2>1, RowsAgree DEF VerdictInv
    <2>6. \A s \in Session : InVerdict(s)'
      BY <2>3, <2>4
    <2> QED BY <1>b, <2>5, <2>6 DEF VerdictInv
  <1>8. CASE EditText(h) \/ \E gap \in Gap : EditGap(h, gap)
    BY <1>d, <1>8, EditEffect
  <1>9. CASE WriteStale(h)
    BY <1>d, <1>9, SameMessages DEF WriteStale, dbVars
  <1> QED BY <1>2, <1>3, <1>4, <1>5, <1>6, <1>7, <1>8, <1>9 DEF ReviewStep

LEMMA VerdictBegin ==
  ASSUME OneRequest, TypeOK, HeardInv, OnceInv, VerdictInv, NEW h \in Handler, HandlerBegin(h)
  PROVE  VerdictInv'
  <1>a. h \in Actor /\ sess' = sess /\ msg' = msg
    BY DEF Actor, HandlerBegin, ReviewBegin, SendNowBegin, BeginApprove, BeginReject, BeginDelete,
           BeginAdd, BeginRemove, BeginEdit, BeginSendNow, Begin, dbVars
  <1>b. SentBoth' /\ \A s \in Session : InVerdict(s)'
    <2>1. \A s \in Session : Calm(s)
      BY <1>a, SameMessages, RowsStill DEF Calm, Planned
    <2> QED BY <1>a, <2>1, CalmVerdict, SameMessages, RowsAgree DEF VerdictInv
  <1>1. CASE ReviewBegin(h)
    <2>1. pc[h] = "idle" /\ pc'[h] \in ReviewPC /\ tally' = tally
      BY <1>a, <1>1
      DEF ReviewBegin, BeginApprove, BeginReject, BeginDelete, BeginAdd, BeginRemove, BeginEdit,
          Begin, ReviewPC, TypeOK, LocalsOK
    <2>2. Counted(h)'
      BY <2>1, IdleCounted DEF VerdictInv, Counts, Counted, ReviewPC, SendNowPC
    <2> QED BY <1>b, <2>2 DEF OneRequest, Counts, VerdictInv
  <1>2. ASSUME NEW s \in Session, BeginSendNow(h, s) PROVE VerdictInv'
    <2>1. /\ pc[h] = "idle" /\ sess[s].status = "approved" /\ RowsOf(s) # {}
          /\ pc'[h] = "mark" /\ cur'[h] = s /\ tally' = tally
          /\ left'[h] = {m \in RowsOf(s) : msg[m].status # "sent"}
      BY <1>a, <1>2 DEF BeginSendNow, TypeOK, LocalsOK
    <2>2. \A m \in RowsOf(s) : msg[m].status # "sent"
      <3>1. Heard(s) = {}
        BY <2>1 DEF OnceInv, Silent, Heard
      <3> QED BY <3>1, RowOf DEF HeardInv, SentWasHeard
    <2>3. left'[h] = RowsOf(s)
      BY <2>1, <2>2
    <2>4. RowsOf(cur[h])' = RowsOf(s)
      BY <1>a, <2>1 DEF RowsOf, Exists
    <2>5. AtHand(h)' = RowsOf(s)
      BY <2>3, <2>4 DEF AtHand
    <2>6. tally[h] = {}
      BY <2>1 DEF VerdictInv, Counts, Counted, SendNowPC
    <2>7. Counted(h)'
      BY <2>1, <2>3, <2>4, <2>5, <2>6 DEF Counted
    <2> QED BY <1>b, <2>7 DEF OneRequest, Counts, VerdictInv
  <1> QED BY <1>1, <1>2 DEF HandlerBegin, SendNowBegin

\* What is at hand of a request shrinks by what it has answered.
LEMMA VerdictSendNow ==
  ASSUME OneRequest, TypeOK, HeardInv, ControlInv, TimelineInv, VerdictInv,
         NEW h \in Handler, SendNowStep(h)
  PROVE  VerdictInv'
  <1>a. /\ OthersKeep(h) /\ cur[h] \in Session /\ pc[h] \in SendNowPC
        /\ h \in Actor /\ \A g \in Handler : g = h
    BY SendNowEffect DEF OneRequest, Actor
  <1>b. ~ Planned(cur[h]) /\ Counted(h)
    BY <1>a, SendersUnplanned DEF VerdictInv, Counts
  <1>c. PICK c \in Session : c = cur[h]
    BY <1>a
  <1>1. ASSUME msg' = msg, Counted(h)',
               \/ sess' = sess
               \/ \E st : SetStatus(c, st) /\ (st = "sent" => InVerdict(c)')
        PROVE  VerdictInv'
    <2>1. \A s \in Session : Still(s)
      BY <1>1, SameMessages, RowsStill
    <2>2. SentBoth'
      BY <1>1, SameMessages, RowsAgree DEF VerdictInv
    <2>3. CASE sess' = sess
      <3>1. \A s \in Session : InVerdict(s)'
        BY <2>1, <2>3, CalmVerdict DEF Calm, Planned, VerdictInv
      <3> QED BY <1>a, <1>1, <2>2, <3>1 DEF VerdictInv, Counts
    <2>4. ASSUME NEW st, SetStatus(c, st), st = "sent" => InVerdict(c)'
          PROVE  VerdictInv'
      <3>1. /\ \A t \in Session \ {c} : sess'[t] = sess[t]
            /\ sess'[c].status = st /\ sess'[c].start = sess[c].start
        BY <2>4, StatusEffect
      <3>2. \A s \in Session \ {c} : InVerdict(s)'
        BY <2>1, <3>1, CalmVerdict DEF Calm, Planned, VerdictInv
      <3>3. InVerdict(c)'
        BY <1>b, <1>c, <2>4, <3>1 DEF InVerdict, Planned
      <3>4. \A s \in Session : InVerdict(s)'
        BY <3>2, <3>3
      <3> QED BY <1>a, <1>1, <2>2, <3>4 DEF VerdictInv, Counts
    <2> QED BY <1>1, <2>3, <2>4
  <1>2. ASSUME Return(h) PROVE Counted(h)'
    <2>1. pc'[h] = "idle" /\ tally'[h] = {}
      BY <1>a, <1>2 DEF Return, TypeOK, LocalsOK
    <2> QED BY <2>1, IdleCounted DEF SendNowPC
  <1>3. ASSUME msg' = msg, cur' = cur, left' = left, tally' = tally,
               \/ pc[h] = "mark" /\ pc'[h] = "open"
               \/ pc[h] = "open" /\ pc'[h] = "loop"
               \/ pc'[h] = "abort" /\ pc[h] \in {"open", "commit"}
        PROVE  Counted(h)'
    <2>1. RowsOf(cur[h])' = RowsOf(cur[h])
      BY <1>3 DEF RowsOf, Exists
    <2>2. AtHand(h)' \subseteq AtHand(h) /\ (pc'[h] # "abort" => AtHand(h)' = AtHand(h))
      BY <1>3, <2>1 DEF AtHand
    <2>3. tally'[h] = tally[h] /\ left'[h] = left[h]
      BY <1>3
    <2>4. "sent" \in tally[h] => \E m \in RowsOf(cur[h]) \ AtHand(h) : msg[m].status = "sent"
      BY <1>b DEF Counted
    <2>5. "sent" \in tally'[h] => (\E m \in RowsOf(cur[h]) \ AtHand(h) : msg[m].status = "sent")'
      BY <1>3, <2>1, <2>2, <2>3, <2>4
    <2> QED BY <1>b, <1>3, <2>1, <2>2, <2>3, <2>5 DEF Counted, SendNowPC
  <1>4. CASE MarkSending(h)
    <2>1. /\ pc[h] = "mark" /\ pc'[h] = "open" /\ SetStatus(cur[h], "sending")
          /\ UNCHANGED <<msg, cur, left, tally>>
      BY <1>a, <1>4 DEF MarkSending, Goto, TypeOK, LocalsOK
    <2> QED BY <1>c, <1>1, <1>3, <2>1
  <1>5. CASE OpenClients(h, "abort") \/ Raise(h, "abort")
    <2>1. /\ \/ pc[h] = "open" /\ pc'[h] = "loop"
             \/ pc'[h] = "abort" /\ pc[h] \in {"open", "commit"}
          /\ UNCHANGED <<sess, msg, cur, left, tally>>
      BY <1>a, <1>5 DEF OpenClients, Raise, Goto, dbVars, TypeOK, LocalsOK
    <2> QED BY <1>1, <1>3, <2>1
  <1>6. CASE CommitStale(h) \/ NowStale(h)
    BY <1>1, <1>2, <1>6 DEF CommitStale, NowStale, dbVars
  <1>7. CASE AbortNow(h)
    BY <1>c, <1>1, <1>2, <1>7 DEF AbortNow
  <1>8. CASE CloseNow(h)
    <2>1. /\ pc[h] = "loop" /\ left[h] = {} /\ Return(h) /\ msg' = msg
          /\ SetStatus(c, IF tally[h] = {"failed"} THEN "failed" ELSE "sent")
      BY <1>c, <1>8 DEF CloseNow
    <2>2. AtHand(h) = {}
      BY <2>1 DEF AtHand
    <2>3. tally[h] # {} /\ tally[h] \subseteq TerminalState
      BY <1>a, <1>b, <2>1 DEF Counted, TypeOK, LocalsOK
    <2>4. ASSUME tally[h] # {"failed"} PROVE InVerdict(c)'
      <3>1. "sent" \in tally[h]
        BY <2>3, <2>4 DEF TerminalState
      <3>2. /\ \E m \in RowsOf(c) : msg[m].status = "sent"
            /\ \A m \in RowsOf(c) : msg[m].state \in TerminalState
        BY <1>b, <1>c, <2>1, <2>2, <3>1 DEF Counted
      <3>3. sess'[c].status = "sent" /\ ~ Planned(c)'
        BY <1>b, <1>c, <2>1, <2>4, StatusEffect DEF Planned
      <3>4. RowsOf(c)' = RowsOf(c)
        BY <2>1 DEF RowsOf, Exists
      <3> QED BY <2>1, <3>2, <3>3, <3>4 DEF InVerdict
    <2> QED BY <1>1, <1>2, <2>1, <2>4
  <1>9. CASE Deliver(h, FALSE)
    <2>1. /\ pc[h] = "loop" /\ pc'[h] = "commit" /\ UNCHANGED <<sess, msg, cur, tally>>
          /\ \E m \in left[h] : /\ mid' = [mid EXCEPT ![h] = m]
                                /\ left' = [left EXCEPT ![h] = @ \ {m}]
      BY <1>a, <1>9 DEF Deliver, dbVars, TypeOK, LocalsOK
    <2>2. PICK m \in left[h] : mid'[h] = m /\ left'[h] = left[h] \ {m}
      BY <1>a, <2>1 DEF TypeOK, LocalsOK
    <2>3. RowsOf(cur[h])' = RowsOf(cur[h])
      BY <2>1 DEF RowsOf, Exists
    <2>4. AtHand(h)' = AtHand(h)
      BY <2>1, <2>2, <2>3 DEF AtHand
    <2>5. Counted(h)'
      BY <1>b, <2>1, <2>2, <2>3, <2>4 DEF Counted, SendNowPC
    <2> QED BY <1>1, <2>1, <2>5
  <1>10. CASE CommitResult(h)
    <2>1. /\ pc[h] = "commit" /\ pc'[h] = "loop" /\ UNCHANGED <<sess, cur, left>>
          /\ mid[h] \in Message /\ Exists(mid[h]) /\ result[h] \in TerminalState
          /\ SameButStatus(mid[h]) /\ msg'[mid[h]].status = result[h]
          /\ msg'[mid[h]].state = result[h]
          /\ tally'[h] = tally[h] \cup {result[h]}
          /\ \A m \in Message \ {mid[h]} : Same(m)
      BY <1>a, <1>10, CommitEffect DEF CommitResult, Goto, TypeOK, LocalsOK
    <2>2. mid[h] \in RowsOf(c) /\ mid[h] \notin left[h]
      BY <1>a, <1>b, <1>c, <2>1, RowOf DEF HeardInv, ReadRows, Answered, Counted
    <2>3. \A m \in Message : m \in RowsOf(c)' <=> m \in RowsOf(c)
      BY <2>1 DEF RowsOf, Exists, Same, SameButOrder, SameButStatus, TerminalState
    <2>4. RowsOf(c)' = RowsOf(c) /\ RowsOf(cur[h])' = RowsOf(c)'
      BY <1>c, <2>1, <2>3 DEF RowsOf, Exists
    <2>5. AtHand(h)' = {m \in RowsOf(c) : m \in left[h]}
      BY <2>1, <2>4 DEF AtHand
    <2>6. AtHand(h) = {m \in RowsOf(c) : m \in left[h] \/ m = mid[h]}
      BY <1>c, <2>1 DEF AtHand
    <2>7. \A m \in RowsOf(c) \ {mid[h]} : msg'[m].status = msg[m].status /\ msg'[m].state = msg[m].state
      BY <2>1, RowOf DEF Same, SameButOrder
    <2>8. \A m \in RowsOf(c) \ AtHand(h)' : msg'[m].state \in TerminalState
      BY <1>b, <1>c, <2>1, <2>5, <2>6, <2>7 DEF Counted
    <2>9. "sent" \in tally'[h] => \E m \in RowsOf(c) \ AtHand(h)' : msg'[m].status = "sent"
      <3>1. CASE result[h] = "sent"
        BY <2>1, <2>2, <2>5, <3>1
      <3>2. CASE "sent" \in tally[h]
        BY <1>b, <1>c, <2>5, <2>6, <2>7, <3>2 DEF Counted
      <3> QED BY <2>1, <3>1, <3>2
    <2>10. Counted(h)'
      BY <2>1, <2>4, <2>8, <2>9 DEF Counted, SendNowPC
    <2>11. SentBoth'
      BY <2>1, RowsAgree DEF VerdictInv, TerminalState
    <2>12. sess[c].status = "sending"
      BY <1>c, <2>1 DEF ControlInv, RequestsInTurn
    <2>13. \A s \in Session \ {c} : InVerdict(s)'
      <3>1. \A s \in Session \ {c} : Still(s)
        BY <2>1, <2>2, RowOf, RowsStill DEF SameButStatus, Exists
      <3> QED BY <2>1, <3>1, CalmVerdict DEF Calm, Planned, VerdictInv
    <2>14. InVerdict(c)'
      BY <2>1, <2>12 DEF InVerdict
    <2>15. \A s \in Session : InVerdict(s)'
      BY <2>13, <2>14
    <2> QED BY <1>a, <2>10, <2>11, <2>15 DEF VerdictInv, Counts
  <1> QED BY <1>4, <1>5, <1>6, <1>7, <1>8, <1>9, <1>10 DEF SendNowStep

\* A worker writes rows of planned sessions it may send, and closes a session
\* with what its rows say.
LEMMA VerdictWorker ==
  ASSUME TypeOK, HeardInv, ControlInv, TurnInv, TimelineInv, VerdictInv,
         NEW w \in Worker, WorkerStep(w)
  PROVE  VerdictInv'
  <1>a. /\ OthersKeep(w) /\ w \in Actor
        /\ \A h \in Handler : h \in Actor \ {w}
    BY WorkerEffect, SessionRowsAssumption DEF Actor
  <1>b. ASSUME \A s \in Session : ~ Planned(s) => Still(s)
        PROVE  Counts'
    <2> SUFFICES ASSUME NEW h \in Handler PROVE Counted(h)'
      BY DEF Counts
    <2>1. /\ pc'[h] = pc[h] /\ cur'[h] = cur[h] /\ mid'[h] = mid[h] /\ left'[h] = left[h]
          /\ tally'[h] = tally[h]
      BY <1>a DEF OthersKeep
    <2>2. pc[h] \in SendNowPC => ~ Planned(cur[h])
      BY SendersUnplanned
    <2> QED BY <1>b, <2>1, <2>2, StillCounted DEF VerdictInv, Counts
  <1>c. ASSUME sess' = sess, SentBoth', NEW c \in Session, Planned(c),
               sess[c].status \in {"scheduled", "sending"},
               \A m \in Message : \/ Same(m)
                                  \/ msg[m].status # "unused" /\ msg[m].sid = c /\ msg'[m].sid = c
        PROVE  VerdictInv'
    <2>1. \A s \in Session \ {c} : Still(s)
      BY <1>c, RowsStill
    <2>2. \A s \in Session \ {c} : InVerdict(s)'
      BY <1>c, <2>1, CalmVerdict DEF Calm, Planned, VerdictInv
    <2>3. InVerdict(c)'
      BY <1>c DEF InVerdict
    <2>4. \A s \in Session : InVerdict(s)'
      BY <2>2, <2>3
    <2>5. Counts'
      BY <1>b, <1>c, <2>1
    <2> QED BY <1>c, <2>4, <2>5 DEF VerdictInv
  <1>d. ASSUME msg' = msg,
               \/ sess' = sess
               \/ \E c \in Session : \E st : SetStatus(c, st) /\ (st \in {"sent", "failed"} => InVerdict(c)')
        PROVE  VerdictInv'
    <2>1. \A s \in Session : Still(s)
      BY <1>d, SameMessages, RowsStill
    <2>2. SentBoth' /\ Counts'
      BY <1>b, <1>d, <2>1, SameMessages, RowsAgree DEF VerdictInv
    <2>3. CASE sess' = sess
      BY <2>1, <2>2, <2>3, CalmVerdict DEF Calm, Planned, VerdictInv
    <2>4. ASSUME NEW c \in Session, NEW st, SetStatus(c, st),
                 st \in {"sent", "failed"} => InVerdict(c)'
          PROVE  VerdictInv'
      <3>1. /\ \A t \in Session \ {c} : sess'[t] = sess[t]
            /\ sess'[c].status = st
        BY <2>4, StatusEffect
      <3>2. \A s \in Session \ {c} : InVerdict(s)'
        BY <2>1, <3>1, CalmVerdict DEF Calm, Planned, VerdictInv
      <3>3. InVerdict(c)'
        BY <2>4, <3>1 DEF InVerdict
      <3>4. \A s \in Session : InVerdict(s)'
        BY <3>2, <3>3
      <3> QED BY <2>2, <3>4 DEF VerdictInv
    <2> QED BY <1>d, <2>3, <2>4
  <1>1. ASSUME NEW s \in Session, Claim(w, s) PROVE VerdictInv'
    <2>1. /\ sess' = sess
          /\ \A m \in Claimable(s) : /\ SameButStatus(m) /\ msg'[m].status = msg[m].status
                                     /\ msg'[m].state = "sending"
          /\ \A m \in Message \ Claimable(s) : Same(m)
      BY <1>1, ClaimEffect
    <2>2. \A m \in Claimable(s) : msg[m].status # "unused" /\ msg[m].sid = s /\ msg'[m].sid = s
      BY <2>1 DEF Claimable, RowsOf, Exists, SameButStatus
    <2>3. Planned(s) /\ sess[s].status \in {"scheduled", "sending"}
      BY <1>1 DEF Claim, ControlInv, WorkersOnPlanned, TurnInv, WorkersInTurn
    <2>4. SentBoth'
      BY <2>1, <2>2, RowsAgree DEF VerdictInv
    <2> QED BY <1>c, <2>1, <2>2, <2>3, <2>4
  <1>2. CASE CommitResult(w)
    <2>1. /\ pc[w] = "commit" /\ sess' = sess /\ mid[w] \in Message /\ Exists(mid[w])
          /\ result[w] \in TerminalState
          /\ SameButStatus(mid[w]) /\ msg'[mid[w]].status = result[w]
          /\ msg'[mid[w]].state = result[w]
          /\ \A m \in Message \ {mid[w]} : Same(m)
      BY <1>a, <1>2, CommitEffect
    <2>2. PICK c \in Session : c = cur[w]
      BY <1>a, <2>1, ActorTyped
    <2>3. Planned(c) /\ sess[c].status = "sending"
      BY <2>1, <2>2 DEF ControlInv, WorkersOnPlanned, TurnInv, WorkersInTurn
    <2>4. mid[w] \in RowsOf(c)
      BY <1>a, <2>1, <2>2
      DEF HeardInv, Answered, TimelineInv, Batches, Batch, SendingPC, WorkerPC
    <2>5. msg[mid[w]].status # "unused" /\ msg[mid[w]].sid = c /\ msg'[mid[w]].sid = c
      BY <2>1, <2>4 DEF RowsOf, Exists, SameButStatus
    <2>6. SentBoth'
      BY <2>1, RowsAgree DEF VerdictInv, TerminalState
    <2> QED BY <1>c, <2>1, <2>3, <2>5, <2>6
  <1>3. CASE MarkClaimedFailed(w)
    <2>1. /\ pc[w] = "fail" /\ sess' = sess
          /\ \A m \in DOMAIN snap[w] : /\ SameButStatus(m) /\ msg'[m].status = "failed"
                                       /\ msg'[m].state = "failed" /\ Exists(m)
          /\ \A m \in Message \ DOMAIN snap[w] : Same(m)
      BY <1>3, MarkFailedEffect
    <2>2. PICK c \in Session : c = cur[w]
      BY <1>a, <2>1, ActorTyped
    <2>3. Planned(c) /\ sess[c].status = "sending"
      BY <2>1, <2>2 DEF ControlInv, WorkersOnPlanned, TurnInv, WorkersInTurn
    <2>4. \A m \in DOMAIN snap[w] : msg[m].status # "unused" /\ msg[m].sid = c /\ msg'[m].sid = c
      BY <1>a, <2>1, <2>2
      DEF TimelineInv, Batches, Batch, SendingPC, WorkerPC, RowsOf, Exists, SameButStatus
    <2>5. SentBoth'
      BY <2>1, RowsAgree DEF VerdictInv
    <2> QED BY <1>c, <2>1, <2>3, <2>4, <2>5
  <1>4. CASE LoadSession(w)
    <2>1. pc[w] = "load" /\ msg' = msg /\ SetStatus(cur[w], "sending")
      BY <1>4 DEF LoadSession, Goto
    <2>2. cur[w] \in Session
      BY <1>a, <2>1, ActorTyped
    <2> QED BY <1>d, <2>1, <2>2
  <1>5. CASE FinalizeIfComplete(w)
    <2>1. pc[w] \in {"settle", "close"} /\ msg' = msg
      BY <1>5 DEF FinalizeIfComplete
    <2>2. PICK c \in Session : c = cur[w]
      BY <1>a, <2>1, ActorTyped
    <2>3. \/ sess' = sess
          \/ AllTerminal(c) /\ SetStatus(c, Verdict(c))
      BY <1>5, <2>2 DEF FinalizeIfComplete
    <2>4. ASSUME AllTerminal(c), SetStatus(c, Verdict(c)) PROVE InVerdict(c)'
      <3>1. sess'[c].status = Verdict(c) /\ sess'[c].start = sess[c].start
        BY <2>4, StatusEffect
      <3>2. Planned(c)'
        BY <2>1, <2>2, <3>1 DEF ControlInv, WorkersOnPlanned, Planned
      <3>3. RowsOf(c)' = RowsOf(c)
        BY <2>1 DEF RowsOf, Exists
      <3>4. /\ Verdict(c) = "failed" => \E m \in RowsOf(c) : msg[m].state = "failed"
            /\ Verdict(c) = "sent" => \A m \in RowsOf(c) : msg[m].state = "sent"
        BY <2>4 DEF Verdict, AllTerminal, TerminalState
      <3>5. \A m \in RowsOf(c) : msg[m].state = "sent" => msg[m].status = "sent"
        BY DEF VerdictInv, SentBoth, RowsOf
      <3> QED BY <2>1, <2>4, <3>1, <3>2, <3>3, <3>4, <3>5 DEF InVerdict, AllTerminal
    <2> QED BY <1>d, <2>1, <2>3, <2>4
  <1>6. CASE sess' = sess /\ msg' = msg
    BY <1>d, <1>6
  <1> QED BY <1>1, <1>2, <1>3, <1>4, <1>5, <1>6
          DEF WorkerStep, Poll, OpenClients, Deliver, Raise, CommitStale, EndBatch, WorkerStale,
              dbVars

LEMMA VerdictGenerate ==
  ASSUME TypeOK, ControlInv, VerdictInv, Generate
  PROVE  VerdictInv'
  <1>1. PICK c \in Session, S \in SUBSET Message :
          /\ sess[c].status = "unused" /\ SetStatus(c, "pending") /\ UNCHANGED localVars
          /\ \A m \in S : Inserted(m, c)
          /\ \A m \in Message \ S : Same(m)
    BY GenerateEffect
  <1>2. /\ \A t \in Session \ {c} : sess'[t] = sess[t]
        /\ sess'[c].status = "pending"
    BY <1>1, StatusEffect
  <1>3. \A s \in Session \ {c} : Still(s)
    BY <1>1, RowsStill DEF Inserted
  <1>4. \A s \in Session \ {c} : InVerdict(s)'
    BY <1>2, <1>3, CalmVerdict DEF Calm, Planned, VerdictInv
  <1>5. InVerdict(c)'
    BY <1>2 DEF InVerdict
  <1>6. \A s \in Session : InVerdict(s)'
    BY <1>4, <1>5
  <1>7. SentBoth'
    BY <1>1, RowsAgree DEF VerdictInv
  <1>8. ASSUME NEW h \in Handler PROVE Counted(h)'
    <2>1. pc[h] \in SendNowPC => cur[h] # c
      BY <1>1, SendersUnplanned
    <2>2. /\ pc'[h] = pc[h] /\ cur'[h] = cur[h] /\ mid'[h] = mid[h] /\ left'[h] = left[h]
          /\ tally'[h] = tally[h]
      BY <1>1 DEF localVars
    <2> QED BY <1>3, <2>1, <2>2, StillCounted DEF VerdictInv, Counts
  <1> QED BY <1>6, <1>7, <1>8 DEF VerdictInv, Counts

LEMMA VerdictInit == Init => VerdictInv
  <1> SUFFICES ASSUME Init PROVE VerdictInv
    OBVIOUS
  <1>1. /\ \A a \in Actor : pc[a] = "idle" /\ tally[a] = {}
        /\ \A s \in Session : sess[s].status = "unused"
        /\ \A m \in Message : msg[m].status = "unused" /\ msg[m].state = "pending"
    BY DEF Init, RowsInit
  <1> QED BY <1>1 DEF VerdictInv, SentBoth, Exists, Counts, Counted, SendNowPC, InVerdict, Actor

LEMMA VerdictNext ==
  ASSUME OneRequest, TypeOK, HeardInv, ControlInv, OnceInv, TurnInv, TimelineInv, VerdictInv,
         [Next]_vars
  PROVE  VerdictInv'
  <1>1. ASSUME sess' = sess, msg' = msg,
               \A h \in Handler : \/ pc'[h] = "idle" /\ tally'[h] = {}
                                  \/ /\ pc'[h] = pc[h] /\ cur'[h] = cur[h] /\ mid'[h] = mid[h]
                                     /\ left'[h] = left[h] /\ tally'[h] = tally[h]
        PROVE  VerdictInv'
    <2>1. \A s \in Session : Calm(s) /\ Still(s)
      BY <1>1, SameMessages, RowsStill DEF Calm, Planned
    <2>2. SentBoth' /\ \A s \in Session : InVerdict(s)'
      BY <1>1, <2>1, CalmVerdict, SameMessages, RowsAgree DEF VerdictInv
    <2>3. \A h \in Handler : Counted(h)'
      BY <1>1, <2>1, StillCounted, IdleCounted DEF VerdictInv, Counts, SendNowPC
    <2> QED BY <2>2, <2>3 DEF VerdictInv, Counts
  <1>2. ASSUME NEW a \in Actor, DatabaseError(a) PROVE VerdictInv'
    <2>1. OthersKeep(a) /\ pc'[a] = "idle" /\ tally'[a] = {}
      BY <1>2, ReturnEffect DEF DatabaseError
    <2>2. \A h \in Handler : h \in Actor
      BY DEF Actor
    <2> QED BY <1>1, <1>2, <2>1, <2>2 DEF DatabaseError, dbVars, OthersKeep
  <1>3. CASE Tick \/ UNCHANGED vars
    BY <1>1, <1>3 DEF Tick, vars, dbVars, worldVars, localVars
  <1>4. CASE Crash
    BY <1>1, <1>4 DEF Crash, dbVars, Actor
  <1> QED BY <1>2, <1>3, <1>4, VerdictGenerate, VerdictBegin, VerdictReview, VerdictSendNow,
             VerdictWorker
          DEF Next, HandlerStep

-----------------------------------------------------------------------------
(* The invariant as a whole, and what it says *)

OneWorkerInv ==
  TypeOK /\ TicketInv /\ HeardInv /\ ControlInv /\ OnceInv /\ TurnInv /\ TimelineInv /\ VerdictInv

LEMMA OneWorkerInit == Init => OneWorkerInv
  BY TypeInit, TicketInit, HeardInit, ControlInit, OnceInit, TurnInit, TimelineInit, VerdictInit
  DEF OneWorkerInv

LEMMA OneWorkerNext ==
  ASSUME OneRequest, OneWorker, OneWorkerInv, [Next]_vars
  PROVE  OneWorkerInv'
  BY TypeNext, TicketNext, HeardNext, ControlNext, OnceNext, TurnNext, TimelineNext, VerdictNext
  DEF OneWorkerInv

LEMMA VerdictsHold ==
  ASSUME HeardInv, VerdictInv
  PROVE  VerdictHolds
  <1> SUFFICES ASSUME NEW s \in Session, sess[s].status = "sent", Planned(s), NEW m \in RowsOf(s)
               PROVE  m \in Heard(s)
    BY DEF VerdictHolds, VerdictInv, InVerdict, Planned
  <1>1. msg[m].status = "sent"
    BY DEF VerdictInv, InVerdict
  <1> QED BY <1>1 DEF HeardInv, SentWasHeard, RowsOf

\* Served one request at a time and with the one worker main.py starts, the
\* conversation is heard in the order of its timeline, also over crashes,
\* failed batches and messages that were lost (scheduling.py:41,
\* send_worker.py:131).
THEOREM HeardInTimelineOrder == ASSUME OneRequest, OneWorker PROVE Spec => []TimelineOrder
  <1>1. OneWorkerInv => TimelineOrder
    BY DEF OneWorkerInv, TimelineInv, InTimeline, HeardInOrder, TimelineOrder
  <1> QED BY <1>1, OneWorkerInit, OneWorkerNext, PTL DEF Spec

\* Under the same conditions the verdict _finalize_if_complete or
\* send_session_now wrote agrees with the rows for as long as it stands
\* (send_worker.py:265, send_now.py:140), whatever requests, failed batches,
\* late answers and crashes came before and come after it.
THEOREM VerdictsAgreeWithRows == ASSUME OneRequest, OneWorker PROVE Spec => []VerdictHolds
  <1>1. OneWorkerInv => VerdictHolds
    BY VerdictsHold DEF OneWorkerInv
  <1> QED BY <1>1, OneWorkerInit, OneWorkerNext, PTL DEF Spec

-----------------------------------------------------------------------------
(* The refinement of ReviewGate.  A step either leaves the conversations    *)
(* alone and moves one session forward, or it delivers a message that the   *)
(* conversation of a released session has not heard.                        *)

PhaseOf(s) ==
  CASE sess[s].status \in {"unused", "pending"} -> "draft"
    [] sess[s].status \in {"approved", "scheduled", "sending"} -> "released"
    [] OTHER -> "closed"

MidsOf(s) == [i \in DOMAIN chat[s] |-> chat[s][i].mid]

LEMMA GateCalm ==
  ASSUME chat' = chat, \A s \in Session : PhaseOf(s)' = PhaseOf(s)
  PROVE  UNCHANGED Gate!gateVars
  BY DEF PhaseOf, Gate!gateVars

LEMMA GateMoves ==
  ASSUME chat' = chat, NEW c \in Session, \A t \in Session \ {c} : PhaseOf(t)' = PhaseOf(t),
         \/ PhaseOf(c)' = PhaseOf(c)
         \/ PhaseOf(c) = "draft" /\ PhaseOf(c)' = "released"
         \/ PhaseOf(c)' = "closed"
  PROVE  [Gate!GateNext]_(Gate!gateVars)
  <1>1. CASE PhaseOf(c)' = PhaseOf(c)
    BY <1>1, GateCalm
  <1>2. CASE PhaseOf(c) = "draft" /\ PhaseOf(c)' = "released"
    <2>1. Gate!Release(c)
      BY <1>2 DEF PhaseOf, Gate!Release
    <2> QED BY <2>1 DEF Gate!GateNext
  <1>3. CASE PhaseOf(c) # "closed" /\ PhaseOf(c)' = "closed"
    <2>1. Gate!Close(c)
      BY <1>3 DEF PhaseOf, Gate!Close
    <2> QED BY <2>1 DEF Gate!GateNext
  <1> QED BY <1>1, <1>2, <1>3

LEMMA MidsAppend ==
  ASSUME NEW q \in Seq(Entry), NEW e \in Entry
  PROVE  [i \in DOMAIN Append(q, e) |-> Append(q, e)[i].mid]
           = Append([i \in DOMAIN q |-> q[i].mid], e.mid)
  <1> DEFINE p == [i \in DOMAIN q |-> q[i].mid]
             r == [i \in DOMAIN Append(q, e) |-> Append(q, e)[i].mid]
  <1>1. /\ Len(q) \in Nat /\ DOMAIN q = 1 .. Len(q)
        /\ DOMAIN Append(q, e) = 1 .. Len(q) + 1
        /\ \A i \in 1 .. Len(q) : Append(q, e)[i] = q[i] /\ q[i].mid \in Message
        /\ Append(q, e)[Len(q) + 1] = e /\ e.mid \in Message
    <2>1. \A i \in 1 .. Len(q) : q[i] \in Entry
      OBVIOUS
    <2>2. \A x \in Entry : x.mid \in Message
      BY DEF Entry
    <2>3. Append(q, e) \in Seq(Entry) /\ Len(Append(q, e)) = Len(q) + 1
      OBVIOUS
    <2> QED BY <2>1, <2>2, <2>3, LenProperties, AppendProperties
  <1>2. p \in [1 .. Len(q) -> Message]
    BY <1>1
  <1>3. p \in Seq(Message) /\ Len(p) = Len(q)
    BY <1>1, <1>2
  <1>4. \A i \in 1 .. Len(q) + 1 : Append(q, e)[i].mid \in Message
    BY <1>1
  <1>5. r \in [1 .. Len(q) + 1 -> Message]
    BY <1>1, <1>4
  <1>6. r \in Seq(Message) /\ Len(r) = Len(q) + 1
    BY <1>1, <1>5
  <1>7. /\ Append(p, e.mid) \in Seq(Message) /\ Len(Append(p, e.mid)) = Len(q) + 1
        /\ \A i \in 1 .. Len(q) : Append(p, e.mid)[i] = p[i]
        /\ Append(p, e.mid)[Len(q) + 1] = e.mid
    BY <1>1, <1>3, AppendProperties
  <1>8. \A i \in 1 .. Len(q) + 1 : r[i] = Append(p, e.mid)[i]
    <2>1. \A i \in 1 .. Len(q) : p[i] = q[i].mid /\ r[i] = q[i].mid
      BY <1>1
    <2>2. r[Len(q) + 1] = e.mid
      BY <1>1
    <2>3. \A i \in 1 .. Len(q) + 1 : i \in 1 .. Len(q) \/ i = Len(q) + 1
      BY <1>1
    <2> HIDE DEF p, r
    <2> QED BY <1>7, <2>1, <2>2, <2>3
  <1> HIDE DEF p, r
  <1>9. r = Append(p, e.mid)
    BY <1>6, <1>7, <1>8, SeqEqual
  <1> QED BY <1>9 DEF p, r

\* What Telegram accepts is new to the conversation of a released session.
LEMMA GateDelivers ==
  ASSUME TypeOK, ControlInv, TurnInv, TimelineInv, NEW a \in Actor, NEW ticketed \in BOOLEAN,
         Deliver(a, ticketed)
  PROVE  [Gate!GateNext]_(Gate!gateVars)
  <1>1. pc[a] = "loop" /\ sess' = sess
    BY DeliverControl
  <1>2. PICK c \in Session : c = cur[a]
    BY DeliverEffect
  <1>3. PICK m \in left[a] :
          /\ m \in Message
          /\ \/ chat' = chat
             \/ \E e \in Entry : e.mid = m /\ chat' = [chat EXCEPT ![c] = Append(@, e)]
    BY <1>2, DeliverEffect
  <1>4. CASE chat' = chat
    BY <1>1, <1>4, GateCalm DEF PhaseOf
  <1>5. ASSUME NEW e \in Entry, e.mid = m, chat' = [chat EXCEPT ![c] = Append(@, e)]
        PROVE  [Gate!GateNext]_(Gate!gateVars)
    <2>1. sess[c].status = "sending"
      BY <1>1, <1>2 DEF ControlInv, RequestsInTurn, TurnInv, WorkersInTurn, Actor
    <2>2. m \notin Heard(c)
      <3>1. \A n \in Heard(c) : msg[n].order < msg[m].order
        BY <1>1, <1>2 DEF TimelineInv, Batches, Batch, SendingPC, WorkerPC
      <3>2. msg[m].order \in Nat
        BY <1>3, RowsTyped DEF MessageRow
      <3> QED BY <3>1, <3>2
    <2>3. chat[c] \in Seq(Entry) /\ chat \in [Session -> Seq(Entry)]
      BY DEF TypeOK, WorldOK
    <2>4. MidsOf(c)' = Append(MidsOf(c), m)
      BY <1>5, <2>3, MidsAppend DEF MidsOf
    <2>5. \A s \in Session \ {c} : MidsOf(s)' = MidsOf(s)
      BY <1>5, <2>3 DEF MidsOf
    <2>6. [s \in Session |-> MidsOf(s)]'
            = [[s \in Session |-> MidsOf(s)] EXCEPT ![c] = Append(@, m)]
      BY <2>4, <2>5
    <2>7. Gate!Say(c, m)
      BY <1>1, <2>1, <2>2, <2>6 DEF Gate!Say, Gate!Spoken, Heard, MidsOf
    <2> QED BY <1>3, <2>7 DEF Gate!GateNext
  <1> QED BY <1>3, <1>4, <1>5

LEMMA GateReview ==
  ASSUME TypeOK, HeardInv, ControlInv, TurnInv, NEW h \in Handler, ReviewStep(h)
  PROVE  [Gate!GateNext]_(Gate!gateVars)
  <1>1. ASSUME NEW c \in Session, chat' = chat, \A t \in Session \ {c} : sess'[t] = sess[t],
               \/ sess[c].status = "pending" /\ sess'[c].status \in {"approved", "scheduled"}
               \/ sess'[c].status \in {"rejected", "deleted"}
        PROVE  [Gate!GateNext]_(Gate!gateVars)
    <2>1. \A t \in Session \ {c} : PhaseOf(t)' = PhaseOf(t)
      BY <1>1 DEF PhaseOf
    <2>2. \/ PhaseOf(c) = "draft" /\ PhaseOf(c)' = "released"
          \/ PhaseOf(c)' = "closed"
      BY <1>1 DEF PhaseOf
    <2> QED BY <1>1, <2>1, <2>2, GateMoves
  <1>2. CASE ApproveNow(h)
    <2>1. sess[cur[h]].status = "pending"
      BY <1>2, ApproveNowEffect DEF ControlInv, RequestsInTurn
    <2> QED BY <1>1, <1>2, <2>1, ApproveNowEffect
  <1>3. ASSUME NEW start \in Start, ApproveAt(h, start) PROVE [Gate!GateNext]_(Gate!gateVars)
    <2>1. sess[cur[h]].status = "pending"
      BY <1>3, ApproveAtEffect DEF ControlInv, RequestsInTurn
    <2> QED BY <1>1, <1>3, <2>1, ApproveAtEffect
  <1>4. CASE Reject(h)
    <2>1. cur[h] \in Session /\ SetStatus(cur[h], "rejected") /\ chat' = chat
      BY <1>4, ActorTyped DEF Reject, Finish, worldVars, Actor
    <2> QED BY <1>1, <2>1, StatusEffect
  <1>5. CASE Delete(h)
    <2>1. cur[h] \in Session /\ SetStatus(cur[h], "deleted") /\ chat' = chat
      BY <1>5, DeleteEffect
    <2> QED BY <1>1, <2>1, StatusEffect
  <1>6. CASE sess' = sess /\ chat' = chat
    BY <1>6, GateCalm DEF PhaseOf
  <1> QED BY <1>2, <1>3, <1>4, <1>5, <1>6
          DEF ReviewStep, Add, Remove, EditText, EditGap, WriteStale, Finish, dbVars, worldVars

LEMMA GateSends ==
  ASSUME TypeOK, ControlInv, TurnInv, TimelineInv, NEW a \in Actor,
         (a \in Handler /\ SendNowStep(a)) \/ (a \in Worker /\ WorkerStep(a))
  PROVE  [Gate!GateNext]_(Gate!gateVars)
  <1>1. ASSUME NEW c \in Session, chat' = chat, NEW st, SetStatus(c, st),
               \/ st \in {"sent", "failed"}
               \/ sess[c].status \in {"approved", "scheduled", "sending"} /\ st = "sending"
        PROVE  [Gate!GateNext]_(Gate!gateVars)
    <2>1. /\ \A t \in Session \ {c} : sess'[t] = sess[t]
          /\ sess'[c].status = st
      BY <1>1, StatusEffect
    <2>2. \A t \in Session \ {c} : PhaseOf(t)' = PhaseOf(t)
      BY <2>1 DEF PhaseOf
    <2>3. PhaseOf(c)' = PhaseOf(c) \/ PhaseOf(c)' = "closed"
      BY <1>1, <2>1 DEF PhaseOf
    <2> QED BY <1>1, <2>2, <2>3, GateMoves
  <1>2. CASE Deliver(a, TRUE) \/ Deliver(a, FALSE)
    BY <1>2, GateDelivers
  <1>3. CASE sess' = sess /\ chat' = chat
    BY <1>3, GateCalm DEF PhaseOf
  <1>4. ASSUME a \in Handler, MarkSending(a) \/ CloseNow(a) \/ AbortNow(a)
        PROVE  [Gate!GateNext]_(Gate!gateVars)
    <2>1. /\ pc[a] \in {"mark", "loop", "abort"} /\ chat' = chat
          /\ \/ pc[a] = "mark" /\ SetStatus(cur[a], "sending")
             \/ \E st \in {"sent", "failed"} : SetStatus(cur[a], st)
      BY <1>4 DEF MarkSending, CloseNow, AbortNow, Goto, worldVars
    <2>2. cur[a] \in Session
      BY <2>1, ActorTyped
    <2>3. pc[a] = "mark" => sess[cur[a]].status = "approved"
      BY <1>4 DEF ControlInv, RequestsInTurn
    <2> QED BY <1>1, <2>1, <2>2, <2>3
  <1>5. ASSUME a \in Worker, LoadSession(a) \/ FinalizeIfComplete(a)
        PROVE  [Gate!GateNext]_(Gate!gateVars)
    <2>1. /\ pc[a] \in {"load", "settle", "close"} /\ chat' = chat
          /\ \/ pc[a] = "load" /\ SetStatus(cur[a], "sending")
             \/ \E st \in {"sent", "failed"} : SetStatus(cur[a], st)
             \/ sess' = sess
      BY <1>5 DEF LoadSession, FinalizeIfComplete, Verdict, Goto, worldVars
    <2>2. cur[a] \in Session
      BY <2>1, ActorTyped
    <2>3. pc[a] = "load" => sess[cur[a]].status \in {"scheduled", "sending"}
      BY <1>5 DEF TurnInv, WorkersInTurn
    <2> QED BY <1>1, <1>3, <2>1, <2>2, <2>3
  <1> QED BY <1>2, <1>3, <1>4, <1>5
          DEF SendNowStep, WorkerStep, OpenClients, CommitResult, Raise, CommitStale, NowStale,
              Poll, Claim, EndBatch, MarkClaimedFailed, WorkerStale, dbVars, worldVars

LEMMA GateStep ==
  ASSUME OneWorkerInv, [Next]_vars
  PROVE  [Gate!GateNext]_(Gate!gateVars)
  <1>1. CASE Generate
    <2>1. PICK c \in Session :
            sess[c].status = "unused" /\ SetStatus(c, "pending") /\ chat' = chat
      BY <1>1, GenerateEffect DEF OneWorkerInv
    <2>2. /\ \A t \in Session \ {c} : sess'[t] = sess[t]
          /\ sess'[c].status = "pending"
      BY <2>1, StatusEffect DEF OneWorkerInv
    <2> QED BY <2>1, <2>2, GateCalm DEF PhaseOf
  <1>2. ASSUME sess' = sess, chat' = chat PROVE [Gate!GateNext]_(Gate!gateVars)
    BY <1>2, GateCalm DEF PhaseOf
  <1>3. ASSUME NEW h \in Handler, HandlerBegin(h) PROVE [Gate!GateNext]_(Gate!gateVars)
    BY <1>2, <1>3
    DEF HandlerBegin, ReviewBegin, SendNowBegin, BeginApprove, BeginReject, BeginDelete, BeginAdd,
        BeginRemove, BeginEdit, BeginSendNow, Begin, dbVars, worldVars
  <1>4. ASSUME NEW h \in Handler, HandlerStep(h) PROVE [Gate!GateNext]_(Gate!gateVars)
    BY <1>4, GateReview, GateSends DEF HandlerStep, OneWorkerInv, Actor
  <1>5. ASSUME NEW w \in Worker, WorkerStep(w) PROVE [Gate!GateNext]_(Gate!gateVars)
    BY <1>5, GateSends DEF OneWorkerInv, Actor
  <1>6. CASE (\E a \in Actor : DatabaseError(a)) \/ Tick \/ Crash \/ UNCHANGED vars
    BY <1>2, <1>6 DEF DatabaseError, Tick, Crash, vars, dbVars, worldVars
  <1> QED BY <1>1, <1>3, <1>4, <1>5, <1>6 DEF Next

LEMMA GateInit == Init => Gate!GateInit
  BY DEF Init, RowsInit, Gate!GateInit

\* Under the same conditions the subsystem implements ReviewGate, however
\* many sessions, messages, crashes and database errors there are: nothing
\* leaves before a reviewer released the session, nothing leaves twice, and a
\* session once closed stays closed and silent.
THEOREM ImplementsReviewGate == ASSUME OneRequest, OneWorker PROVE Spec => KeepsReviewGate
  <1>1. Init => Gate!GateInit
    BY GateInit
  <1>2. OneWorkerInv /\ [Next]_vars => [Gate!GateNext]_(Gate!gateVars)
    BY GateStep
  <1> QED BY <1>1, <1>2, OneWorkerInit, OneWorkerNext, PTL DEF Spec, KeepsReviewGate, Gate!GateSpec
=============================================================================
