------------------------- MODULE DistributionProofs -------------------------
(***************************************************************************)
(* What holds of Distribution for any number of sessions, messages,        *)
(* requests and workers, with any number of crashes and database errors:   *)
(* TypeOK, OncePerSchedule, ApprovedFirst and SentWasHeard.                *)
(*                                                                         *)
(* TypeOK is inductive as it stands; its conjuncts that are more than      *)
(* types are needed by the steps that follow a read: an actor at work has  *)
(* a session, an actor that writes one message has that message, and what  *)
(* a loop still has to send is among the rows it has read.                 *)
(***************************************************************************)
EXTENDS Distribution, TLAPS

LEMMA TypeInit == Init => TypeOK
  <1> SUFFICES ASSUME Init PROVE TypeOK
    OBVIOUS
  <1> USE SessionRowsAssumption DEF Init, RowsInit
  <1>1. RowsOK
    BY DEF RowsOK, SessionRow, SessionStatus, NoTime, MessageRow, Body, Exists
  <1>2. WorldOK
    BY DEF WorldOK
  <1>3. LocalsOK
    BY DEF LocalsOK, Actor, NoCopies, Result, TerminalState
  <1> QED BY <1>1, <1>2, <1>3 DEF TypeOK

LEMMA TypeReturn ==
  ASSUME LocalsOK, NEW a \in Actor, Return(a), UNCHANGED todo
  PROVE  LocalsOK'
  BY DEF LocalsOK, Return, Actor, NoCopies, Result

LEMMA TypeFinish ==
  ASSUME TypeOK, NEW h \in Handler, NEW op, Finish(h, op)
  PROVE  WorldOK' /\ LocalsOK'
  <1>1. WorldOK'
    BY DEF TypeOK, WorldOK, Finish, worldVars
  <1>2. LocalsOK'
    BY TypeReturn DEF TypeOK, Finish, Actor
  <1> QED BY <1>1, <1>2

LEMMA TypeBegin ==
  ASSUME TypeOK, NEW h \in Handler, NEW s \in Session, NEW m \in Message \cup {None},
         NEW op \in ReviewPC, Begin(h, op, s, m),
         op \in {"add", "remove", "edit"} => m \in Message,
         \/ UNCHANGED snap
         \/ op = "add" /\ snap' = [snap EXCEPT ![h] = Restrict(msg, RowsOf(s))]
  PROVE  TypeOK'
  <1>1. RowsOK' /\ WorldOK'
    BY DEF TypeOK, RowsOK, WorldOK, Begin, dbVars, worldVars, Exists
  <1>2. LocalsOK'
    <2>1. pc[h] = "idle" /\ h \in Actor
      BY DEF Begin, Actor
    <2>2. CASE UNCHANGED snap
      BY <2>1, <2>2, SessionRowsAssumption DEF TypeOK, LocalsOK, Begin, ReviewPC
    <2>3. CASE op = "add" /\ snap' = [snap EXCEPT ![h] = Restrict(msg, RowsOf(s))]
      <3>1. \A a \in Actor : /\ DOMAIN snap[a] \subseteq Message
                            /\ \A n \in DOMAIN snap[a] : snap[a][n] \in MessageRow
                            /\ left[a] \subseteq DOMAIN snap[a]
        BY DEF TypeOK, LocalsOK
      <3>2. left[h] = {}
        BY <2>1 DEF TypeOK, LocalsOK
      <3>3. /\ DOMAIN Restrict(msg, RowsOf(s)) \subseteq Message
            /\ \A n \in RowsOf(s) : Restrict(msg, RowsOf(s))[n] \in MessageRow
        BY DEF Restrict, RowsOf, TypeOK, RowsOK
      <3>4. DOMAIN snap = Actor /\ left' = left
        BY DEF TypeOK, LocalsOK, Begin
      <3>5. /\ DOMAIN snap' = Actor
            /\ snap'[h] = Restrict(msg, RowsOf(s))
            /\ \A a \in Actor \ {h} : snap'[a] = snap[a]
        BY <2>1, <2>3, <3>4
      <3>6. \A a \in Actor : /\ DOMAIN snap'[a] \subseteq Message
                            /\ \A n \in DOMAIN snap'[a] : snap'[a][n] \in MessageRow
                            /\ left'[a] \subseteq DOMAIN snap'[a]
        BY <3>1, <3>2, <3>3, <3>4, <3>5 DEF Restrict
      <3> QED
        BY <2>1, <3>5, <3>6, SessionRowsAssumption DEF TypeOK, LocalsOK, Begin, ReviewPC
    <2> QED BY <2>2, <2>3
  <1> QED BY <1>1, <1>2 DEF TypeOK

LEMMA TypeReviewBegin ==
  ASSUME TypeOK, NEW h \in Handler, ReviewBegin(h)
  PROVE  TypeOK'
  <1> USE DEF ReviewPC
  <1>1. ASSUME NEW s \in Session, BeginApprove(h, s) PROVE TypeOK'
    BY <1>1, TypeBegin DEF BeginApprove
  <1>2. ASSUME NEW s \in Session, BeginReject(h, s) PROVE TypeOK'
    BY <1>2, TypeBegin DEF BeginReject
  <1>3. ASSUME NEW s \in Session, BeginDelete(h, s) PROVE TypeOK'
    BY <1>3, TypeBegin DEF BeginDelete
  <1>4. ASSUME NEW s \in Session, NEW m \in Message, BeginAdd(h, s, m) PROVE TypeOK'
    BY <1>4, TypeBegin DEF BeginAdd
  <1>5. ASSUME NEW m \in Message, Exists(m) PROVE msg[m].sid \in Session
    BY <1>5 DEF TypeOK, RowsOK
  <1>6. ASSUME NEW m \in Message, BeginRemove(h, m) PROVE TypeOK'
    BY <1>5, <1>6, TypeBegin DEF BeginRemove
  <1>7. ASSUME NEW m \in Message, BeginEdit(h, m) PROVE TypeOK'
    BY <1>5, <1>7, TypeBegin DEF BeginEdit
  <1> QED BY <1>1, <1>2, <1>3, <1>4, <1>6, <1>7 DEF ReviewBegin

\* A row as RowsOK wants it.
GoodRow == {r \in MessageRow :
              r.status \notin {"unused", "deleted"} => r.sid \in Session}

LEMMA GoodRows ==
  RowsOK <=> sess \in [Session -> SessionRow] /\ msg \in [Message -> GoodRow]
  BY DEF RowsOK, GoodRow, Exists

LEMMA GoodRowsNext ==
  RowsOK' <=> sess' \in [Session -> SessionRow] /\ msg' \in [Message -> GoodRow]
  BY DEF RowsOK, GoodRow, Exists

\* Every write of the code leaves a good row.
LEMMA RowWrites ==
  ASSUME NEW r \in GoodRow
  PROVE  /\ \A s \in Session, n \in Nat, g \in Gap :
              [r EXCEPT !.sid = s, !.order = n, !.gap = g, !.status = "queued"]
                \in GoodRow
         /\ \A n \in Nat : [r EXCEPT !.order = n] \in GoodRow
         /\ \A g \in Gap : [r EXCEPT !.gap = g] \in GoodRow
         /\ \A b \in Body : [r EXCEPT !.body = b] \in GoodRow
         /\ \A t \in Time : [r EXCEPT !.at = t, !.state = "pending", !.ticket = @ + 1]
                \in GoodRow
         /\ [r EXCEPT !.status = "deleted"] \in GoodRow
         /\ [r EXCEPT !.state = "sending"] \in GoodRow
         /\ r.status \notin {"unused", "deleted"} =>
              \A v \in TerminalState : Recorded(r, v) \in GoodRow
  <1> USE DEF GoodRow, MessageRow
  <1>1. \A s \in Session, n \in Nat, g \in Gap :
              [r EXCEPT !.sid = s, !.order = n, !.gap = g, !.status = "queued"]
                \in GoodRow
    OBVIOUS
  <1>2. \A n \in Nat : [r EXCEPT !.order = n] \in GoodRow
    OBVIOUS
  <1>3. \A g \in Gap : [r EXCEPT !.gap = g] \in GoodRow
    OBVIOUS
  <1>4. \A b \in Body : [r EXCEPT !.body = b] \in GoodRow
    OBVIOUS
  <1>5. \A t \in Time : [r EXCEPT !.at = t, !.state = "pending", !.ticket = @ + 1]
                \in GoodRow
    <2>1. r.ticket + 1 \in Nat
      OBVIOUS
    <2>2. ASSUME NEW t \in Time, NEW k \in Nat
         PROVE  [r EXCEPT !.at = t, !.state = "pending", !.ticket = k] \in GoodRow
      OBVIOUS
    <2>  QED BY ONLY <2>1, <2>2
  <1>6. [r EXCEPT !.status = "deleted"] \in GoodRow
    OBVIOUS
  <1>7. [r EXCEPT !.state = "sending"] \in GoodRow
    OBVIOUS
  <1>8. r.status \notin {"unused", "deleted"} =>
          \A v \in TerminalState : Recorded(r, v) \in GoodRow
    BY DEF Recorded, TerminalState
  <1> QED BY <1>1, <1>2, <1>3, <1>4, <1>5, <1>6, <1>7, <1>8

LEMMA RankingsType ==
  ASSUME NEW S, NEW r \in Rankings(S), NEW m \in S
  PROVE  r[m] \in Nat
  BY DEF Rankings

LEMMA TypeReviewStep ==
  ASSUME TypeOK, NEW h \in Handler, ReviewStep(h)
  PROVE  TypeOK'
  <1> USE DEF SessionRow, SessionStatus
  <1>a. sess \in [Session -> SessionRow] /\ msg \in [Message -> GoodRow]
    BY GoodRows DEF TypeOK
  <1>b. h \in Actor
    BY DEF Actor
  <1>d. ASSUME NEW op \in {"approve", "reject", "delete", "add", "remove", "edit"},
               Finish(h, op)
        PROVE  /\ WorldOK' /\ LocalsOK' /\ cur[h] \in Session
               /\ op \in {"add", "remove", "edit"} => mid[h] \in Message
    BY <1>b, <1>d, TypeFinish DEF Finish, TypeOK, LocalsOK
  <1>1. CASE ApproveNow(h)
    <2>1. WorldOK' /\ LocalsOK' /\ cur[h] \in Session
      BY <1>1, <1>d DEF ApproveNow
    <2>2. RowsOK'
      BY <1>1, <2>1, <1>a, GoodRowsNext DEF ApproveNow
    <2> QED BY <2>1, <2>2 DEF TypeOK
  <1>2. ASSUME NEW start \in Start, ApproveAt(h, start) PROVE TypeOK'
    <2>1. WorldOK' /\ LocalsOK' /\ cur[h] \in Session
      BY <1>2, <1>d DEF ApproveAt
    <2>2. sess' \in [Session -> SessionRow]
      BY <1>2, <2>1, <1>a DEF ApproveAt
    <2>3. PICK at \in Schedules(RowsOf(cur[h]), start) :
            msg' = [m \in Message |->
                      IF m \in DOMAIN at
                      THEN [msg[m] EXCEPT !.at = at[m], !.state = "pending",
                                          !.ticket = @ + 1]
                      ELSE msg[m]]
      BY <1>2 DEF ApproveAt
    <2>4. \A m \in DOMAIN at : at[m] \in Time
      BY DEF Schedules
    <2>5. ASSUME NEW m \in Message PROVE msg'[m] \in GoodRow
      <3>1. msg[m] \in GoodRow
        BY <1>a
      <3>2. CASE m \in DOMAIN at
        <4> DEFINE Scheduled(r, t) == [r EXCEPT !.at = t, !.state = "pending",
                                                !.ticket = @ + 1]
        <4>1. msg'[m] = Scheduled(msg[m], at[m])
          BY <2>3, <3>2
        <4>2. at[m] \in Time
          BY <2>4, <3>2
        <4>3. \A r \in GoodRow, t \in Time : Scheduled(r, t) \in GoodRow
          BY ONLY RowWrites
        <4> HIDE DEF Scheduled
        <4> QED BY ONLY <3>1, <4>1, <4>2, <4>3
      <3>3. CASE m \notin DOMAIN at
        BY <2>3, <3>1, <3>3
      <3> QED BY <3>2, <3>3
    <2>6. RowsOK'
      BY <2>2, <2>3, <2>5, GoodRowsNext
    <2> QED BY <2>1, <2>6 DEF TypeOK
  <1>3. CASE Reject(h)
    <2>1. WorldOK' /\ LocalsOK'
      BY <1>3, <1>d DEF Reject
    <2>2. RowsOK'
      BY <1>3, <1>a, GoodRowsNext DEF Reject, SetStatus
    <2> QED BY <2>1, <2>2 DEF TypeOK
  <1>4. CASE Delete(h)
    <2>1. WorldOK' /\ LocalsOK'
      BY <1>4, <1>d DEF Delete
    <2>2. sess' \in [Session -> SessionRow]
      BY <1>4, <1>a DEF Delete, SetStatus
    <2>3. ASSUME NEW m \in Message PROVE msg'[m] \in GoodRow
      <3>1. msg[m] \in GoodRow
        BY <1>a
      <3>2. msg'[m] \in {msg[m], [msg[m] EXCEPT !.status = "deleted"]}
        BY <1>4 DEF Delete
      <3> QED BY ONLY <3>1, <3>2, RowWrites
    <2>4. RowsOK'
      BY <1>4, <2>2, <2>3, GoodRowsNext DEF Delete
    <2> QED BY <2>1, <2>4 DEF TypeOK
  <1>5. ASSUME NEW pos \in 0 .. Cardinality(Message), NEW gap \in Gap, Add(h, pos, gap)
        PROVE  TypeOK'
    <2>1. WorldOK' /\ LocalsOK' /\ cur[h] \in Session
      BY <1>5, <1>d DEF Add
    <2>2. pos \in Nat
      OBVIOUS
    <2> DEFINE shifted == {n \in DOMAIN snap[h] \ {mid[h]} : snap[h][n].order >= pos}
    <2>3. \A n \in shifted : snap[h][n].order + 1 \in Nat
      BY <1>b DEF TypeOK, LocalsOK, MessageRow
    <2>4. msg' = [n \in Message |->
                    CASE n = mid[h] -> [msg[n] EXCEPT !.sid = cur[h], !.order = pos,
                                                       !.gap = gap, !.status = "queued"]
                      [] n \in shifted -> [msg[n] EXCEPT !.order = snap[h][n].order + 1]
                      [] OTHER -> msg[n]]
      BY <1>5 DEF Add
    <2>5. ASSUME NEW n \in Message PROVE msg'[n] \in GoodRow
      <3>1. msg[n] \in GoodRow
        BY <1>a
      <3>2. CASE n = mid[h]
        <4> DEFINE Inserted(r, s) == [r EXCEPT !.sid = s, !.order = pos,
                                               !.gap = gap, !.status = "queued"]
        <4>1. msg'[n] = Inserted(msg[n], cur[h])
          BY <2>4, <3>2
        <4>2. \A r \in GoodRow, s \in Session : Inserted(r, s) \in GoodRow
          BY <2>2, RowWrites
        <4> HIDE DEF Inserted
        <4> QED BY ONLY <2>1, <3>1, <4>1, <4>2
      <3>3. CASE n # mid[h] /\ n \in shifted
        <4> DEFINE k == snap[h][n].order + 1
        <4>1. msg'[n] = [msg[n] EXCEPT !.order = k]
          BY <2>4, <3>3
        <4>2. k \in Nat
          BY <2>3, <3>3
        <4> HIDE DEF k
        <4> QED BY ONLY <3>1, <4>1, <4>2, RowWrites
      <3>4. CASE n # mid[h] /\ n \notin shifted
        BY <2>4, <3>1, <3>4
      <3> QED BY <3>2, <3>3, <3>4
    <2>6. RowsOK'
      BY <1>5, <1>a, <2>4, <2>5, GoodRowsNext DEF Add
    <2> QED BY <2>1, <2>6 DEF TypeOK
  <1>6. CASE Remove(h)
    <2>1. WorldOK' /\ LocalsOK'
      BY <1>6, <1>d DEF Remove
    <2> DEFINE rest == RowsOf(cur[h]) \ {mid[h]}
    <2>2. PICK r \in Rankings(rest) :
            msg' = [n \in Message |->
                      CASE n = mid[h] -> [msg[n] EXCEPT !.status = "deleted"]
                        [] n \in rest -> [msg[n] EXCEPT !.order = r[n]]
                        [] OTHER -> msg[n]]
      BY <1>6 DEF Remove
    <2>3. ASSUME NEW n \in Message PROVE msg'[n] \in GoodRow
      <3>1. msg[n] \in GoodRow
        BY <1>a
      <3>2. CASE n = mid[h]
        <4>1. msg'[n] = [msg[n] EXCEPT !.status = "deleted"]
          BY <2>2, <3>2
        <4> QED BY ONLY <3>1, <4>1, RowWrites
      <3>3. CASE n # mid[h] /\ n \in rest
        <4>1. msg'[n] = [msg[n] EXCEPT !.order = r[n]]
          BY <2>2, <3>3
        <4>2. r[n] \in Nat
          BY <3>3, RankingsType
        <4> QED BY ONLY <3>1, <4>1, <4>2, RowWrites
      <3>4. CASE n # mid[h] /\ n \notin rest
        BY <2>2, <3>1, <3>4
      <3> QED BY <3>2, <3>3, <3>4
    <2>4. RowsOK'
      BY <1>6, <1>a, <2>2, <2>3, GoodRowsNext DEF Remove
    <2> QED BY <2>1, <2>4 DEF TypeOK
  <1>7. CASE EditText(h)
    <2>1. WorldOK' /\ LocalsOK' /\ mid[h] \in Message
      BY <1>7, <1>d DEF EditText
    <2>2. msg[mid[h]].body + 1 \in Body
      BY <1>7, <1>a, <2>1, SessionRowsAssumption DEF EditText, GoodRow, MessageRow, Body
    <2>3. [msg[mid[h]] EXCEPT !.body = @ + 1] \in GoodRow
      <3> DEFINE k == msg[mid[h]].body + 1
      <3>1. msg[mid[h]] \in GoodRow
        BY <1>a, <2>1
      <3>2. [msg[mid[h]] EXCEPT !.body = k] \in GoodRow
        BY ONLY <2>2, <3>1, RowWrites
      <3> QED BY <3>2
    <2>4. RowsOK'
      BY <1>7, <1>a, <2>3, GoodRowsNext DEF EditText
    <2> QED BY <2>1, <2>4 DEF TypeOK
  <1>8. ASSUME NEW gap \in Gap, EditGap(h, gap) PROVE TypeOK'
    <2>1. WorldOK' /\ LocalsOK' /\ mid[h] \in Message
      BY <1>8, <1>d DEF EditGap
    <2>2. [msg[mid[h]] EXCEPT !.gap = gap] \in GoodRow
      BY <1>a, <2>1, RowWrites
    <2>3. RowsOK'
      BY <1>8, <1>a, <2>2, GoodRowsNext DEF EditGap
    <2> QED BY <2>1, <2>3 DEF TypeOK
  <1>9. CASE WriteStale(h)
    <2>1. LocalsOK'
      BY <1>9, <1>b, TypeReturn DEF WriteStale, TypeOK
    <2>2. RowsOK' /\ WorldOK'
      BY <1>9, <1>a, GoodRowsNext DEF WriteStale, TypeOK, WorldOK, dbVars, worldVars
    <2> QED BY <2>1, <2>2 DEF TypeOK
  <1> QED BY <1>1, <1>2, <1>3, <1>4, <1>5, <1>6, <1>7, <1>8, <1>9 DEF ReviewStep

-----------------------------------------------------------------------------
(* Sending *)

\* A step that moves a to another place, and nothing else of its locals.
LEMMA TypeGoto ==
  ASSUME LocalsOK, NEW a \in Actor, NEW to,
         \/ a \in Handler /\ to \in {"open", "loop", "abort"}
         \/ a \in Worker /\ to \in {"open", "loop", "fail", "close"},
         pc[a] # "idle", pc' = [pc EXCEPT ![a] = to],
         UNCHANGED <<cur, snap, left, result, todo>>,
         mid' = mid \/ mid' = [mid EXCEPT ![a] = None],
         tally' = tally \/ (\E v \in TerminalState :
                              tally' = [tally EXCEPT ![a] = @ \cup {v}])
  PROVE  LocalsOK'
  <1> USE SessionRowsAssumption DEF LocalsOK, SendNowPC, WorkerPC, ReviewPC
  <1>1. /\ pc' \in [Actor -> {"idle"} \cup ReviewPC \cup SendNowPC \cup WorkerPC]
        /\ \A h \in Handler : pc'[h] \in {"idle"} \cup ReviewPC \cup SendNowPC
        /\ \A w \in Worker : pc'[w] \in {"idle"} \cup WorkerPC
    OBVIOUS
  <1>2. /\ \A b \in Actor : pc'[b] # "idle" => cur[b] \in Session
        /\ \A b \in Actor : pc'[b] = "idle" => left[b] = {}
    OBVIOUS
  <1>3. /\ mid' \in [Actor -> Message \cup {None}]
        /\ \A b \in Actor : pc'[b] \in {"commit", "add", "remove", "edit"}
                              => mid'[b] \in Message
    OBVIOUS
  <1>4. tally' \in [Actor -> SUBSET TerminalState]
    OBVIOUS
  <1> QED BY <1>1, <1>2, <1>3, <1>4

LEMMA TypeOpenClients ==
  ASSUME TypeOK, NEW a \in Actor, NEW fail \in {"abort", "fail"},
         \/ a \in Handler /\ fail = "abort"
         \/ a \in Worker /\ fail = "fail",
         OpenClients(a, fail)
  PROVE  TypeOK'
  <1>1. RowsOK' /\ WorldOK'
    BY GoodRows, GoodRowsNext DEF TypeOK, WorldOK, OpenClients, dbVars, worldVars
  <1>2. LocalsOK'
    BY TypeGoto DEF TypeOK, OpenClients, Goto
  <1> QED BY <1>1, <1>2 DEF TypeOK

LEMMA TypeDeliver ==
  ASSUME TypeOK, NEW a \in Actor, NEW ticketed \in BOOLEAN, Deliver(a, ticketed)
  PROVE  TypeOK'
  <1>1. RowsOK'
    BY GoodRows, GoodRowsNext DEF TypeOK, Deliver, dbVars
  <1>2. PICK m \in left[a], accepted \in BOOLEAN, r \in Result :
          /\ LET entry == [mid |-> m, body |-> snap[a][m].body,
                           ticket |-> IF ticketed THEN snap[a][m].ticket ELSE 0]
             IN  chat' = IF accepted
                         THEN [chat EXCEPT ![cur[a]] = Append(@, entry)]
                         ELSE chat
          /\ mid' = [mid EXCEPT ![a] = m]
          /\ left' = [left EXCEPT ![a] = @ \ {m}]
          /\ result' = [result EXCEPT ![a] = r]
    BY DEF Deliver
  <1>3. pc[a] = "loop" /\ pc' = [pc EXCEPT ![a] = "commit"]
    BY DEF Deliver
  <1>4. m \in Message /\ m \in DOMAIN snap[a] /\ snap[a][m] \in MessageRow
    BY DEF TypeOK, LocalsOK
  <1>5. WorldOK'
    <2> DEFINE entry == [mid |-> m, body |-> snap[a][m].body,
                         ticket |-> IF ticketed THEN snap[a][m].ticket ELSE 0]
    <2>1. entry \in Entry
      BY <1>4 DEF MessageRow, Entry
    <2>2. chat \in [Session -> Seq(Entry)] /\ cur[a] \in Session
      BY <1>3 DEF TypeOK, WorldOK, LocalsOK
    <2>3. chat' = [chat EXCEPT ![cur[a]] = Append(@, entry)] \/ chat' = chat
      BY <1>2
    <2> HIDE DEF entry
    <2>4. Append(chat[cur[a]], entry) \in Seq(Entry)
      BY <2>1, <2>2
    <2>5. chat' \in [Session -> Seq(Entry)]
      BY <2>2, <2>3, <2>4
    <2> QED BY <2>5 DEF TypeOK, WorldOK, Deliver
  <1>6. LocalsOK'
    BY <1>2, <1>3, <1>4, SessionRowsAssumption
    DEF TypeOK, LocalsOK, Deliver, SendNowPC, WorkerPC, Actor
  <1> QED BY <1>1, <1>5, <1>6 DEF TypeOK

LEMMA TypeCommitResult ==
  ASSUME TypeOK, NEW a \in Actor, CommitResult(a)
  PROVE  TypeOK'
  <1>1. mid[a] \in Message
    BY DEF TypeOK, LocalsOK, CommitResult, Goto
  <1>2. RowsOK'
    <2>1. msg[mid[a]] \in GoodRow /\ msg \in [Message -> GoodRow]
      BY <1>1, GoodRows DEF TypeOK
    <2>2. Recorded(msg[mid[a]], result[a]) \in GoodRow
      BY <2>1, RowWrites DEF CommitResult, Exists
    <2> QED BY <2>1, <2>2, GoodRows, GoodRowsNext DEF TypeOK, CommitResult
  <1>3. WorldOK'
    BY DEF TypeOK, WorldOK, CommitResult, worldVars
  <1>4. LocalsOK'
    BY TypeGoto DEF TypeOK, CommitResult, Goto, Actor
  <1> QED BY <1>2, <1>3, <1>4 DEF TypeOK

LEMMA TypeRaise ==
  ASSUME TypeOK, NEW a \in Actor, NEW fail \in {"abort", "fail"},
         \/ a \in Handler /\ fail = "abort"
         \/ a \in Worker /\ fail = "fail",
         Raise(a, fail)
  PROVE  TypeOK'
  <1>1. RowsOK' /\ WorldOK'
    BY GoodRows, GoodRowsNext DEF TypeOK, WorldOK, Raise, dbVars, worldVars
  <1>2. LocalsOK'
    BY TypeGoto DEF TypeOK, Raise, Goto
  <1> QED BY <1>1, <1>2 DEF TypeOK

\* A coroutine that ends without touching the messages.
LEMMA TypeEnd ==
  ASSUME TypeOK, NEW a \in Actor, Return(a), UNCHANGED <<msg, worldVars, todo>>,
         sess' \in [Session -> SessionRow]
  PROVE  TypeOK'
  <1>1. RowsOK' /\ WorldOK'
    BY GoodRows, GoodRowsNext DEF TypeOK, WorldOK, worldVars
  <1> QED BY <1>1, TypeReturn DEF TypeOK

LEMMA TypeCommitStale ==
  ASSUME TypeOK, NEW a \in Actor, CommitStale(a)
  PROVE  TypeOK'
  BY TypeEnd DEF CommitStale, TypeOK, RowsOK, dbVars

LEMMA TypeSendNowBegin ==
  ASSUME TypeOK, NEW h \in Handler, NEW s \in Session, BeginSendNow(h, s)
  PROVE  TypeOK'
  <1>1. RowsOK' /\ WorldOK'
    BY GoodRows, GoodRowsNext DEF TypeOK, WorldOK, BeginSendNow, dbVars, worldVars
  <1>2. /\ DOMAIN Restrict(msg, RowsOf(s)) = RowsOf(s) /\ RowsOf(s) \subseteq Message
        /\ \A n \in RowsOf(s) : Restrict(msg, RowsOf(s))[n] \in MessageRow
    BY DEF Restrict, RowsOf, TypeOK, RowsOK
  <1>3. h \in Actor /\ DOMAIN snap = Actor
    BY DEF Actor, TypeOK, LocalsOK
  <1>4. {m \in RowsOf(s) : msg[m].status # "sent"} \subseteq RowsOf(s)
    OBVIOUS
  <1>5. /\ DOMAIN snap' = Actor
        /\ snap'[h] = Restrict(msg, RowsOf(s))
        /\ \A a \in Actor \ {h} : snap'[a] = snap[a]
    BY <1>3 DEF BeginSendNow
  <1>6. left' \in [Actor -> SUBSET Message] /\ left'[h] \subseteq RowsOf(s)
    BY <1>2, <1>3, <1>4 DEF BeginSendNow, TypeOK, LocalsOK
  <1>7. \A a \in Actor : /\ DOMAIN snap'[a] \subseteq Message
                         /\ \A m \in DOMAIN snap'[a] : snap'[a][m] \in MessageRow
                         /\ left'[a] \subseteq DOMAIN snap'[a]
    <2>1. ASSUME NEW a \in Actor, a # h
          PROVE  left'[a] = left[a] /\ snap'[a] = snap[a]
      BY <1>3, <1>5, <2>1 DEF BeginSendNow, TypeOK, LocalsOK
    <2>2. \A a \in Actor : /\ DOMAIN snap[a] \subseteq Message
                           /\ \A m \in DOMAIN snap[a] : snap[a][m] \in MessageRow
                           /\ left[a] \subseteq DOMAIN snap[a]
      BY DEF TypeOK, LocalsOK
    <2> QED BY <1>2, <1>3, <1>5, <1>6, <2>1, <2>2
  <1>8. LocalsOK'
    BY <1>3, <1>5, <1>6, <1>7, SessionRowsAssumption
    DEF TypeOK, LocalsOK, BeginSendNow, SendNowPC
  <1> QED BY <1>1, <1>8 DEF TypeOK

LEMMA TypeSendNowStep ==
  ASSUME TypeOK, NEW h \in Handler, SendNowStep(h)
  PROVE  TypeOK'
  <1> USE DEF SessionRow, SessionStatus
  <1>a. sess \in [Session -> SessionRow]
    BY DEF TypeOK, RowsOK
  <1>b. h \in Actor /\ (pc[h] # "idle" => cur[h] \in Session)
    BY DEF Actor, TypeOK, LocalsOK
  <1>1. CASE MarkSending(h)
    <2>1. RowsOK' /\ WorldOK'
      BY <1>1, <1>a, <1>b, GoodRows, GoodRowsNext
      DEF TypeOK, WorldOK, MarkSending, SetStatus, worldVars
    <2>2. LocalsOK'
      BY <1>1, <1>b, TypeGoto DEF TypeOK, MarkSending, Goto
    <2> QED BY <2>1, <2>2 DEF TypeOK
  <1>2. CASE OpenClients(h, "abort")
    BY <1>2, <1>b, TypeOpenClients
  <1>3. CASE Deliver(h, FALSE)
    BY <1>3, <1>b, TypeDeliver
  <1>4. CASE CommitResult(h)
    BY <1>4, <1>b, TypeCommitResult
  <1>5. CASE Raise(h, "abort")
    BY <1>5, <1>b, TypeRaise
  <1>6. CASE CommitStale(h)
    BY <1>6, <1>b, TypeCommitStale
  <1>7. CASE CloseNow(h)
    <2>1. sess' \in [Session -> SessionRow]
      BY <1>7, <1>a DEF CloseNow, SetStatus
    <2> QED BY <1>7, <1>b, <2>1, TypeEnd DEF CloseNow
  <1>8. CASE AbortNow(h)
    <2>1. sess' \in [Session -> SessionRow]
      BY <1>8, <1>a DEF AbortNow, SetStatus
    <2> QED BY <1>8, <1>b, <2>1, TypeEnd DEF AbortNow
  <1>9. CASE NowStale(h)
    BY <1>9, <1>a, <1>b, TypeEnd DEF NowStale, dbVars
  <1> QED BY <1>1, <1>2, <1>3, <1>4, <1>5, <1>6, <1>7, <1>8, <1>9 DEF SendNowStep

-----------------------------------------------------------------------------
(* The worker *)

LEMMA TypeWorkerStep ==
  ASSUME TypeOK, NEW w \in Worker, WorkerStep(w)
  PROVE  TypeOK'
  <1> USE DEF SessionRow, SessionStatus
  <1>a. sess \in [Session -> SessionRow] /\ msg \in [Message -> GoodRow]
    BY GoodRows DEF TypeOK
  <1>b. w \in Actor /\ (pc[w] # "idle" => cur[w] \in Session)
    BY DEF Actor, TypeOK, LocalsOK
  <1>1. CASE Poll(w)
    <2>1. RowsOK' /\ WorldOK'
      BY <1>1, <1>a, GoodRowsNext DEF TypeOK, WorldOK, Poll, dbVars, worldVars
    <2>2. DueSessions \subseteq Session
      BY DEF DueSessions
    <2>3. LocalsOK'
      BY <1>1, <2>2 DEF TypeOK, LocalsOK, Poll
    <2> QED BY <2>1, <2>3 DEF TypeOK
  <1>2. ASSUME NEW s \in Session, Claim(w, s) PROVE TypeOK'
    <2> DEFINE claimed == Claimable(s)
    <2>1. /\ claimed \subseteq Message
          /\ msg' = [m \in Message |-> IF m \in claimed
                                       THEN [msg[m] EXCEPT !.state = "sending"]
                                       ELSE msg[m]]
          /\ snap' = [snap EXCEPT ![w] = [m \in claimed |-> msg'[m]]]
          /\ left' = [left EXCEPT ![w] = claimed]
          /\ pc' = [pc EXCEPT ![w] = IF claimed = {} THEN "settle" ELSE "load"]
          /\ pc[w] = "idle"
      BY <1>2 DEF Claim, Claimable, RowsOf
    <2>2. ASSUME NEW m \in Message PROVE msg'[m] \in GoodRow
      <3>1. msg[m] \in GoodRow
        BY <1>a
      <3>2. msg'[m] \in {msg[m], [msg[m] EXCEPT !.state = "sending"]}
        BY <2>1
      <3> QED BY ONLY <3>1, <3>2, RowWrites
    <2>3. RowsOK' /\ WorldOK'
      BY <1>2, <1>a, <2>1, <2>2, GoodRowsNext DEF TypeOK, WorldOK, Claim, worldVars
    <2> HIDE DEF claimed
    <2>4. DOMAIN snap = Actor /\ left \in [Actor -> SUBSET Message]
      BY DEF TypeOK, LocalsOK
    <2>5. /\ DOMAIN snap' = Actor
          /\ snap'[w] = [m \in claimed |-> msg'[m]]
          /\ \A a \in Actor \ {w} : snap'[a] = snap[a]
      BY <1>b, <2>1, <2>4
    <2>6. /\ left' \in [Actor -> SUBSET Message]
          /\ left'[w] = claimed
          /\ \A a \in Actor \ {w} : left'[a] = left[a]
      BY <1>b, <2>1, <2>4
    <2>7. \A a \in Actor : /\ DOMAIN snap'[a] \subseteq Message
                           /\ \A m \in DOMAIN snap'[a] : snap'[a][m] \in MessageRow
                           /\ left'[a] \subseteq DOMAIN snap'[a]
      <3>1. \A a \in Actor : /\ DOMAIN snap[a] \subseteq Message
                             /\ \A m \in DOMAIN snap[a] : snap[a][m] \in MessageRow
                             /\ left[a] \subseteq DOMAIN snap[a]
        BY DEF TypeOK, LocalsOK
      <3>2. \A m \in claimed : snap'[w][m] \in MessageRow
        BY <2>1, <2>2, <2>5 DEF GoodRow
      <3>3. DOMAIN snap'[w] = claimed
        BY <2>5
      <3>4. ASSUME NEW a \in Actor, a # w
            PROVE  snap'[a] = snap[a] /\ left'[a] = left[a]
        BY <2>5, <2>6, <3>4
      <3>5. ASSUME NEW a \in Actor
            PROVE  /\ DOMAIN snap'[a] \subseteq Message
                   /\ \A m \in DOMAIN snap'[a] : snap'[a][m] \in MessageRow
                   /\ left'[a] \subseteq DOMAIN snap'[a]
        <4>1. CASE a = w
          BY ONLY <2>1, <2>6, <3>2, <3>3, <4>1
        <4>2. CASE a # w
          BY ONLY <3>1, <3>4, <4>2, a \in Actor
        <4> QED BY <4>1, <4>2
      <3> QED BY <3>5
    <2>8. pc' \in [Actor -> {"idle"} \cup ReviewPC \cup SendNowPC \cup WorkerPC]
      BY <1>b, <2>1 DEF TypeOK, LocalsOK, WorkerPC
    <2>9. pc'[w] \in {"settle", "load"} /\ \A a \in Actor \ {w} : pc'[a] = pc[a]
      BY <1>b, <2>1 DEF TypeOK, LocalsOK
    <2>10. cur' \in [Actor -> Session \cup {None}] /\ cur'[w] = s
           /\ \A a \in Actor \ {w} : cur'[a] = cur[a]
      BY <1>2, <1>b DEF Claim, TypeOK, LocalsOK
    <2>11. todo' \in [Worker -> SUBSET Session] /\ UNCHANGED <<mid, result, tally>>
      BY <1>2 DEF Claim, TypeOK, LocalsOK
    <2>12. \A h \in Handler : pc'[h] \in {"idle"} \cup ReviewPC \cup SendNowPC
      BY <2>9, SessionRowsAssumption DEF TypeOK, LocalsOK, Actor
    <2>13. \A v \in Worker : pc'[v] \in {"idle"} \cup WorkerPC
      BY <2>9 DEF TypeOK, LocalsOK, WorkerPC, Actor
    <2>14. /\ \A a \in Actor : pc'[a] # "idle" => cur'[a] \in Session
           /\ \A a \in Actor : pc'[a] = "idle" => left'[a] = {}
           /\ \A a \in Actor : pc'[a] \in {"commit", "add", "remove", "edit"}
                                 => mid'[a] \in Message
      BY <2>6, <2>9, <2>10, <2>11 DEF TypeOK, LocalsOK
    <2>15. LocalsOK'
      BY ONLY <2>5, <2>6, <2>7, <2>8, <2>10, <2>11, <2>12, <2>13, <2>14, TypeOK
      DEF TypeOK, LocalsOK
    <2> QED BY <2>3, <2>15 DEF TypeOK
  <1>3. CASE LoadSession(w)
    <2>1. RowsOK' /\ WorldOK'
      BY <1>3, <1>a, <1>b, GoodRowsNext
      DEF TypeOK, WorldOK, LoadSession, SetStatus, worldVars
    <2>2. LocalsOK'
      BY <1>3, <1>b, TypeGoto DEF TypeOK, LoadSession, Goto
    <2> QED BY <2>1, <2>2 DEF TypeOK
  <1>4. CASE OpenClients(w, "fail")
    BY <1>4, <1>b, TypeOpenClients
  <1>5. CASE Deliver(w, TRUE)
    BY <1>5, <1>b, TypeDeliver
  <1>6. CASE CommitResult(w)
    BY <1>6, <1>b, TypeCommitResult
  <1>7. CASE Raise(w, "fail")
    BY <1>7, <1>b, TypeRaise
  <1>8. CASE CommitStale(w)
    BY <1>8, <1>b, TypeCommitStale
  <1>9. CASE EndBatch(w)
    <2>1. RowsOK' /\ WorldOK'
      BY <1>9, <1>a, GoodRowsNext DEF TypeOK, WorldOK, EndBatch, dbVars, worldVars
    <2>2. LocalsOK'
      BY <1>9, <1>b, TypeGoto DEF TypeOK, EndBatch, Goto
    <2> QED BY <2>1, <2>2 DEF TypeOK
  <1>10. CASE MarkClaimedFailed(w)
    <2>1. ASSUME NEW m \in Message PROVE msg'[m] \in GoodRow
      <3>1. msg[m] \in GoodRow
        BY <1>a
      <3>2. CASE m \in DOMAIN snap[w]
        <4>1. msg'[m] = Recorded(msg[m], "failed")
          BY <1>10, <3>2 DEF MarkClaimedFailed
        <4>2. msg[m].status \notin {"unused", "deleted"}
          BY <1>10, <3>2 DEF MarkClaimedFailed, Exists
        <4>3. "failed" \in TerminalState
          BY DEF TerminalState
        <4> QED BY ONLY <3>1, <4>1, <4>2, <4>3, RowWrites
      <3>3. CASE m \notin DOMAIN snap[w]
        BY <1>10, <3>1, <3>3 DEF MarkClaimedFailed
      <3> QED BY <3>2, <3>3
    <2>2. RowsOK' /\ WorldOK'
      BY <1>10, <1>a, <2>1, GoodRowsNext
      DEF TypeOK, WorldOK, MarkClaimedFailed, worldVars
    <2>3. LocalsOK'
      BY <1>10, <1>b, SessionRowsAssumption
      DEF TypeOK, LocalsOK, MarkClaimedFailed, Goto, WorkerPC
    <2> QED BY <2>2, <2>3 DEF TypeOK
  <1>11. CASE FinalizeIfComplete(w)
    <2>1. sess' \in [Session -> SessionRow]
      BY <1>11, <1>a DEF FinalizeIfComplete, SetStatus, Verdict
    <2> QED BY <1>11, <1>b, <2>1, TypeEnd DEF FinalizeIfComplete
  <1>12. CASE WorkerStale(w)
    BY <1>12, <1>a, <1>b, TypeEnd DEF WorkerStale, dbVars
  <1> QED
    BY <1>1, <1>2, <1>3, <1>4, <1>5, <1>6, <1>7, <1>8, <1>9, <1>10, <1>11, <1>12
    DEF WorkerStep

-----------------------------------------------------------------------------
(* The rest of Next *)

LEMMA TypeGenerate ==
  ASSUME TypeOK, NEW s \in Session, NEW S \in SUBSET Message,
         NEW gap \in [S -> Gap], CreateSession(s, S, gap)
  PROVE  TypeOK'
  <1>a. sess \in [Session -> SessionRow] /\ msg \in [Message -> GoodRow]
    BY GoodRows DEF TypeOK
  <1>1. PICK r \in Rankings(S) :
          msg' = [m \in Message |->
                    IF m \in S
                    THEN [msg[m] EXCEPT !.sid = s, !.order = r[m],
                                        !.gap = gap[m], !.status = "queued"]
                    ELSE msg[m]]
    BY DEF CreateSession
  <1>2. ASSUME NEW m \in Message PROVE msg'[m] \in GoodRow
    <2>1. msg[m] \in GoodRow
      BY <1>a
    <2>2. CASE m \in S
      <3> DEFINE Inserted(q, n, g) == [q EXCEPT !.sid = s, !.order = n,
                                                !.gap = g, !.status = "queued"]
      <3>1. msg'[m] = Inserted(msg[m], r[m], gap[m])
        BY <1>1, <2>2
      <3>2. r[m] \in Nat /\ gap[m] \in Gap
        BY <2>2, RankingsType
      <3>3. \A q \in GoodRow, n \in Nat, g \in Gap : Inserted(q, n, g) \in GoodRow
        BY RowWrites
      <3> HIDE DEF Inserted
      <3> QED BY ONLY <2>1, <3>1, <3>2, <3>3
    <2>3. CASE m \notin S
      BY <1>1, <2>1, <2>3
    <2> QED BY <2>2, <2>3
  <1>3. sess' \in [Session -> SessionRow]
    <2>1. sess' = [sess EXCEPT ![s].status = "pending"]
      BY DEF CreateSession, SetStatus
    <2> QED BY ONLY <1>a, <2>1, s \in Session DEF SessionRow, SessionStatus
  <1>4. RowsOK'
    BY <1>1, <1>2, <1>3, GoodRowsNext
  <1>5. WorldOK' /\ LocalsOK'
    BY DEF TypeOK, WorldOK, LocalsOK, CreateSession, worldVars, localVars
  <1> QED BY <1>4, <1>5 DEF TypeOK

LEMMA TypeEnvironment ==
  ASSUME TypeOK, Tick \/ Crash \/ \E a \in Actor : DatabaseError(a)
  PROVE  TypeOK'
  <1>1. CASE Tick
    <2>1. RowsOK'
      BY <1>1, GoodRows, GoodRowsNext DEF TypeOK, Tick, dbVars
    <2>2. WorldOK'
      BY <1>1, SessionRowsAssumption DEF TypeOK, WorldOK, Tick
    <2>3. LocalsOK'
      BY <1>1 DEF TypeOK, LocalsOK, Tick, localVars
    <2> QED BY <2>1, <2>2, <2>3 DEF TypeOK
  <1>2. CASE Crash
    <2>1. RowsOK'
      BY <1>2, GoodRows, GoodRowsNext DEF TypeOK, Crash, dbVars
    <2>2. WorldOK'
      BY <1>2, SessionRowsAssumption DEF TypeOK, WorldOK, Crash
    <2>3. LocalsOK'
      BY <1>2 DEF TypeOK, LocalsOK, Crash, NoCopies, Result, Actor
    <2> QED BY <2>1, <2>2, <2>3 DEF TypeOK
  <1>3. ASSUME NEW a \in Actor, DatabaseError(a) PROVE TypeOK'
    <2>1. RowsOK'
      BY <1>3, GoodRows, GoodRowsNext DEF TypeOK, DatabaseError, dbVars
    <2>2. WorldOK'
      BY <1>3, SessionRowsAssumption DEF TypeOK, WorldOK, DatabaseError
    <2>3. LocalsOK'
      BY <1>3, TypeReturn DEF TypeOK, DatabaseError
    <2> QED BY <2>1, <2>2, <2>3 DEF TypeOK
  <1> QED BY <1>1, <1>2, <1>3

LEMMA TypeNext == TypeOK /\ [Next]_vars => TypeOK'
  <1> SUFFICES ASSUME TypeOK, [Next]_vars PROVE TypeOK'
    OBVIOUS
  <1>1. CASE Next
    BY <1>1, TypeGenerate, TypeReviewBegin, TypeReviewStep, TypeSendNowBegin,
       TypeSendNowStep, TypeWorkerStep, TypeEnvironment
    DEF Next, Generate, HandlerBegin, HandlerStep, SendNowBegin
  <1>2. CASE UNCHANGED vars
    <2>1. RowsOK'
      BY <1>2, GoodRows, GoodRowsNext DEF TypeOK, vars, dbVars
    <2>2. WorldOK' /\ LocalsOK'
      BY <1>2 DEF TypeOK, WorldOK, LocalsOK, vars, worldVars, localVars
    <2> QED BY <2>1, <2>2 DEF TypeOK
  <1> QED BY <1>1, <1>2

\* The rows, the conversation and every coroutine's locals have their types,
\* for any number of sessions, messages, requests and workers.
THEOREM TypeCorrect == Spec => []TypeOK
  BY TypeInit, TypeNext, PTL DEF Spec

-----------------------------------------------------------------------------
(* OncePerSchedule                                                         *)
(*                                                                         *)
(* Property OncePerSchedule is not inductive: it says nothing of a claim   *)
(* that a worker still holds.  TicketInv adds that the ticket of a message *)
(* delivered or held by a worker is an old one, or the row is not pending  *)
(* any more, so no claim can take it again; that a held ticket has not     *)
(* been delivered; and that no two workers hold the same one.              *)

\* The ticket k of message m cannot be claimed (again).
Spent(m, k) == /\ k <= msg[m].ticket
               /\ k = msg[m].ticket => msg[m].state # "pending"

Delivered(m, k) == \E s \in Session : \E i \in DOMAIN chat[s] :
                     chat[s][i].mid = m /\ chat[s][i].ticket = k

HeldTickets(w) == {<<m, snap[w][m].ticket>> : m \in left[w]}

DeliveredSpent ==
  \A s \in Session : \A i \in DOMAIN chat[s] :
    chat[s][i].ticket > 0 => Spent(chat[s][i].mid, chat[s][i].ticket)

HeldSpent ==
  \A w \in Worker : \A m \in left[w] :
    snap[w][m].ticket > 0 => /\ Spent(m, snap[w][m].ticket)
                             /\ ~ Delivered(m, snap[w][m].ticket)

HeldOnce ==
  \A v, w \in Worker : \A m \in left[v] \cap left[w] :
    v # w => snap[v][m].ticket # snap[w][m].ticket \/ snap[w][m].ticket = 0

TicketInv == DeliveredSpent /\ HeldSpent /\ HeldOnce /\ OncePerSchedule

\* A message row never goes back to an earlier ticket, nor to "pending"
\* with the same one.
RowsMoveOn ==
  \A m \in Message :
    \/ msg'[m].ticket > msg[m].ticket
    \/ /\ msg'[m].ticket = msg[m].ticket
       /\ msg'[m].state = "pending" => msg[m].state = "pending"

\* A worker's claims only shrink.
ClaimsShrink ==
  \A w \in Worker : /\ left'[w] \subseteq left[w]
                    /\ \A m \in left'[w] : snap'[w][m] = snap[w][m]

\* A spent ticket stays spent.
LEMMA SpentStays ==
  ASSUME TypeOK, TypeOK', RowsMoveOn, NEW m \in Message, NEW k \in Nat, Spent(m, k)
  PROVE  Spent(m, k)'
  BY DEF TypeOK, RowsOK, MessageRow, RowsMoveOn, Spent

LEMMA ChatEntry ==
  ASSUME TypeOK, NEW s \in Session, NEW i \in DOMAIN chat[s]
  PROVE  chat[s][i].mid \in Message /\ chat[s][i].ticket \in Nat
  <1>1. chat[s] \in Seq(Entry)
    BY DEF TypeOK, WorldOK
  <1>2. chat[s][i] \in Entry
    BY <1>1
  <1> QED BY <1>2 DEF Entry

\* A step that delivers nothing and claims nothing keeps TicketInv.
LEMMA QuietStep ==
  ASSUME TypeOK, TypeOK', TicketInv, RowsMoveOn, ClaimsShrink, chat' = chat
  PROVE  TicketInv'
  <1>1. DeliveredSpent'
    <2> QED BY ChatEntry, SpentStays DEF TicketInv, DeliveredSpent
  <1>2. HeldSpent'
    <2>1. ASSUME NEW w \in Worker, NEW m \in left'[w]
          PROVE  /\ m \in Message /\ m \in left[w]
                 /\ snap'[w][m] = snap[w][m] /\ snap[w][m].ticket \in Nat
      BY <2>1 DEF TypeOK, LocalsOK, ClaimsShrink, MessageRow, Actor
    <2>2. ASSUME NEW m, NEW k PROVE Delivered(m, k)' <=> Delivered(m, k)
      BY DEF Delivered
    <2> QED BY <2>1, <2>2, SpentStays DEF TicketInv, HeldSpent
  <1>3. HeldOnce'
    BY DEF TicketInv, HeldOnce, ClaimsShrink
  <1>4. OncePerSchedule'
    BY DEF TicketInv, OncePerSchedule
  <1> QED BY <1>1, <1>2, <1>3, <1>4 DEF TicketInv

\* What a request does to its own locals leaves the claims alone.
LEMMA HandlerKeepsClaims ==
  ASSUME TypeOK, NEW h \in Handler,
         left' = left \/ \E S : left' = [left EXCEPT ![h] = S],
         snap' = snap \/ \E f : snap' = [snap EXCEPT ![h] = f]
  PROVE  ClaimsShrink
  BY SessionRowsAssumption DEF TypeOK, LocalsOK, ClaimsShrink, Actor

\* So does a worker that returns.
LEMMA ReturnKeepsClaims ==
  ASSUME TypeOK, NEW a \in Actor, Return(a)
  PROVE  ClaimsShrink
  BY DEF TypeOK, LocalsOK, ClaimsShrink, Actor, Return

LEMMA SameRowsMoveOn ==
  ASSUME TypeOK, msg' = msg
  PROVE  RowsMoveOn
  BY DEF RowsMoveOn

LEMMA ReviewMovesOn ==
  ASSUME TypeOK, NEW h \in Handler, ReviewStep(h)
  PROVE  RowsMoveOn /\ chat' = chat /\ ClaimsShrink
  <1>a. msg \in [Message -> MessageRow]
    BY DEF TypeOK, RowsOK
  <1>b. ASSUME NEW op, Finish(h, op) PROVE chat' = chat /\ ClaimsShrink
    BY <1>b, ReturnKeepsClaims DEF Finish, worldVars, Actor
  <1>1. CASE ApproveNow(h)
    BY <1>1, <1>b, SameRowsMoveOn DEF ApproveNow
  <1>2. ASSUME NEW start \in Start, ApproveAt(h, start)
        PROVE  RowsMoveOn /\ chat' = chat /\ ClaimsShrink
    <2>1. PICK at \in Schedules(RowsOf(cur[h]), start) :
            msg' = [m \in Message |->
                      IF m \in DOMAIN at
                      THEN [msg[m] EXCEPT !.at = at[m], !.state = "pending",
                                          !.ticket = @ + 1]
                      ELSE msg[m]]
      BY <1>2 DEF ApproveAt
    <2>2. RowsMoveOn
      <3> SUFFICES ASSUME NEW m \in Message
                   PROVE  \/ msg'[m].ticket > msg[m].ticket
                          \/ msg'[m] = msg[m]
        BY DEF RowsMoveOn
      <3>1. CASE m \in DOMAIN at
        <4>1. msg'[m] = [msg[m] EXCEPT !.at = at[m], !.state = "pending",
                                       !.ticket = @ + 1]
          BY <2>1, <3>1
        <4> QED BY <1>a, <4>1 DEF MessageRow
      <3>2. CASE m \notin DOMAIN at
        BY <2>1, <3>2
      <3> QED BY <3>1, <3>2
    <2> QED BY <1>2, <1>b, <2>2 DEF ApproveAt
  <1>3. CASE Reject(h)
    BY <1>3, <1>b, SameRowsMoveOn DEF Reject
  <1>4. CASE Delete(h)
    <2>1. RowsMoveOn
      BY <1>4, <1>a DEF Delete, RowsMoveOn, MessageRow
    <2> QED BY <1>4, <1>b, <2>1 DEF Delete
  <1>5. ASSUME NEW pos \in 0 .. Cardinality(Message), NEW gap \in Gap, Add(h, pos, gap)
        PROVE  RowsMoveOn /\ chat' = chat /\ ClaimsShrink
    <2> DEFINE shifted == {n \in DOMAIN snap[h] \ {mid[h]} : snap[h][n].order >= pos}
    <2>1. msg' = [n \in Message |->
                    CASE n = mid[h] -> [msg[n] EXCEPT !.sid = cur[h], !.order = pos,
                                                       !.gap = gap, !.status = "queued"]
                      [] n \in shifted -> [msg[n] EXCEPT !.order = snap[h][n].order + 1]
                      [] OTHER -> msg[n]]
      BY <1>5 DEF Add
    <2>2. RowsMoveOn
      <3> SUFFICES ASSUME NEW n \in Message
                   PROVE  msg'[n].ticket = msg[n].ticket /\ msg'[n].state = msg[n].state
        BY DEF RowsMoveOn
      <3>1. CASE n = mid[h]
        <4>1. msg'[n] = [msg[n] EXCEPT !.sid = cur[h], !.order = pos,
                                       !.gap = gap, !.status = "queued"]
          BY <2>1, <3>1
        <4> QED BY <1>a, <4>1 DEF MessageRow
      <3>2. CASE n # mid[h] /\ n \in shifted
        <4>1. msg'[n] = [msg[n] EXCEPT !.order = snap[h][n].order + 1]
          BY <2>1, <3>2
        <4> QED BY <1>a, <4>1 DEF MessageRow
      <3>3. CASE n # mid[h] /\ n \notin shifted
        BY <2>1, <3>3
      <3> QED BY <3>1, <3>2, <3>3
    <2> QED BY <1>5, <1>b, <2>2 DEF Add
  <1>6. CASE Remove(h)
    <2> DEFINE rest == RowsOf(cur[h]) \ {mid[h]}
    <2>1. PICK r \in Rankings(rest) :
            msg' = [n \in Message |->
                      CASE n = mid[h] -> [msg[n] EXCEPT !.status = "deleted"]
                        [] n \in rest -> [msg[n] EXCEPT !.order = r[n]]
                        [] OTHER -> msg[n]]
      BY <1>6 DEF Remove
    <2>2. RowsMoveOn
      <3> SUFFICES ASSUME NEW n \in Message
                   PROVE  msg'[n].ticket = msg[n].ticket /\ msg'[n].state = msg[n].state
        BY DEF RowsMoveOn
      <3>1. CASE n = mid[h]
        <4>1. msg'[n] = [msg[n] EXCEPT !.status = "deleted"]
          BY <2>1, <3>1
        <4> QED BY <1>a, <4>1 DEF MessageRow
      <3>2. CASE n # mid[h] /\ n \in rest
        <4>1. msg'[n] = [msg[n] EXCEPT !.order = r[n]]
          BY <2>1, <3>2
        <4> QED BY <1>a, <4>1 DEF MessageRow
      <3>3. CASE n # mid[h] /\ n \notin rest
        BY <2>1, <3>3
      <3> QED BY <3>1, <3>2, <3>3
    <2> QED BY <1>6, <1>b, <2>2 DEF Remove
  <1>7. CASE EditText(h)
    <2>1. RowsMoveOn
      BY <1>7, <1>a DEF EditText, RowsMoveOn, MessageRow
    <2> QED BY <1>7, <1>b, <2>1 DEF EditText
  <1>8. ASSUME NEW gap \in Gap, EditGap(h, gap)
        PROVE  RowsMoveOn /\ chat' = chat /\ ClaimsShrink
    <2>1. RowsMoveOn
      BY <1>8, <1>a DEF EditGap, RowsMoveOn, MessageRow
    <2> QED BY <1>8, <1>b, <2>1 DEF EditGap
  <1>9. CASE WriteStale(h)
    BY <1>9, SameRowsMoveOn, ReturnKeepsClaims DEF WriteStale, dbVars, worldVars, Actor
  <1> QED BY <1>1, <1>2, <1>3, <1>4, <1>5, <1>6, <1>7, <1>8, <1>9 DEF ReviewStep

LEMMA BeginMovesOn ==
  ASSUME TypeOK, NEW h \in Handler, HandlerBegin(h)
  PROVE  RowsMoveOn /\ chat' = chat /\ ClaimsShrink
  <1>1. ASSUME NEW op, NEW s, NEW m, Begin(h, op, s, m),
               UNCHANGED snap \/ \E f : snap' = [snap EXCEPT ![h] = f]
        PROVE  RowsMoveOn /\ chat' = chat /\ ClaimsShrink
    BY <1>1, SameRowsMoveOn, HandlerKeepsClaims DEF Begin, dbVars, worldVars
  <1>2. CASE ReviewBegin(h)
    BY <1>1, <1>2 DEF ReviewBegin, BeginApprove, BeginReject, BeginDelete, BeginAdd,
                      BeginRemove, BeginEdit
  <1>3. CASE SendNowBegin(h)
    BY <1>3, SameRowsMoveOn, HandlerKeepsClaims
    DEF SendNowBegin, BeginSendNow, dbVars, worldVars
  <1> QED BY <1>2, <1>3 DEF HandlerBegin

LEMMA SendNowMovesOn ==
  ASSUME TypeOK, NEW h \in Handler, SendNowStep(h), ~ Deliver(h, FALSE)
  PROVE  RowsMoveOn /\ chat' = chat /\ ClaimsShrink
  <1>b. h \in Actor
    BY DEF Actor
  <1>1. CASE MarkSending(h)
    BY <1>1, SameRowsMoveOn, HandlerKeepsClaims DEF MarkSending, worldVars
  <1>2. CASE OpenClients(h, "abort")
    BY <1>2, SameRowsMoveOn, HandlerKeepsClaims DEF OpenClients, dbVars, worldVars
  <1>3. CASE CommitResult(h)
    <2>1. RowsMoveOn
      BY <1>3 DEF CommitResult, Recorded, RowsMoveOn, TypeOK, RowsOK, MessageRow,
                  TerminalState
    <2> QED BY <1>3, <2>1, HandlerKeepsClaims DEF CommitResult, worldVars
  <1>4. CASE Raise(h, "abort")
    BY <1>4, SameRowsMoveOn, HandlerKeepsClaims DEF Raise, dbVars, worldVars
  <1>5. CASE CommitStale(h) \/ NowStale(h)
    BY <1>b, <1>5, SameRowsMoveOn, ReturnKeepsClaims
    DEF CommitStale, NowStale, dbVars, worldVars
  <1>6. CASE CloseNow(h) \/ AbortNow(h)
    BY <1>b, <1>6, SameRowsMoveOn, ReturnKeepsClaims DEF CloseNow, AbortNow, worldVars
  <1> QED BY <1>1, <1>2, <1>3, <1>4, <1>5, <1>6 DEF SendNowStep

LEMMA WorkerMovesOn ==
  ASSUME TypeOK, NEW w \in Worker, WorkerStep(w), ~ Deliver(w, TRUE),
         \A s \in Session : ~ Claim(w, s)
  PROVE  RowsMoveOn /\ chat' = chat /\ ClaimsShrink
  <1>b. w \in Actor
    BY DEF Actor
  <1>c. ASSUME UNCHANGED <<snap, left>> PROVE ClaimsShrink
    BY <1>c DEF ClaimsShrink
  <1>1. CASE Poll(w)
    BY <1>1, <1>c, SameRowsMoveOn DEF Poll, dbVars, worldVars
  <1>2. CASE LoadSession(w)
    BY <1>2, <1>c, SameRowsMoveOn DEF LoadSession, worldVars
  <1>3. CASE OpenClients(w, "fail")
    BY <1>3, <1>c, SameRowsMoveOn DEF OpenClients, dbVars, worldVars
  <1>4. CASE CommitResult(w)
    <2>1. RowsMoveOn
      BY <1>4 DEF CommitResult, Recorded, RowsMoveOn, TypeOK, RowsOK, MessageRow,
                  TerminalState
    <2> QED BY <1>4, <1>c, <2>1 DEF CommitResult, worldVars
  <1>5. CASE Raise(w, "fail")
    BY <1>5, <1>c, SameRowsMoveOn DEF Raise, dbVars, worldVars
  <1>6. CASE CommitStale(w) \/ WorkerStale(w)
    BY <1>b, <1>6, SameRowsMoveOn, ReturnKeepsClaims
    DEF CommitStale, WorkerStale, dbVars, worldVars
  <1>7. CASE EndBatch(w)
    BY <1>7, <1>c, SameRowsMoveOn DEF EndBatch, dbVars, worldVars
  <1>8. CASE MarkClaimedFailed(w)
    <2>1. RowsMoveOn
      BY <1>8 DEF MarkClaimedFailed, Recorded, RowsMoveOn, TypeOK, RowsOK, MessageRow
    <2>2. ClaimsShrink
      BY <1>8 DEF MarkClaimedFailed, ClaimsShrink, TypeOK, LocalsOK, Actor
    <2> QED BY <1>8, <2>1, <2>2 DEF MarkClaimedFailed, worldVars
  <1>9. CASE FinalizeIfComplete(w)
    BY <1>b, <1>9, SameRowsMoveOn, ReturnKeepsClaims DEF FinalizeIfComplete, worldVars
  <1> QED BY <1>1, <1>2, <1>3, <1>4, <1>5, <1>6, <1>7, <1>8, <1>9 DEF WorkerStep

\* The claim takes pending rows only, so their tickets are neither delivered
\* nor held by another worker.
LEMMA TicketClaim ==
  ASSUME TypeOK, TypeOK', TicketInv, NEW w \in Worker, NEW s \in Session, Claim(w, s)
  PROVE  TicketInv'
  <1> DEFINE claimed == Claimable(s)
  <1>1. /\ claimed \subseteq Message
        /\ \A m \in claimed : msg[m].state = "pending"
        /\ msg' = [m \in Message |-> IF m \in claimed
                                     THEN [msg[m] EXCEPT !.state = "sending"]
                                     ELSE msg[m]]
        /\ chat' = chat
    BY DEF Claim, Claimable, RowsOf, worldVars
  <1>2. /\ w \in Actor /\ snap'[w] = [m \in claimed |-> msg'[m]] /\ left'[w] = claimed
        /\ \A v \in Worker \ {w} : snap'[v] = snap[v] /\ left'[v] = left[v]
    BY DEF Claim, TypeOK, LocalsOK, Actor
  <1> HIDE DEF claimed
  <1>3. \A m \in Message : /\ msg'[m].ticket = msg[m].ticket
                           /\ msg'[m].state = "pending" => msg[m].state = "pending"
                           /\ m \in claimed => msg'[m].state = "sending"
    BY <1>1 DEF TypeOK, RowsOK, MessageRow
  <1>4. RowsMoveOn
    BY <1>3 DEF RowsMoveOn
  <1>5. \A m \in claimed : snap'[w][m].ticket = msg[m].ticket /\ msg[m].ticket \in Nat
    BY <1>1, <1>2, <1>3 DEF TypeOK, RowsOK, MessageRow
  <1>6. \A m \in Message, k \in Nat : Spent(m, k) => Spent(m, k)'
    BY <1>4, SpentStays
  <1>7. \A m, k : Delivered(m, k)' <=> Delivered(m, k)
    BY <1>1 DEF Delivered
  <1>8. DeliveredSpent'
    BY <1>1, <1>6, ChatEntry DEF TicketInv, DeliveredSpent
  <1>9. ASSUME NEW m \in claimed, msg[m].ticket > 0
        PROVE  ~ Delivered(m, msg[m].ticket)
    BY <1>1, <1>9 DEF TicketInv, DeliveredSpent, Delivered, Spent
  <1>10. ASSUME NEW v \in Worker, v # w, NEW m \in left[v]
         PROVE  m \in Message /\ snap[v][m].ticket \in Nat
    BY <1>10 DEF TypeOK, LocalsOK, MessageRow, Actor
  <1>11. HeldSpent'
    <2>1. ASSUME NEW v \in Worker, NEW m \in left'[v], NEW k,
                 k = snap'[v][m].ticket, k > 0
          PROVE  Spent(m, k)' /\ ~ Delivered(m, k)'
      <3>1. CASE v = w
        <4>1. m \in claimed /\ k = msg[m].ticket
          BY <1>2, <1>5, <2>1, <3>1
        <4>2. Spent(m, k)'
          BY <1>1, <1>3, <1>5, <4>1 DEF Spent
        <4> QED BY <1>7, <1>9, <2>1, <4>1, <4>2
      <3>2. CASE v # w
        <4>1. m \in left[v] /\ k = snap[v][m].ticket
          BY <1>2, <2>1, <3>2
        <4>2. m \in Message /\ k \in Nat
          BY <1>10, <3>2, <4>1
        <4>3. Spent(m, k) /\ ~ Delivered(m, k)
          BY <2>1, <4>1 DEF TicketInv, HeldSpent
        <4> QED BY <1>6, <1>7, <4>2, <4>3
      <3> QED BY <3>1, <3>2
    <2> QED BY <2>1 DEF HeldSpent
  <1>12. HeldOnce'
    <2>1. ASSUME NEW v \in Worker, v # w, NEW m \in left[v] \cap claimed
          PROVE  snap[v][m].ticket # msg[m].ticket \/ msg[m].ticket = 0
      BY <1>1, <1>5, <1>10, <2>1 DEF TicketInv, HeldSpent, Spent
    <2> QED BY <1>2, <1>5, <2>1 DEF TicketInv, HeldOnce
  <1>13. OncePerSchedule'
    BY <1>1 DEF TicketInv, OncePerSchedule
  <1> QED BY <1>8, <1>11, <1>12, <1>13 DEF TicketInv

\* What Deliver does to the conversation, the rows and the locals.
LEMMA DeliverEffect ==
  ASSUME TypeOK, NEW a \in Actor, NEW ticketed \in BOOLEAN, Deliver(a, ticketed)
  PROVE  /\ msg' = msg /\ snap' = snap /\ cur[a] \in Session
         /\ \E m \in left[a] :
              /\ m \in Message /\ snap[a][m].ticket \in Nat
              /\ left' = [left EXCEPT ![a] = @ \ {m}]
              /\ \A n \in left[a] : snap[a][m].order <= snap[a][n].order
              /\ \/ chat' = chat
                 \/ \E e \in Entry :
                      /\ e.mid = m
                      /\ e.ticket = IF ticketed THEN snap[a][m].ticket ELSE 0
                      /\ chat' = [chat EXCEPT ![cur[a]] = Append(@, e)]
  <1>1. msg' = msg /\ snap' = snap /\ cur[a] \in Session
    BY DEF Deliver, dbVars, TypeOK, LocalsOK
  <1>2. PICK m \in left[a], accepted \in BOOLEAN :
          /\ LET entry == [mid |-> m, body |-> snap[a][m].body,
                           ticket |-> IF ticketed THEN snap[a][m].ticket ELSE 0]
             IN  chat' = IF accepted
                         THEN [chat EXCEPT ![cur[a]] = Append(@, entry)]
                         ELSE chat
          /\ left' = [left EXCEPT ![a] = @ \ {m}]
          /\ \A n \in left[a] : snap[a][m].order <= snap[a][n].order
    BY DEF Deliver
  <1>3. m \in Message /\ snap[a][m] \in MessageRow
    BY DEF TypeOK, LocalsOK
  <1> DEFINE entry == [mid |-> m, body |-> snap[a][m].body,
                       ticket |-> IF ticketed THEN snap[a][m].ticket ELSE 0]
  <1>4. /\ entry \in Entry /\ entry.mid = m /\ snap[a][m].ticket \in Nat
        /\ entry.ticket = IF ticketed THEN snap[a][m].ticket ELSE 0
    BY <1>3 DEF MessageRow, Entry
  <1>5. chat' = chat \/ chat' = [chat EXCEPT ![cur[a]] = Append(@, entry)]
    BY <1>2
  <1> HIDE DEF entry
  <1> QED BY <1>1, <1>2, <1>3, <1>4, <1>5

\* The entries of the conversations after one more was appended.
LEMMA Appended ==
  ASSUME TypeOK, NEW s \in Session, NEW e \in Entry,
         chat' = [chat EXCEPT ![s] = Append(@, e)]
  PROVE  /\ \A t \in Session \ {s} : chat'[t] = chat[t]
         /\ DOMAIN chat[s] = 1 .. Len(chat[s]) /\ Len(chat[s]) \in Nat
         /\ DOMAIN chat'[s] = 1 .. Len(chat[s]) + 1
         /\ \A i \in DOMAIN chat[s] : chat'[s][i] = chat[s][i]
         /\ chat'[s][Len(chat[s]) + 1] = e
  <1>1. chat \in [Session -> Seq(Entry)]
    BY DEF TypeOK, WorldOK
  <1>2. chat'[s] = Append(chat[s], e) /\ chat[s] \in Seq(Entry)
    BY <1>1
  <1>3. \A t \in Session \ {s} : chat'[t] = chat[t]
    BY <1>1
  <1> QED BY <1>2, <1>3

\* Every entry of a later conversation is an old one or the new one.
LEMMA AppendedDelivered ==
  ASSUME TypeOK, NEW s \in Session, NEW e \in Entry,
         chat' = [chat EXCEPT ![s] = Append(@, e)],
         NEW m, NEW k, Delivered(m, k)'
  PROVE  Delivered(m, k) \/ (m = e.mid /\ k = e.ticket)
  <1>0. PICK t \in Session : \E i \in DOMAIN chat'[t] :
          chat'[t][i].mid = m /\ chat'[t][i].ticket = k
    BY DEF Delivered
  <1>1. PICK i \in DOMAIN chat'[t] :
          chat'[t][i].mid = m /\ chat'[t][i].ticket = k
    BY <1>0
  <1>2. CASE t # s
    BY <1>1, <1>2, Appended DEF Delivered
  <1>3. CASE t = s
    <2>1. i \in DOMAIN chat[s] \/ i = Len(chat[s]) + 1
      BY <1>1, <1>3, Appended
    <2> QED BY <1>1, <1>3, <2>1, Appended DEF Delivered
  <1> QED BY <1>2, <1>3

\* What a delivery adds is spent, new, and held by nobody afterwards.
LEMMA TicketDeliver ==
  ASSUME TypeOK, TypeOK', TicketInv, NEW a \in Actor, NEW ticketed \in BOOLEAN,
         Deliver(a, ticketed), IF ticketed THEN a \in Worker ELSE a \in Handler
  PROVE  TicketInv'
  <1>1. msg' = msg /\ snap' = snap /\ cur[a] \in Session
    BY DeliverEffect
  <1>2. PICK m \in left[a] :
          /\ m \in Message /\ snap[a][m].ticket \in Nat
          /\ left' = [left EXCEPT ![a] = @ \ {m}]
          /\ \/ chat' = chat
             \/ \E e \in Entry :
                  /\ e.mid = m
                  /\ e.ticket = IF ticketed THEN snap[a][m].ticket ELSE 0
                  /\ chat' = [chat EXCEPT ![cur[a]] = Append(@, e)]
    BY DeliverEffect
  <1>3. RowsMoveOn /\ ClaimsShrink
    BY <1>1, <1>2, SameRowsMoveOn DEF ClaimsShrink, TypeOK, LocalsOK, Actor
  <1>4. CASE chat' = chat
    BY <1>3, <1>4, QuietStep
  <1>5. ASSUME NEW e \in Entry, e.mid = m,
               e.ticket = IF ticketed THEN snap[a][m].ticket ELSE 0,
               chat' = [chat EXCEPT ![cur[a]] = Append(@, e)]
        PROVE  TicketInv'
    <2> DEFINE s == cur[a]
    <2>0. s \in Session
      BY <1>1
    <2>a. /\ \A t \in Session \ {s} : chat'[t] = chat[t]
          /\ DOMAIN chat[s] = 1 .. Len(chat[s]) /\ Len(chat[s]) \in Nat
          /\ DOMAIN chat'[s] = 1 .. Len(chat[s]) + 1
          /\ \A i \in DOMAIN chat[s] : chat'[s][i] = chat[s][i]
          /\ chat'[s][Len(chat[s]) + 1] = e
      BY <1>5, <2>0, Appended
    <2>1. e.ticket > 0 => /\ ticketed /\ a \in Worker /\ e.ticket = snap[a][m].ticket
                          /\ Spent(m, e.ticket) /\ ~ Delivered(m, e.ticket)
      BY <1>5 DEF TicketInv, HeldSpent
    <2>2. \A n, k : Spent(n, k)' <=> Spent(n, k)
      BY <1>1 DEF Spent
    <2>3. \A n, k : Delivered(n, k)' => Delivered(n, k) \/ (n = m /\ k = e.ticket)
      BY <1>5, <2>0, AppendedDelivered
    <2> HIDE DEF s
    <2>4. DeliveredSpent'
      <3>1. ASSUME NEW t \in Session, NEW i \in DOMAIN chat'[t], NEW n, NEW k,
                   n = chat'[t][i].mid, k = chat'[t][i].ticket, k > 0
            PROVE  Spent(n, k)
        <4>1. CASE chat'[t][i] = e
          BY <1>5, <2>1, <3>1, <4>1
        <4>2. CASE i \in DOMAIN chat[t] /\ chat'[t][i] = chat[t][i]
          BY <3>1, <4>2 DEF TicketInv, DeliveredSpent
        <4> QED BY <2>a, <4>1, <4>2
      <3> QED BY <2>2, <3>1 DEF DeliveredSpent
    <2>5. left'[a] = left[a] \ {m} /\ \A v \in Actor \ {a} : left'[v] = left[v]
      BY <1>2 DEF TypeOK, LocalsOK
    <2>6. HeldSpent'
      <3>1. ASSUME NEW v \in Worker, NEW n \in left'[v], NEW k,
                   k = snap[v][n].ticket, k > 0
            PROVE  Spent(n, k) /\ ~ Delivered(n, k)'
        <4>1. n \in left[v] /\ (v = a => n # m)
          BY <2>5 DEF Actor
        <4>2. Spent(n, k) /\ ~ Delivered(n, k)
          BY <3>1, <4>1 DEF TicketInv, HeldSpent
        <4>3. ~ (n = m /\ k = e.ticket)
          <5> SUFFICES ASSUME n = m, k = e.ticket PROVE FALSE
            OBVIOUS
          <5>1. a \in Worker /\ e.ticket = snap[a][m].ticket /\ v # a
            BY <2>1, <3>1, <4>1
          <5>2. m \in left[v] \cap left[a] /\ snap[v][m].ticket = snap[a][m].ticket
            BY <3>1, <4>1, <5>1
          <5>3. snap[a][m].ticket > 0 /\ snap[a][m].ticket \in Nat
            BY <1>2, <3>1, <5>1
          <5> QED BY <5>1, <5>2, <5>3 DEF TicketInv, HeldOnce
        <4> QED BY <2>3, <4>2, <4>3
      <3> QED BY <1>1, <2>2, <3>1 DEF HeldSpent
    <2>7. HeldOnce'
      BY <1>1, <1>3 DEF TicketInv, HeldOnce, ClaimsShrink
    <2>8. OncePerSchedule'
      <3> SUFFICES ASSUME NEW t \in Session, NEW u \in Session,
                          NEW i \in DOMAIN chat'[t], NEW j \in DOMAIN chat'[u],
                          chat'[t][i].ticket > 0, chat'[t][i].mid = chat'[u][j].mid,
                          chat'[t][i].ticket = chat'[u][j].ticket
                   PROVE  t = u /\ i = j
        BY DEF OncePerSchedule
      <3> DEFINE Old(x, n) == n \in DOMAIN chat[x] /\ chat'[x][n] = chat[x][n]
                 New(x, n) == x = s /\ n = Len(chat[s]) + 1 /\ chat'[x][n] = e
      <3>1. \A x \in Session : \A n \in DOMAIN chat'[x] : Old(x, n) \/ New(x, n)
        <4>1. ASSUME NEW n \in DOMAIN chat'[s] PROVE Old(s, n) \/ New(s, n)
          BY <2>0, <2>a, <4>1
        <4>2. ASSUME NEW x \in Session, x # s, NEW n \in DOMAIN chat'[x]
              PROVE  Old(x, n)
          BY <2>a, <4>2
        <4> QED BY <4>1, <4>2
      <3>2. CASE Old(t, i) /\ Old(u, j)
        BY <3>2 DEF TicketInv, OncePerSchedule
      <3>3. CASE New(t, i) /\ New(u, j)
        BY <3>3
      <3>4. CASE Old(t, i) /\ New(u, j)
        BY <1>5, <2>1, <3>4 DEF Delivered
      <3>5. CASE New(t, i) /\ Old(u, j)
        BY <1>5, <2>1, <3>5 DEF Delivered
      <3> QED BY <3>1, <3>2, <3>3, <3>4, <3>5
    <2> QED BY <2>4, <2>6, <2>7, <2>8 DEF TicketInv
  <1> QED BY <1>2, <1>4, <1>5

LEMMA TicketInit == Init => TicketInv
  BY DEF Init, RowsInit, TicketInv, DeliveredSpent, HeldSpent, HeldOnce,
         OncePerSchedule, Actor

LEMMA TicketNext == TypeOK /\ TypeOK' /\ TicketInv /\ [Next]_vars => TicketInv'
  <1> SUFFICES ASSUME TypeOK, TypeOK', TicketInv, [Next]_vars PROVE TicketInv'
    OBVIOUS
  <1>1. CASE Generate
    <2>1. RowsMoveOn
      <3>0. PICK s \in Session, S \in SUBSET Message :
              \E gap \in [S -> Gap] : CreateSession(s, S, gap)
        BY <1>1 DEF Generate
      <3>1. PICK gap \in [S -> Gap] : CreateSession(s, S, gap)
        BY <3>0
      <3>2. PICK r \in Rankings(S) :
              msg' = [m \in Message |->
                        IF m \in S
                        THEN [msg[m] EXCEPT !.sid = s, !.order = r[m],
                                            !.gap = gap[m], !.status = "queued"]
                        ELSE msg[m]]
        BY <3>1 DEF CreateSession
      <3> SUFFICES ASSUME NEW m \in Message
                   PROVE  msg'[m].ticket = msg[m].ticket /\ msg'[m].state = msg[m].state
        BY DEF RowsMoveOn
      <3>3. CASE m \in S
        <4>1. msg'[m] = [msg[m] EXCEPT !.sid = s, !.order = r[m],
                                       !.gap = gap[m], !.status = "queued"]
          BY <3>2, <3>3
        <4> QED BY <4>1 DEF TypeOK, RowsOK, MessageRow
      <3>4. CASE m \notin S
        BY <3>2, <3>4
      <3> QED BY <3>3, <3>4
    <2>2. chat' = chat /\ ClaimsShrink
      BY <1>1 DEF Generate, CreateSession, worldVars, localVars, ClaimsShrink
    <2> QED BY <2>1, <2>2, QuietStep
  <1>2. ASSUME NEW h \in Handler, HandlerBegin(h) \/ HandlerStep(h) PROVE TicketInv'
    <2>1. CASE Deliver(h, FALSE)
      BY <2>1, TicketDeliver DEF Actor
    <2>2. CASE ~ Deliver(h, FALSE)
      BY <1>2, <2>2, BeginMovesOn, ReviewMovesOn, SendNowMovesOn, QuietStep
      DEF HandlerStep
    <2> QED BY <2>1, <2>2
  <1>3. ASSUME NEW w \in Worker, WorkerStep(w) PROVE TicketInv'
    <2>1. CASE Deliver(w, TRUE)
      BY <2>1, TicketDeliver DEF Actor
    <2>2. ASSUME NEW s \in Session, Claim(w, s) PROVE TicketInv'
      BY <2>2, TicketClaim
    <2>3. CASE ~ Deliver(w, TRUE) /\ \A s \in Session : ~ Claim(w, s)
      BY <1>3, <2>3, WorkerMovesOn, QuietStep
    <2> QED BY <2>1, <2>2, <2>3
  <1>4. ASSUME NEW a \in Actor, DatabaseError(a) PROVE TicketInv'
    BY <1>4, SameRowsMoveOn, ReturnKeepsClaims, QuietStep DEF DatabaseError, dbVars
  <1>5. CASE Tick
    BY <1>5, SameRowsMoveOn, QuietStep DEF Tick, ClaimsShrink, dbVars, localVars
  <1>6. CASE Crash
    BY <1>6, SameRowsMoveOn, QuietStep DEF Crash, ClaimsShrink, dbVars, Actor
  <1>7. CASE UNCHANGED vars
    BY <1>7, SameRowsMoveOn, QuietStep
    DEF vars, ClaimsShrink, dbVars, worldVars, localVars
  <1> QED BY <1>1, <1>2, <1>3, <1>4, <1>5, <1>6, <1>7 DEF Next

\* However many workers, requests, crashes and deletions interleave, the
\* workers deliver a message at most once for every time it was scheduled
\* (_claim_due_messages lets one of them through).
THEOREM WorkersSendOnce == Spec => []OncePerSchedule
  <1>1. Init => TypeOK /\ TicketInv
    BY TypeInit, TicketInit
  <1>2. TypeOK /\ TicketInv /\ [Next]_vars => (TypeOK /\ TicketInv)'
    BY TypeNext, TicketNext
  <1>3. TicketInv => OncePerSchedule
    BY DEF TicketInv
  <1> QED BY <1>1, <1>2, <1>3, PTL DEF Spec

-----------------------------------------------------------------------------
(* ApprovedFirst                                                           *)
(*                                                                         *)
(* Sending code never looks at approved_by.  ApprovedInv carries the       *)
(* approval from the row to the send-now request or the worker that read   *)
(* its status or its start, and past every later change of the row.        *)

ApprovedInv ==
  /\ \A s \in Session : sess[s].status = "approved" \/ sess[s].start # NoTime
                          => sess[s].approved
  /\ \A w \in Worker : \A s \in todo[w] : sess[s].approved
  /\ \A a \in Actor : pc[a] \in SendNowPC \cup WorkerPC => sess[cur[a]].approved

\* A session row as a step may leave it: approved stays, and whoever makes it
\* approved or scheduled approves it.
SessionsMoveOn ==
  \A s \in Session :
    /\ sess[s].approved => sess'[s].approved
    /\ sess'[s].status = "approved" \/ sess'[s].start # NoTime =>
         \/ sess'[s].approved
         \/ sess[s].status = "approved" \/ sess[s].start # NoTime

\* No actor starts to send and no worker finds new work.
NobodyStarts ==
  /\ \A w \in Worker : todo'[w] \subseteq todo[w]
  /\ \A a \in Actor : pc'[a] \in SendNowPC \cup WorkerPC =>
       pc[a] \in SendNowPC \cup WorkerPC /\ cur'[a] = cur[a]

LEMMA SessionsOrNobody ==
  ASSUME TypeOK, TypeOK', ApprovedInv, SessionsMoveOn, NobodyStarts
  PROVE  ApprovedInv'
  <1>1. \A s \in Session : sess'[s].status = "approved" \/ sess'[s].start # NoTime
                             => sess'[s].approved
    BY DEF ApprovedInv, SessionsMoveOn
  <1>2. \A w \in Worker : \A s \in todo'[w] : sess'[s].approved
    BY DEF ApprovedInv, SessionsMoveOn, NobodyStarts, TypeOK, LocalsOK
  <1>3. \A a \in Actor : pc'[a] \in SendNowPC \cup WorkerPC => sess'[cur'[a]].approved
    <2>1. ASSUME NEW a \in Actor, pc[a] \in SendNowPC \cup WorkerPC
          PROVE  cur[a] \in Session
      BY <2>1 DEF TypeOK, LocalsOK, SendNowPC, WorkerPC
    <2> QED BY <2>1 DEF ApprovedInv, SessionsMoveOn, NobodyStarts
  <1> QED BY <1>1, <1>2, <1>3 DEF ApprovedInv

LEMMA SameSessions ==
  ASSUME sess' = sess
  PROVE  SessionsMoveOn
  BY DEF SessionsMoveOn

\* Any status but "approved" may be written without an approval.
LEMMA StatusMovesOn ==
  ASSUME TypeOK, NEW s \in Session, NEW st, st # "approved", SetStatus(s, st)
  PROVE  SessionsMoveOn
  BY DEF TypeOK, RowsOK, SessionRow, SetStatus, SessionsMoveOn

LEMMA ReturnStartsNothing ==
  ASSUME TypeOK, NEW a \in Actor, Return(a), todo' = todo
  PROVE  NobodyStarts
  BY DEF TypeOK, LocalsOK, Return, NobodyStarts, SendNowPC, WorkerPC

\* An actor that sends already goes on with the same session.
LEMMA GotoStartsNothing ==
  ASSUME TypeOK, NEW a \in Actor, NEW to, pc' = [pc EXCEPT ![a] = to],
         pc[a] \in SendNowPC \cup WorkerPC, UNCHANGED <<cur, todo>>
  PROVE  NobodyStarts
  BY DEF TypeOK, LocalsOK, NobodyStarts

LEMMA ApprovedReview ==
  ASSUME TypeOK, NEW h \in Handler, ReviewStep(h)
  PROVE  SessionsMoveOn /\ NobodyStarts
  <1>b. h \in Actor /\ (pc[h] # "idle" => cur[h] \in Session)
    BY DEF Actor, TypeOK, LocalsOK
  <1>1. NobodyStarts
    BY <1>b, ReturnStartsNothing
    DEF ReviewStep, ApproveNow, ApproveAt, Reject, Delete, Add, Remove, EditText,
        EditGap, WriteStale, Finish
  <1>2. CASE ApproveNow(h)
    <2>1. SessionsMoveOn
      BY <1>2 DEF ApproveNow, SessionsMoveOn, TypeOK, RowsOK, SessionRow
    <2> QED BY <1>1, <2>1
  <1>3. ASSUME NEW start \in Start, ApproveAt(h, start)
        PROVE  SessionsMoveOn /\ NobodyStarts
    <2>1. SessionsMoveOn
      BY <1>3 DEF ApproveAt, SessionsMoveOn, TypeOK, RowsOK, SessionRow
    <2> QED BY <1>1, <2>1
  <1>4. CASE Reject(h) \/ Delete(h)
    <2>1. cur[h] \in Session
      BY <1>b, <1>4 DEF Reject, Delete, Finish
    <2> QED BY <1>1, <1>4, <2>1, StatusMovesOn DEF Reject, Delete
  <1>5. CASE sess' = sess
    BY <1>1, <1>5, SameSessions
  <1> QED BY <1>2, <1>3, <1>4, <1>5
          DEF ReviewStep, Add, Remove, EditText, EditGap, WriteStale, dbVars

\* A send-now request starts after it has read "approved".
LEMMA ApprovedBegin ==
  ASSUME TypeOK, TypeOK', ApprovedInv, NEW h \in Handler, HandlerBegin(h)
  PROVE  ApprovedInv'
  <1>b. h \in Actor
    BY DEF Actor
  <1>1. CASE ReviewBegin(h)
    <2>1. ASSUME NEW op \in ReviewPC, NEW s, NEW m, Begin(h, op, s, m)
          PROVE  NobodyStarts /\ sess' = sess
      BY <1>b, <2>1
      DEF Begin, dbVars, NobodyStarts, TypeOK, LocalsOK, ReviewPC, SendNowPC, WorkerPC
    <2>2. NobodyStarts /\ sess' = sess
      BY <1>1, <2>1 DEF ReviewBegin, BeginApprove, BeginReject, BeginDelete, BeginAdd,
                        BeginRemove, BeginEdit, ReviewPC
    <2> QED BY <2>2, SameSessions, SessionsOrNobody
  <1>2. ASSUME NEW s \in Session, BeginSendNow(h, s) PROVE ApprovedInv'
    <2>1. /\ sess' = sess /\ todo' = todo /\ sess[s].approved
          /\ cur'[h] = s /\ \A a \in Actor \ {h} : cur'[a] = cur[a] /\ pc'[a] = pc[a]
      BY <1>b, <1>2 DEF BeginSendNow, ApprovedInv, TypeOK, LocalsOK, dbVars
    <2> QED BY <2>1 DEF ApprovedInv
  <1> QED BY <1>1, <1>2 DEF HandlerBegin, SendNowBegin

LEMMA ApprovedSending ==
  ASSUME TypeOK, NEW a \in Actor,
         \/ a \in Handler /\ SendNowStep(a)
         \/ a \in Worker /\ WorkerStep(a) /\ ~ Poll(a) /\ \A s \in Session : ~ Claim(a, s)
  PROVE  SessionsMoveOn /\ NobodyStarts
  <1>a. pc[a] # "idle" => cur[a] \in Session
    BY DEF TypeOK, LocalsOK
  <1> USE DEF SendNowPC, WorkerPC
  <1>1. CASE Deliver(a, TRUE) \/ Deliver(a, FALSE)
    BY <1>1, SameSessions, GotoStartsNothing DEF Deliver, dbVars
  <1>2. CASE OpenClients(a, "abort") \/ OpenClients(a, "fail")
    BY <1>2, SameSessions, GotoStartsNothing DEF OpenClients, Goto, dbVars
  <1>3. CASE CommitResult(a) \/ Raise(a, "abort") \/ Raise(a, "fail")
    BY <1>3, SameSessions, GotoStartsNothing DEF CommitResult, Raise, Goto, dbVars
  <1>4. CASE CommitStale(a) \/ NowStale(a) \/ WorkerStale(a)
    BY <1>4, SameSessions, ReturnStartsNothing
    DEF CommitStale, NowStale, WorkerStale, dbVars
  <1>5. CASE MarkSending(a) \/ LoadSession(a)
    BY <1>a, <1>5, StatusMovesOn, GotoStartsNothing DEF MarkSending, LoadSession, Goto
  <1>6. CASE CloseNow(a) \/ AbortNow(a)
    BY <1>a, <1>6, StatusMovesOn, ReturnStartsNothing DEF CloseNow, AbortNow
  <1>7. CASE EndBatch(a) \/ MarkClaimedFailed(a)
    BY <1>7, SameSessions, GotoStartsNothing DEF EndBatch, MarkClaimedFailed, Goto, dbVars
  <1>8. CASE FinalizeIfComplete(a)
    <2>1. sess' = sess \/ SetStatus(cur[a], Verdict(cur[a]))
      BY <1>8 DEF FinalizeIfComplete
    <2>2. cur[a] \in Session /\ Verdict(cur[a]) # "approved"
      BY <1>a, <1>8 DEF FinalizeIfComplete, Verdict
    <2>3. SessionsMoveOn
      BY <2>1, <2>2, SameSessions, StatusMovesOn
    <2> QED BY <1>8, <2>3, ReturnStartsNothing DEF FinalizeIfComplete
  <1> QED BY <1>1, <1>2, <1>3, <1>4, <1>5, <1>6, <1>7, <1>8 DEF SendNowStep, WorkerStep

LEMMA ApprovedInit == Init => ApprovedInv
  BY DEF Init, RowsInit, ApprovedInv, SendNowPC, WorkerPC

LEMMA ApprovedNext == TypeOK /\ TypeOK' /\ ApprovedInv /\ [Next]_vars => ApprovedInv'
  <1> SUFFICES ASSUME TypeOK, TypeOK', ApprovedInv, [Next]_vars PROVE ApprovedInv'
    OBVIOUS
  <1>1. CASE Generate
    <2>1. PICK s \in Session : SetStatus(s, "pending")
      BY <1>1 DEF Generate, CreateSession
    <2>2. NobodyStarts
      BY <1>1 DEF Generate, CreateSession, localVars, NobodyStarts
    <2> QED BY <2>1, <2>2, StatusMovesOn, SessionsOrNobody
  <1>2. ASSUME NEW h \in Handler, HandlerBegin(h) \/ HandlerStep(h) PROVE ApprovedInv'
    BY <1>2, ApprovedBegin, ApprovedReview, ApprovedSending, SessionsOrNobody
    DEF HandlerStep, Actor
  <1>3. ASSUME NEW w \in Worker, WorkerStep(w) PROVE ApprovedInv'
    <2>1. CASE Poll(w)
      BY <2>1 DEF Poll, DueSessions, ApprovedInv, TypeOK, LocalsOK, dbVars
    <2>2. ASSUME NEW s \in Session, Claim(w, s) PROVE ApprovedInv'
      <3>1. /\ w \in Actor /\ sess' = sess /\ sess[s].approved
            /\ \A v \in Worker : todo'[v] \subseteq todo[v]
            /\ cur'[w] = s /\ \A a \in Actor \ {w} : cur'[a] = cur[a] /\ pc'[a] = pc[a]
        BY <2>2 DEF Claim, ApprovedInv, TypeOK, LocalsOK, Actor
      <3> QED BY <3>1 DEF ApprovedInv
    <2>3. CASE ~ Poll(w) /\ \A s \in Session : ~ Claim(w, s)
      BY <1>3, <2>3, ApprovedSending, SessionsOrNobody DEF Actor
    <2> QED BY <2>1, <2>2, <2>3
  <1>4. ASSUME NEW a \in Actor, DatabaseError(a) PROVE ApprovedInv'
    BY <1>4, SameSessions, ReturnStartsNothing, SessionsOrNobody DEF DatabaseError, dbVars
  <1>5. CASE Tick \/ UNCHANGED vars
    BY <1>5 DEF Tick, vars, dbVars, localVars, ApprovedInv
  <1>6. CASE Crash
    BY <1>6 DEF Crash, dbVars, ApprovedInv, SendNowPC, WorkerPC
  <1> QED BY <1>1, <1>2, <1>3, <1>4, <1>5, <1>6 DEF Next

\* Only Deliver adds to a conversation.
LEMMA OnlyDeliverSpeaks ==
  ASSUME TypeOK, Next, NEW s \in Session, chat'[s] # chat[s]
  PROVE  \E a \in Actor : pc[a] = "loop" /\ s = cur[a]
  <1>1. ASSUME NEW a \in Actor, NEW ticketed \in BOOLEAN, Deliver(a, ticketed)
        PROVE  pc[a] = "loop" /\ s = cur[a]
    BY <1>1, DeliverEffect DEF Deliver, TypeOK, WorldOK
  <1>2. CASE \E a \in Actor, ticketed \in BOOLEAN : Deliver(a, ticketed)
    BY <1>1, <1>2
  <1>3. CASE ~ \E a \in Actor, ticketed \in BOOLEAN : Deliver(a, ticketed)
    <2>1. ASSUME NEW h \in Handler, HandlerBegin(h) \/ HandlerStep(h) PROVE chat' = chat
      BY <1>3, <2>1, BeginMovesOn, ReviewMovesOn, SendNowMovesOn DEF HandlerStep, Actor
    <2>2. ASSUME NEW w \in Worker, WorkerStep(w) PROVE chat' = chat
      <3>1. CASE \E t \in Session : Claim(w, t)
        BY <3>1 DEF Claim, worldVars
      <3>2. CASE ~ \E t \in Session : Claim(w, t)
        BY <1>3, <2>2, <3>2, WorkerMovesOn DEF Actor
      <3> QED BY <3>1, <3>2
    <2>3. CASE Generate \/ Tick \/ Crash \/ \E a \in Actor : DatabaseError(a)
      BY <2>3 DEF Generate, CreateSession, Tick, Crash, DatabaseError, worldVars
    <2> QED BY <2>1, <2>2, <2>3 DEF Next
  <1> QED BY <1>2, <1>3

\* Nothing leaves for a session no reviewer has ever approved, even when
\* approvals, rejections, deletions and both ways of sending interleave.
THEOREM SendsApprovedOnly == Spec => ApprovedFirst
  <1>1. Init => TypeOK /\ ApprovedInv
    BY TypeInit, ApprovedInit
  <1>2. TypeOK /\ ApprovedInv /\ [Next]_vars => (TypeOK /\ ApprovedInv)'
    BY TypeNext, ApprovedNext
  <1>3. TypeOK /\ ApprovedInv /\ [Next]_vars
          => [\A s \in Session : chat'[s] # chat[s] => sess[s].approved]_vars
    BY OnlyDeliverSpeaks DEF ApprovedInv, SendNowPC
  <1> QED BY <1>1, <1>2, <1>3, PTL DEF Spec, ApprovedFirst

-----------------------------------------------------------------------------
(* SentWasHeard                                                            *)
(*                                                                         *)
(* The commit after _deliver_message writes what the call returned some    *)
(* steps before, to a row found by its id alone.  So the invariant follows *)
(* the row as well as the answer: a row that exists never changes its      *)
(* session (ReadRows), the id of a row about to be inserted is nobody      *)
(* else's (Reserved), and an answer not yet committed is of a row of the   *)
(* actor's session (Answered).                                             *)

\* The id of an insert is not taken, and that of a removal was, by a row of
\* the session.
Reserved ==
  \A h \in Handler :
    /\ pc[h] = "add" => /\ msg[mid[h]].status = "unused"
                        /\ \A g \in Handler : pc[g] = "add" /\ g # h => mid[g] # mid[h]
    /\ pc[h] = "remove" => msg[mid[h]].status # "unused" /\ msg[mid[h]].sid = cur[h]

\* What an actor has read is of its session, whatever became of the row.
ReadRows ==
  \A a \in Actor : \A m \in DOMAIN snap[a] :
    pc[a] # "idle" /\ msg[m].status # "unused" /\ msg[m].sid = cur[a]

\* A success not committed yet was heard in the session.
Answered ==
  \A a \in Actor : pc[a] = "commit" =>
    mid[a] \in DOMAIN snap[a] /\ (result[a] = "sent" => mid[a] \in Heard(cur[a]))

HeardInv == Reserved /\ ReadRows /\ Answered /\ SentWasHeard

-----------------------------------------------------------------------------
(* Steps that read nothing and deliver nothing *)

\* A row stays a row, of the same session, and what is recorded as sent was
\* heard.
RowsKeepSession ==
  \A m \in Message :
    /\ msg[m].status # "unused" => msg'[m].status # "unused" /\ msg'[m].sid = msg[m].sid
    /\ msg'[m].status = "sent" => msg[m].status = "sent" \/ (Exists(m) /\ m \in Heard(msg[m].sid))

\* No id that is reserved gets a row.
ReservedStay ==
  \A h \in Handler : pc[h] = "add" /\ pc'[h] = "add" => msg'[mid[h]].status = msg[mid[h]].status

\* Actors forget what they have read, or keep it for the same session.
LocalsFade ==
  \A a \in Actor :
    /\ \A m \in DOMAIN snap'[a] : m \in DOMAIN snap[a] /\ pc'[a] # "idle" /\ cur'[a] = cur[a]
    /\ pc'[a] = "commit" => /\ pc[a] = "commit" /\ mid'[a] = mid[a] /\ result'[a] = result[a]
                            /\ snap'[a] = snap[a] /\ cur'[a] = cur[a]
    /\ pc'[a] \in {"add", "remove"} => pc'[a] = pc[a] /\ mid'[a] = mid[a] /\ cur'[a] = cur[a]

LEMMA NothingHeardLost ==
  ASSUME chat' = chat
  PROVE  \A s \in Session : Heard(s)' = Heard(s)
  BY DEF Heard

LEMMA SessionOfRow ==
  ASSUME TypeOK, NEW m \in Message, Exists(m)
  PROVE  msg[m].sid \in Session /\ msg[m].status # "unused"
  BY DEF TypeOK, RowsOK, Exists

LEMMA ActorTyped ==
  ASSUME TypeOK, NEW a \in Actor
  PROVE  /\ DOMAIN snap = Actor /\ DOMAIN snap[a] \subseteq Message
         /\ pc[a] # "idle" => cur[a] \in Session
         /\ pc[a] \in {"commit", "add", "remove", "edit"} => mid[a] \in Message
         /\ left[a] \subseteq DOMAIN snap[a]
         /\ a \in Handler => a \notin Worker
  BY SessionRowsAssumption DEF TypeOK, LocalsOK

LEMMA FadingStep ==
  ASSUME TypeOK, TypeOK', HeardInv, RowsKeepSession, ReservedStay, LocalsFade, chat' = chat
  PROVE  HeardInv'
  <1>1. Reserved'
    <2>1. ASSUME NEW h \in Handler, pc'[h] \in {"add", "remove"}
          PROVE  /\ pc'[h] = pc[h] /\ mid'[h] = mid[h] /\ cur'[h] = cur[h]
                 /\ mid[h] \in Message
      BY <2>1, ActorTyped DEF LocalsFade, Actor
    <2>2. ASSUME NEW h \in Handler, pc'[h] = "add" PROVE msg'[mid[h]].status = "unused"
      BY <2>1, <2>2 DEF HeardInv, Reserved, ReservedStay
    <2>3. ASSUME NEW h \in Handler, pc'[h] = "remove"
          PROVE  msg'[mid[h]].status # "unused" /\ msg'[mid[h]].sid = cur[h]
      BY <2>1, <2>3 DEF HeardInv, Reserved, RowsKeepSession
    <2> QED BY <2>1, <2>2, <2>3 DEF HeardInv, Reserved
  <1>2. ReadRows'
    <2> SUFFICES ASSUME NEW a \in Actor, NEW m \in DOMAIN snap'[a]
                 PROVE  pc'[a] # "idle" /\ msg'[m].status # "unused" /\ msg'[m].sid = cur'[a]
      BY DEF ReadRows
    <2>1. m \in DOMAIN snap[a] /\ pc'[a] # "idle" /\ cur'[a] = cur[a] /\ m \in Message
      BY ActorTyped DEF LocalsFade
    <2> QED BY <2>1 DEF HeardInv, ReadRows, RowsKeepSession
  <1>3. Answered'
    <2> SUFFICES ASSUME NEW a \in Actor, pc'[a] = "commit"
                 PROVE  /\ mid'[a] \in DOMAIN snap'[a]
                        /\ result'[a] = "sent" => mid'[a] \in Heard(cur[a])'
      BY DEF Answered
    <2>1. /\ pc[a] = "commit" /\ mid'[a] = mid[a] /\ result'[a] = result[a]
          /\ snap'[a] = snap[a] /\ cur'[a] = cur[a]
      BY DEF LocalsFade
    <2>2. mid[a] \in DOMAIN snap[a] /\ (result[a] = "sent" => mid[a] \in Heard(cur[a]))
      BY <2>1 DEF HeardInv, Answered
    <2> QED BY <2>1, <2>2 DEF Heard
  <1>4. SentWasHeard'
    <2> SUFFICES ASSUME NEW m \in Message, Exists(m)', msg'[m].status = "sent"
                 PROVE  m \in Heard(msg[m].sid)' /\ msg'[m].sid = msg[m].sid
      BY DEF SentWasHeard
    <2>1. Exists(m) /\ msg'[m].sid = msg[m].sid
      BY DEF RowsKeepSession, Exists
    <2>2. m \in Heard(msg[m].sid)
      BY <2>1 DEF RowsKeepSession, HeardInv, SentWasHeard
    <2> QED BY <2>1, <2>2 DEF Heard
  <1> QED BY <1>1, <1>2, <1>3, <1>4 DEF HeardInv

-----------------------------------------------------------------------------
(* The locals *)

\* A coroutine that returns forgets everything.
LEMMA ReturnFades ==
  ASSUME TypeOK, HeardInv, NEW a \in Actor, Return(a)
  PROVE  LocalsFade /\ pc'[a] = "idle"
  <1>1. pc'[a] = "idle" /\ DOMAIN snap'[a] = {}
    BY DEF Return, TypeOK, LocalsOK, NoCopies
  <1>2. ASSUME NEW b \in Actor, b # a
        PROVE  /\ pc'[b] = pc[b] /\ cur'[b] = cur[b] /\ mid'[b] = mid[b]
               /\ snap'[b] = snap[b] /\ result'[b] = result[b]
    BY <1>2 DEF Return, TypeOK, LocalsOK
  <1> QED BY <1>1, <1>2 DEF LocalsFade, HeardInv, ReadRows

\* One that goes on keeps what it has read.
LEMMA GoingFades ==
  ASSUME TypeOK, HeardInv, NEW a \in Actor, NEW to, to \notin {"idle", "commit", "add", "remove"},
         pc' = [pc EXCEPT ![a] = to], cur' = cur, snap' = snap, result' = result,
         mid' = mid \/ \E m : mid' = [mid EXCEPT ![a] = m]
  PROVE  LocalsFade
  <1>1. pc'[a] = to
    BY DEF TypeOK, LocalsOK
  <1>2. ASSUME NEW b \in Actor, b # a
        PROVE  pc'[b] = pc[b] /\ mid'[b] = mid[b]
    BY <1>2 DEF TypeOK, LocalsOK
  <1> QED BY <1>1, <1>2 DEF LocalsFade, HeardInv, ReadRows

\* One that begins has read nothing yet.
LEMMA BeginningFades ==
  ASSUME TypeOK, HeardInv, NEW a \in Actor, pc[a] = "idle",
         NEW to, to \notin {"idle", "commit", "add", "remove"}, NEW s, NEW m,
         pc' = [pc EXCEPT ![a] = to], cur' = [cur EXCEPT ![a] = s],
         mid' = [mid EXCEPT ![a] = m], snap' = snap, result' = result
  PROVE  LocalsFade
  <1>1. pc'[a] = to /\ DOMAIN snap'[a] = {}
    BY DEF TypeOK, LocalsOK, HeardInv, ReadRows
  <1>2. ASSUME NEW b \in Actor, b # a
        PROVE  pc'[b] = pc[b] /\ mid'[b] = mid[b] /\ cur'[b] = cur[b]
    BY <1>2 DEF TypeOK, LocalsOK
  <1> QED BY <1>1, <1>2 DEF LocalsFade, HeardInv, ReadRows

LEMMA SameLocalsFade ==
  ASSUME TypeOK, HeardInv, UNCHANGED <<pc, cur, mid, snap, result>>
  PROVE  LocalsFade
  BY DEF LocalsFade, HeardInv, ReadRows

-----------------------------------------------------------------------------
(* The rows *)

\* Whatever a step does to a row that is not recorded as sent by it: nothing,
\* a change of an existing row, or an insert of an id nobody has reserved.
RowsGentle ==
  \A m \in Message :
    \/ msg'[m].status = msg[m].status /\ msg'[m].sid = msg[m].sid
    \/ /\ msg[m].status # "unused" /\ msg'[m].status \notin {"unused", "sent"}
       /\ msg'[m].sid = msg[m].sid
    \/ /\ msg[m].status = "unused" /\ msg'[m].status = "queued"
       /\ \A h \in Handler : pc[h] = "add" /\ pc'[h] = "add" => mid[h] # m

LEMMA GentleRows ==
  ASSUME TypeOK, HeardInv, RowsGentle
  PROVE  RowsKeepSession /\ ReservedStay
  <1>1. RowsKeepSession
    BY DEF RowsGentle, RowsKeepSession
  <1>2. ReservedStay
    <2> SUFFICES ASSUME NEW h \in Handler, pc[h] = "add", pc'[h] = "add"
                 PROVE  msg'[mid[h]].status = msg[mid[h]].status
      BY DEF ReservedStay
    <2>1. mid[h] \in Message /\ msg[mid[h]].status = "unused"
      BY ActorTyped DEF HeardInv, Reserved, Actor
    <2> QED BY <2>1 DEF RowsGentle
  <1> QED BY <1>1, <1>2

LEMMA SameRowsGentle ==
  ASSUME msg' = msg
  PROVE  RowsGentle
  BY DEF RowsGentle

\* The columns a step may change without touching status or session.
LEMMA Columns ==
  ASSUME NEW x \in MessageRow, NEW v
  PROVE  /\ [x EXCEPT !.state = v].status = x.status /\ [x EXCEPT !.state = v].sid = x.sid
         /\ [x EXCEPT !.body = v].status = x.status /\ [x EXCEPT !.body = v].sid = x.sid
         /\ [x EXCEPT !.gap = v].status = x.status /\ [x EXCEPT !.gap = v].sid = x.sid
         /\ [x EXCEPT !.status = v].status = v /\ [x EXCEPT !.status = v].sid = x.sid
         /\ Recorded(x, v).status = v /\ Recorded(x, v).sid = x.sid
  BY DEF MessageRow, Recorded

LEMMA RowsTyped == TypeOK => msg \in [Message -> MessageRow]
  BY DEF TypeOK, RowsOK

LEMMA RowsOfAreRows ==
  ASSUME NEW s, NEW m \in RowsOf(s)
  PROVE  m \in Message /\ msg[m].status # "unused" /\ msg[m].sid = s
  BY DEF RowsOf, Exists

LEMMA GentleReview ==
  ASSUME TypeOK, HeardInv, NEW h \in Handler, ReviewStep(h)
  PROVE  RowsGentle
  <1>a. msg \in [Message -> MessageRow]
    BY RowsTyped
  <1>b. pc[h] \in {"add", "remove", "edit"} => mid[h] \in Message
    BY ActorTyped DEF Actor
  <1>1. CASE msg' = msg
    BY <1>1, SameRowsGentle
  <1>2. ASSUME NEW start \in Start, ApproveAt(h, start) PROVE RowsGentle
    <2>1. PICK at \in Schedules(RowsOf(cur[h]), start) :
            msg' = [m \in Message |->
                      IF m \in DOMAIN at
                      THEN [msg[m] EXCEPT !.at = at[m], !.state = "pending",
                                          !.ticket = @ + 1]
                      ELSE msg[m]]
      BY <1>2 DEF ApproveAt
    <2>2. ASSUME NEW m \in Message
          PROVE  msg'[m].status = msg[m].status /\ msg'[m].sid = msg[m].sid
      <3>1. CASE m \in DOMAIN at
        <4>1. msg'[m] = [msg[m] EXCEPT !.at = at[m], !.state = "pending", !.ticket = @ + 1]
          BY <2>1, <3>1
        <4> QED BY <1>a, <4>1 DEF MessageRow
      <3>2. CASE m \notin DOMAIN at
        BY <2>1, <3>2
      <3> QED BY <3>1, <3>2
    <2> QED BY <2>2 DEF RowsGentle
  <1>3. CASE Delete(h)
    <2> DEFINE gone == RowsOf(cur[h])
    <2>1. msg' = [m \in Message |-> IF m \in gone THEN [msg[m] EXCEPT !.status = "deleted"]
                                                  ELSE msg[m]]
      BY <1>3 DEF Delete
    <2>2. \A m \in gone : msg[m].status # "unused"
      BY RowsOfAreRows
    <2> HIDE DEF gone
    <2> QED BY <1>a, <2>1, <2>2, Columns DEF RowsGentle
  <1>4. ASSUME NEW pos \in 0 .. Cardinality(Message), NEW gap \in Gap, Add(h, pos, gap)
        PROVE  RowsGentle
    <2> DEFINE shifted == {n \in DOMAIN snap[h] \ {mid[h]} : snap[h][n].order >= pos}
    <2>1. msg' = [n \in Message |->
                    CASE n = mid[h] -> [msg[n] EXCEPT !.sid = cur[h], !.order = pos,
                                                       !.gap = gap, !.status = "queued"]
                      [] n \in shifted -> [msg[n] EXCEPT !.order = snap[h][n].order + 1]
                      [] OTHER -> msg[n]]
      BY <1>4 DEF Add
    <2>2. pc[h] = "add"
      BY <1>4 DEF Add, Finish
    <2>3. /\ msg[mid[h]].status = "unused" /\ mid[h] \in Message
          /\ \A g \in Handler : pc[g] = "add" /\ g # h => mid[g] # mid[h]
      BY <1>b, <2>2 DEF HeardInv, Reserved
    <2>4. pc'[h] # "add"
      BY <1>4, ReturnFades DEF Add, Finish, Actor
    <2>5. msg'[mid[h]].status = "queued"
      <3>1. PICK n \in Message : n = mid[h]
        BY <2>3
      <3>2. msg'[n] = [msg[n] EXCEPT !.sid = cur[h], !.order = pos,
                                     !.gap = gap, !.status = "queued"]
        BY <2>1, <3>1
      <3> QED BY <1>a, <3>1, <3>2 DEF MessageRow
    <2> HIDE DEF shifted
    <2>6. ASSUME NEW n \in Message, n # mid[h]
          PROVE  msg'[n].status = msg[n].status /\ msg'[n].sid = msg[n].sid
      <3>1. msg'[n] = [msg[n] EXCEPT !.order = snap[h][n].order + 1] \/ msg'[n] = msg[n]
        BY <2>1, <2>6
      <3>2. msg[n] \in MessageRow
        BY <1>a
      <3> QED BY <3>1, <3>2 DEF MessageRow
    <2> QED BY <2>3, <2>4, <2>5, <2>6 DEF RowsGentle
  <1>5. CASE Remove(h)
    <2> DEFINE rest == RowsOf(cur[h]) \ {mid[h]}
    <2>1. PICK r \in Rankings(rest) :
            msg' = [n \in Message |->
                      CASE n = mid[h] -> [msg[n] EXCEPT !.status = "deleted"]
                        [] n \in rest -> [msg[n] EXCEPT !.order = r[n]]
                        [] OTHER -> msg[n]]
      BY <1>5 DEF Remove
    <2>2. msg[mid[h]].status # "unused"
      BY <1>5 DEF Remove, Finish, HeardInv, Reserved
    <2> HIDE DEF rest
    <2>3. ASSUME NEW n \in Message
          PROVE  \/ n = mid[h] /\ msg'[n] = [msg[n] EXCEPT !.status = "deleted"]
                 \/ msg'[n] = [msg[n] EXCEPT !.order = r[n]] \/ msg'[n] = msg[n]
      BY <2>1
    <2>4. ASSUME NEW n \in Message
          PROVE  /\ msg'[n].sid = msg[n].sid
                 /\ \/ n = mid[h] /\ msg'[n].status = "deleted"
                    \/ msg'[n].status = msg[n].status
      <3>1. msg[n] \in MessageRow
        BY <1>a
      <3> QED BY <2>3, <3>1 DEF MessageRow
    <2> QED BY <2>2, <2>4 DEF RowsGentle
  <1>6. CASE EditText(h)
    <2>1. /\ mid[h] \in Message
          /\ msg' = [msg EXCEPT ![mid[h]] = [@ EXCEPT !.body = msg[mid[h]].body + 1]]
      BY <1>a, <1>b, <1>6 DEF EditText, Finish
    <2> QED BY <1>a, <2>1, Columns DEF RowsGentle
  <1>7. ASSUME NEW gap \in Gap, EditGap(h, gap) PROVE RowsGentle
    <2>1. mid[h] \in Message /\ msg' = [msg EXCEPT ![mid[h]] = [@ EXCEPT !.gap = gap]]
      BY <1>b, <1>7 DEF EditGap, Finish
    <2> QED BY <1>a, <2>1, Columns DEF RowsGentle
  <1> QED BY <1>1, <1>2, <1>3, <1>4, <1>5, <1>6, <1>7
          DEF ReviewStep, ApproveNow, Reject, WriteStale, dbVars

-----------------------------------------------------------------------------
(* The steps *)

LEMMA HeardReview ==
  ASSUME TypeOK, TypeOK', HeardInv, NEW h \in Handler, ReviewStep(h)
  PROVE  HeardInv'
  <1>1. \E op : Finish(h, op) \/ Return(h)
    BY DEF ReviewStep, ApproveNow, ApproveAt, Reject, Delete, Add, Remove, EditText,
           EditGap, WriteStale
  <1>2. LocalsFade
    BY <1>1, ReturnFades DEF Finish, Actor
  <1>3. chat' = chat
    BY ReviewMovesOn
  <1> QED BY <1>2, <1>3, GentleReview, GentleRows, FadingStep

\* The id of a new message is reserved, and its session's rows are read.
LEMMA HeardBeginAdd ==
  ASSUME TypeOK, TypeOK', HeardInv, NEW h \in Handler, NEW s \in Session, NEW m \in Message,
         BeginAdd(h, s, m)
  PROVE  HeardInv'
  <1>1. /\ h \in Actor /\ pc'[h] = "add" /\ mid'[h] = m /\ cur'[h] = s
        /\ snap'[h] = Restrict(msg, RowsOf(s))
        /\ UNCHANGED <<msg, chat, result>>
        /\ \A b \in Actor \ {h} : /\ pc'[b] = pc[b] /\ cur'[b] = cur[b] /\ mid'[b] = mid[b]
                                  /\ snap'[b] = snap[b]
    BY DEF BeginAdd, Begin, TypeOK, LocalsOK, Actor, dbVars, worldVars
  <1>2. Reserved'
    BY <1>1 DEF BeginAdd, Fresh, HeardInv, Reserved, Actor
  <1>3. ReadRows'
    <2>1. \A n \in DOMAIN snap'[h] : msg[n].status # "unused" /\ msg[n].sid = s
      BY <1>1, RowsOfAreRows DEF Restrict
    <2> QED BY <1>1, <2>1 DEF HeardInv, ReadRows
  <1>4. Answered'
    BY <1>1 DEF HeardInv, Answered, Heard
  <1>5. SentWasHeard'
    BY <1>1 DEF HeardInv, SentWasHeard, Heard, Exists
  <1> QED BY <1>2, <1>3, <1>4, <1>5 DEF HeardInv

LEMMA HeardBeginRemove ==
  ASSUME TypeOK, TypeOK', HeardInv, NEW h \in Handler, NEW m \in Message, BeginRemove(h, m)
  PROVE  HeardInv'
  <1>1. /\ h \in Actor /\ pc'[h] = "remove" /\ mid'[h] = m /\ msg[m].status # "unused"
        /\ cur'[h] = msg[m].sid
        /\ DOMAIN snap'[h] = {}
        /\ UNCHANGED <<msg, chat, result, snap>>
        /\ \A b \in Actor \ {h} : /\ pc'[b] = pc[b] /\ cur'[b] = cur[b] /\ mid'[b] = mid[b]
    BY DEF BeginRemove, Begin, TypeOK, LocalsOK, Actor, dbVars, worldVars, Exists,
           HeardInv, ReadRows
  <1>2. Reserved'
    BY <1>1 DEF HeardInv, Reserved, Actor
  <1>3. ReadRows'
    BY <1>1 DEF HeardInv, ReadRows
  <1>4. Answered'
    BY <1>1 DEF HeardInv, Answered, Heard
  <1>5. SentWasHeard'
    BY <1>1 DEF HeardInv, SentWasHeard, Heard, Exists
  <1> QED BY <1>2, <1>3, <1>4, <1>5 DEF HeardInv

\* Both ways of sending read the rows of the session they set out to send.
LEMMA HeardReading ==
  ASSUME TypeOK, TypeOK', HeardInv, NEW a \in Actor, NEW s \in Session, NEW S \in SUBSET RowsOf(s),
         pc'[a] \notin {"idle", "commit", "add", "remove"}, cur' = [cur EXCEPT ![a] = s],
         DOMAIN snap'[a] = S, chat' = chat, UNCHANGED <<mid, result>>,
         \A b \in Actor \ {a} : pc'[b] = pc[b] /\ snap'[b] = snap[b],
         \A m \in Message : msg'[m].status = msg[m].status /\ msg'[m].sid = msg[m].sid
  PROVE  HeardInv'
  <1>1. cur'[a] = s /\ \A b \in Actor \ {a} : cur'[b] = cur[b]
    BY DEF TypeOK, LocalsOK
  <1>2. Reserved'
    <2>1. ASSUME NEW g \in Handler, pc'[g] \in {"add", "remove"}
          PROVE  g \in Actor /\ pc[g] = pc'[g] /\ mid[g] \in Message
      BY <2>1, ActorTyped DEF Actor
    <2> QED BY <2>1 DEF HeardInv, Reserved
  <1>3. ReadRows'
    <2>1. ASSUME NEW n \in S
          PROVE  n \in Message /\ msg[n].status # "unused" /\ msg[n].sid = s
      BY RowsOfAreRows
    <2>2. ASSUME NEW b \in Actor, b # a, NEW n \in DOMAIN snap[b]
          PROVE  n \in Message /\ pc[b] # "idle" /\ msg[n].status # "unused" /\ msg[n].sid = cur[b]
      BY <2>2, ActorTyped DEF HeardInv, ReadRows
    <2> QED BY <1>1, <2>1, <2>2 DEF ReadRows
  <1>4. Answered'
    BY <1>1 DEF HeardInv, Answered, Heard
  <1>5. SentWasHeard'
    BY DEF HeardInv, SentWasHeard, Heard, Exists
  <1> QED BY <1>2, <1>3, <1>4, <1>5 DEF HeardInv

LEMMA HeardBegin ==
  ASSUME TypeOK, TypeOK', HeardInv, NEW h \in Handler, HandlerBegin(h)
  PROVE  HeardInv'
  <1>b. h \in Actor
    BY DEF Actor
  <1>1. ASSUME NEW op, op \in {"approve", "reject", "delete", "edit"}, NEW s, NEW m,
               Begin(h, op, s, m), UNCHANGED snap
        PROVE  HeardInv'
    <2>1. LocalsFade
      BY <1>b, <1>1, BeginningFades DEF Begin
    <2> QED BY <1>1, <2>1, SameRowsGentle, GentleRows, FadingStep DEF Begin, dbVars, worldVars
  <1>2. CASE ReviewBegin(h)
    BY <1>1, <1>2, HeardBeginAdd, HeardBeginRemove
    DEF ReviewBegin, BeginApprove, BeginReject, BeginDelete, BeginEdit
  <1>3. ASSUME NEW s \in Session, BeginSendNow(h, s) PROVE HeardInv'
    <2>1. /\ pc'[h] = "mark" /\ DOMAIN snap'[h] \in SUBSET RowsOf(s)
          /\ cur' = [cur EXCEPT ![h] = s]
          /\ UNCHANGED <<msg, chat, mid, result>>
          /\ \A b \in Actor \ {h} : pc'[b] = pc[b] /\ snap'[b] = snap[b]
      BY <1>b, <1>3 DEF BeginSendNow, TypeOK, LocalsOK, dbVars, worldVars, Restrict
    <2> QED BY <1>b, <2>1, HeardReading
  <1> QED BY <1>2, <1>3 DEF HandlerBegin, SendNowBegin

\* What Deliver leaves behind: an answer about a message of its session, and
\* if it is a success, the message in the conversation.
LEMMA DeliverAnswer ==
  ASSUME TypeOK, NEW a \in Actor, NEW ticketed \in BOOLEAN, Deliver(a, ticketed)
  PROVE  /\ pc'[a] = "commit" /\ mid'[a] \in left[a]
         /\ \A b \in Actor \ {a} : pc'[b] = pc[b] /\ mid'[b] = mid[b] /\ result'[b] = result[b]
         /\ result'[a] = "sent" => \E e \in Entry :
              e.mid = mid'[a] /\ chat' = [chat EXCEPT ![cur[a]] = Append(@, e)]
  <1>1. PICK m \in left[a], accepted \in BOOLEAN, r \in Result :
          /\ accepted \/ r # "sent"
          /\ LET entry == [mid |-> m, body |-> snap[a][m].body,
                           ticket |-> IF ticketed THEN snap[a][m].ticket ELSE 0]
             IN  chat' = IF accepted
                         THEN [chat EXCEPT ![cur[a]] = Append(@, entry)]
                         ELSE chat
          /\ mid' = [mid EXCEPT ![a] = m]
          /\ result' = [result EXCEPT ![a] = r]
    BY DEF Deliver
  <1>2. /\ pc'[a] = "commit" /\ mid'[a] = m /\ result'[a] = r
        /\ \A b \in Actor \ {a} : pc'[b] = pc[b] /\ mid'[b] = mid[b] /\ result'[b] = result[b]
    BY <1>1 DEF Deliver, TypeOK, LocalsOK
  <1>3. m \in Message /\ snap[a][m] \in MessageRow
    BY DEF TypeOK, LocalsOK
  <1> DEFINE entry == [mid |-> m, body |-> snap[a][m].body,
                       ticket |-> IF ticketed THEN snap[a][m].ticket ELSE 0]
  <1>4. entry \in Entry /\ entry.mid = m
    BY <1>3 DEF MessageRow, Entry
  <1>5. r = "sent" => chat' = [chat EXCEPT ![cur[a]] = Append(@, entry)]
    BY <1>1
  <1> HIDE DEF entry
  <1> QED BY <1>2, <1>4, <1>5

\* What was heard stays heard, and a new entry is heard.
LEMMA HeardGrows ==
  ASSUME TypeOK, NEW s \in Session, NEW e \in Entry, chat' = [chat EXCEPT ![s] = Append(@, e)]
  PROVE  (\A t \in Session : Heard(t) \subseteq Heard(t)') /\ e.mid \in Heard(s)'
  <1>1. /\ \A t \in Session \ {s} : chat'[t] = chat[t]
        /\ DOMAIN chat[s] = 1 .. Len(chat[s]) /\ Len(chat[s]) \in Nat
        /\ DOMAIN chat'[s] = 1 .. Len(chat[s]) + 1
        /\ \A i \in DOMAIN chat[s] : chat'[s][i] = chat[s][i]
        /\ chat'[s][Len(chat[s]) + 1] = e
    BY Appended
  <1>2. Heard(s) \subseteq Heard(s)'
    BY <1>1 DEF Heard
  <1>3. e.mid \in Heard(s)'
    <2>1. Len(chat[s]) + 1 \in DOMAIN chat'[s]
      BY <1>1
    <2> QED BY <1>1, <2>1 DEF Heard
  <1>4. ASSUME NEW t \in Session, t # s PROVE Heard(t) \subseteq Heard(t)'
    BY <1>1, <1>4 DEF Heard
  <1> QED BY <1>2, <1>3, <1>4

LEMMA HeardDeliver ==
  ASSUME TypeOK, TypeOK', HeardInv, NEW a \in Actor, NEW ticketed \in BOOLEAN,
         Deliver(a, ticketed)
  PROVE  HeardInv'
  <1>1. msg' = msg /\ snap' = snap /\ cur' = cur /\ cur[a] \in Session
    BY DeliverEffect DEF Deliver
  <1>2. /\ pc'[a] = "commit" /\ mid'[a] \in left[a]
        /\ \A b \in Actor \ {a} : pc'[b] = pc[b] /\ mid'[b] = mid[b] /\ result'[b] = result[b]
        /\ result'[a] = "sent" => \E e \in Entry :
             e.mid = mid'[a] /\ chat' = [chat EXCEPT ![cur[a]] = Append(@, e)]
    BY DeliverAnswer
  <1>3. \A t \in Session : Heard(t) \subseteq Heard(t)'
    <2>1. chat' = chat \/ \E e \in Entry : chat' = [chat EXCEPT ![cur[a]] = Append(@, e)]
      BY DeliverEffect
    <2>2. CASE chat' = chat
      BY <2>2 DEF Heard
    <2> QED BY <1>1, <2>1, <2>2, HeardGrows
  <1>4. result'[a] = "sent" => mid'[a] \in Heard(cur[a])'
    <2>1. ASSUME NEW e \in Entry, chat' = [chat EXCEPT ![cur[a]] = Append(@, e)]
          PROVE  \A t \in Session : t = cur[a] => e.mid \in Heard(t)'
      BY <1>1, <2>1, HeardGrows
    <2> QED BY <1>1, <1>2, <2>1
  <1>5. Reserved'
    BY <1>1, <1>2 DEF HeardInv, Reserved, Actor
  <1>6. ReadRows'
    BY <1>1, <1>2 DEF HeardInv, ReadRows
  <1>7. Answered'
    <2> SUFFICES ASSUME NEW b \in Actor, pc'[b] = "commit"
                 PROVE  /\ mid'[b] \in DOMAIN snap[b]
                        /\ result'[b] = "sent" => mid'[b] \in Heard(cur[b])'
      BY <1>1 DEF Answered
    <2>1. CASE b = a
      BY <1>1, <1>2, <1>4, <2>1, ActorTyped
    <2>2. CASE b # a
      <3>1. pc[b] = "commit" /\ mid'[b] = mid[b] /\ result'[b] = result[b] /\ cur[b] \in Session
        BY <1>2, <2>2, ActorTyped
      <3>2. mid[b] \in DOMAIN snap[b] /\ (result[b] = "sent" => mid[b] \in Heard(cur[b]))
        BY <3>1 DEF HeardInv, Answered
      <3> QED BY <1>1, <1>3, <3>1, <3>2
    <2> QED BY <2>1, <2>2
  <1>8. SentWasHeard'
    <2> SUFFICES ASSUME NEW m \in Message, Exists(m), msg[m].status = "sent"
                 PROVE  m \in Heard(msg[m].sid)'
      BY <1>1 DEF SentWasHeard, Exists
    <2>1. m \in Heard(msg[m].sid) /\ msg[m].sid \in Session
      BY SessionOfRow DEF HeardInv, SentWasHeard
    <2> QED BY <1>1, <1>3, <2>1
  <1> QED BY <1>5, <1>6, <1>7, <1>8 DEF HeardInv

\* The answer is written to a row of the session it was heard in.
LEMMA HeardCommitResult ==
  ASSUME TypeOK, TypeOK', HeardInv, NEW a \in Actor, CommitResult(a)
  PROVE  HeardInv'
  <1>1. /\ pc[a] = "commit" /\ pc' = [pc EXCEPT ![a] = "loop"]
        /\ result[a] \in {"sent", "failed"} /\ Exists(mid[a])
        /\ mid' = [mid EXCEPT ![a] = None]
        /\ UNCHANGED <<chat, cur, snap, result>>
    BY DEF CommitResult, Goto, TerminalState, worldVars
  <1>2. LocalsFade
    BY <1>1, GoingFades
  <1>3. /\ mid[a] \in Message /\ msg[mid[a]].status # "unused" /\ msg[mid[a]].sid = cur[a]
        /\ result[a] = "sent" => mid[a] \in Heard(cur[a])
    BY <1>1, ActorTyped DEF HeardInv, Answered, ReadRows
  <1>4. /\ \A m \in Message \ {mid[a]} : msg'[m] = msg[m]
        /\ msg'[mid[a]].status = result[a] /\ msg'[mid[a]].sid = cur[a]
    <2>1. msg' = [msg EXCEPT ![mid[a]] = Recorded(@, result[a])] /\ msg[mid[a]] \in MessageRow
      BY <1>3, RowsTyped DEF CommitResult
    <2>2. msg'[mid[a]] = Recorded(msg[mid[a]], result[a])
      BY <1>3, <2>1, RowsTyped
    <2> QED BY <1>3, <2>1, <2>2, Columns, RowsTyped
  <1>5. RowsKeepSession
    BY <1>1, <1>3, <1>4 DEF RowsKeepSession
  <1>6. ReservedStay
    <2>1. ASSUME NEW h \in Handler, pc[h] = "add" PROVE mid[h] \in Message \ {mid[a]}
      BY <1>3, <2>1, ActorTyped DEF HeardInv, Reserved, Actor
    <2> QED BY <1>4, <2>1 DEF ReservedStay
  <1> QED BY <1>1, <1>2, <1>5, <1>6, FadingStep

LEMMA HeardSending ==
  ASSUME TypeOK, TypeOK', HeardInv, NEW a \in Actor,
         \/ a \in Handler /\ SendNowStep(a)
         \/ a \in Worker /\ WorkerStep(a) /\ \A s \in Session : ~ Claim(a, s),
         ~ Deliver(a, TRUE), ~ Deliver(a, FALSE), ~ CommitResult(a)
  PROVE  HeardInv'
  <1>1. chat' = chat
    BY SendNowMovesOn, WorkerMovesOn
  <1>2. RowsGentle
    <2>1. CASE MarkClaimedFailed(a)
      <3>1. /\ msg' = [m \in Message |-> IF m \in DOMAIN snap[a]
                                         THEN Recorded(msg[m], "failed") ELSE msg[m]]
            /\ \A m \in DOMAIN snap[a] : msg[m].status # "unused"
        BY <2>1 DEF MarkClaimedFailed, Exists
      <3> QED BY <3>1, RowsTyped, Columns DEF RowsGentle
    <2>2. CASE ~ MarkClaimedFailed(a)
      BY <2>2, SameRowsGentle
      DEF SendNowStep, WorkerStep, MarkSending, OpenClients, Raise, CommitStale, CloseNow,
          AbortNow, NowStale, Poll, LoadSession, EndBatch, FinalizeIfComplete, WorkerStale,
          dbVars
    <2> QED BY <2>1, <2>2
  <1>3. LocalsFade
    <2>1. CASE Poll(a)
      BY <2>1, SameLocalsFade DEF Poll
    <2>2. CASE Return(a)
      BY <2>2, ReturnFades
    <2>3. CASE MarkSending(a) \/ LoadSession(a) \/ EndBatch(a) \/ MarkClaimedFailed(a)
      BY <2>3, GoingFades DEF MarkSending, LoadSession, EndBatch, MarkClaimedFailed, Goto
    <2>4. CASE OpenClients(a, "abort") \/ OpenClients(a, "fail")
      BY <2>4, GoingFades DEF OpenClients, Goto
    <2>5. CASE Raise(a, "abort") \/ Raise(a, "fail")
      BY <2>5, GoingFades DEF Raise, Goto
    <2> QED BY <2>1, <2>2, <2>3, <2>4, <2>5
            DEF SendNowStep, WorkerStep, CommitStale, CloseNow, AbortNow, NowStale,
                FinalizeIfComplete, WorkerStale
  <1> QED BY <1>1, <1>2, <1>3, GentleRows, FadingStep

LEMMA HeardClaim ==
  ASSUME TypeOK, TypeOK', HeardInv, NEW w \in Worker, NEW s \in Session, Claim(w, s)
  PROVE  HeardInv'
  <1> DEFINE claimed == Claimable(s)
  <1>1. /\ claimed \in SUBSET RowsOf(s)
        /\ msg' = [m \in Message |-> IF m \in claimed THEN [msg[m] EXCEPT !.state = "sending"]
                                                      ELSE msg[m]]
        /\ snap' = [snap EXCEPT ![w] = [m \in claimed |-> msg'[m]]]
        /\ pc' = [pc EXCEPT ![w] = IF claimed = {} THEN "settle" ELSE "load"]
        /\ cur' = [cur EXCEPT ![w] = s]
        /\ UNCHANGED <<chat, mid, result>>
    BY DEF Claim, Claimable, worldVars
  <1> HIDE DEF claimed
  <1>2. /\ w \in Actor /\ DOMAIN snap'[w] = claimed
        /\ pc'[w] \notin {"idle", "commit", "add", "remove"}
        /\ \A b \in Actor \ {w} : pc'[b] = pc[b] /\ snap'[b] = snap[b]
    BY <1>1 DEF TypeOK, LocalsOK, Actor
  <1>3. \A m \in Message : msg'[m].status = msg[m].status /\ msg'[m].sid = msg[m].sid
    BY <1>1, RowsTyped, Columns
  <1> QED BY <1>1, <1>2, <1>3, HeardReading

\* The rows of a generated session have ids nobody has reserved.
LEMMA HeardGenerate ==
  ASSUME TypeOK, TypeOK', HeardInv, Generate
  PROVE  HeardInv'
  <1>0. PICK s \in Session, S \in SUBSET Message :
          \E gap \in [S -> Gap] : CreateSession(s, S, gap)
    BY DEF Generate
  <1>1. PICK gap \in [S -> Gap] : CreateSession(s, S, gap)
    BY <1>0
  <1>2. PICK r \in Rankings(S) :
          msg' = [m \in Message |->
                    IF m \in S
                    THEN [msg[m] EXCEPT !.sid = s, !.order = r[m],
                                        !.gap = gap[m], !.status = "queued"]
                    ELSE msg[m]]
    BY <1>1 DEF CreateSession
  <1>3. ASSUME NEW m \in S
        PROVE  /\ m \in Message /\ msg[m].status = "unused" /\ msg'[m].status = "queued"
               /\ \A h \in Handler : pc[h] = "add" => mid[h] # m
    <2>1. m \in Message /\ msg[m] \in MessageRow /\ Fresh(m)
      BY <1>1, RowsTyped DEF CreateSession
    <2>2. msg'[m] = [msg[m] EXCEPT !.sid = s, !.order = r[m],
                                   !.gap = gap[m], !.status = "queued"]
      BY <1>2, <2>1
    <2>3. msg'[m].status = "queued"
      BY <2>1, <2>2 DEF MessageRow
    <2> QED BY <2>1, <2>3 DEF Fresh
  <1>4. RowsGentle
    BY <1>2, <1>3 DEF RowsGentle
  <1>5. LocalsFade /\ chat' = chat
    BY <1>1, SameLocalsFade DEF CreateSession, localVars, worldVars
  <1> QED BY <1>4, <1>5, GentleRows, FadingStep

LEMMA HeardInit == Init => HeardInv
  BY DEF Init, RowsInit, HeardInv, Reserved, ReadRows, Answered, SentWasHeard, Exists,
         Actor, NoCopies

LEMMA HeardNext == TypeOK /\ TypeOK' /\ HeardInv /\ [Next]_vars => HeardInv'
  <1> SUFFICES ASSUME TypeOK, TypeOK', HeardInv, [Next]_vars PROVE HeardInv'
    OBVIOUS
  <1>1. ASSUME NEW a \in Actor, Deliver(a, TRUE) \/ Deliver(a, FALSE) \/ CommitResult(a)
        PROVE  HeardInv'
    BY <1>1, HeardDeliver, HeardCommitResult
  <1>2. ASSUME NEW h \in Handler, HandlerBegin(h) \/ HandlerStep(h) PROVE HeardInv'
    BY <1>1, <1>2, HeardBegin, HeardReview, HeardSending DEF HandlerStep, Actor
  <1>3. ASSUME NEW w \in Worker, WorkerStep(w) PROVE HeardInv'
    BY <1>1, <1>3, HeardClaim, HeardSending DEF Actor
  <1>4. ASSUME NEW a \in Actor, DatabaseError(a) PROVE HeardInv'
    BY <1>4, ReturnFades, SameRowsGentle, GentleRows, FadingStep DEF DatabaseError, dbVars
  <1>5. CASE Tick \/ UNCHANGED vars
    BY <1>5, SameLocalsFade, SameRowsGentle, GentleRows, FadingStep
    DEF Tick, vars, dbVars, worldVars, localVars
  <1>6. CASE Crash
    <2>1. LocalsFade
      BY <1>6 DEF Crash, LocalsFade, NoCopies
    <2> QED BY <1>6, <2>1, SameRowsGentle, GentleRows, FadingStep DEF Crash, dbVars
  <1> QED BY <1>2, <1>3, <1>4, <1>5, <1>6, HeardGenerate DEF Next

\* A row recorded as sent was accepted by Telegram: no failure, no crash and
\* no stale copy of another coroutine writes 'sent' for a message nobody
\* received (the commits after _deliver_message).
THEOREM SentWasAccepted == Spec => []SentWasHeard
  <1>1. Init => TypeOK /\ HeardInv
    BY TypeInit, HeardInit
  <1>2. TypeOK /\ HeardInv /\ [Next]_vars => (TypeOK /\ HeardInv)'
    BY TypeNext, HeardNext
  <1>3. HeardInv => SentWasHeard
    BY DEF HeardInv
  <1> QED BY <1>1, <1>2, <1>3, PTL DEF Spec
=============================================================================
