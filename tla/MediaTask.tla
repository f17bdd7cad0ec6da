----------------------------- MODULE MediaTask -----------------------------
(***************************************************************************)
(* Image and video tasks of the playground: routers/playground/            *)
(* media_gen.py and media_library.py, services/playground/                 *)
(* media_downloader.py, media_cleanup.py and usage_check.py.               *)
(*                                                                         *)
(* A request creates a task at Tencent and then its row.  The pages poll:  *)
(* a poll asks Tencent, then reads the row, downloads the result when the  *)
(* row has no file, and commits.  Owners share and delete, a daily loop    *)
(* deletes what is too old.  All of them overlap: a page polls by a timer, *)
(* whether the previous poll has been answered or not.                     *)
(*                                                                         *)
(* An UPDATE of the ORM writes the columns that differ from the copy it    *)
(* has read, and fails when the row is gone.  The month of the quota, the  *)
(* kind of a task and its price are left out: every task costs 1.          *)
(***************************************************************************)
EXTENDS Integers, FiniteSets

CONSTANTS
  Task,       \* tasks at Tencent, and their rows
  Request,    \* requests being handled, and the loop
  Quota,      \* monthly_quota_usd of the user
  Retention,  \* playground_media_retention_days
  MaxDay,     \* bound: the last day
  MaxMediaFaults    \* bound: errors and crashes

ASSUME MediaAssumption ==
  /\ {Quota, Retention, MaxDay, MaxMediaFaults} \subseteq Nat
  /\ MaxDay >= 1

VARIABLES
  row,     \* playground_media: NoRow or a record
  disk,    \* per task: the days for which a file is there, whole or not
  req,     \* what each request is at, with its locals
  vod,     \* the tasks at Tencent
  day, mediaFaults,
  cut      \* history: rows whose deletion was cut off

mediaVars == <<row, disk, req, vod, day, mediaFaults, cut>>

Day == 1 .. MaxDay
NoRow == [status |-> "none"]
Media == [status : {"pending", "running", "succeeded", "failed", "unknown"},
          url : BOOLEAN, file : 0 .. MaxDay, cost : 0 .. 1,
          shared : BOOLEAN, source : SUBSET Task, born : Day]
Fresh(from, today) ==
  [status |-> "running", url |-> FALSE, file |-> 0, cost |-> 0,
   shared |-> FALSE, source |-> from, born |-> today]

HasRow(t) == row[t] # NoRow
Spend == Cardinality({t \in Task : HasRow(t) /\ row[t].status = "succeeded" /\ row[t].cost = 1})

\* Locals: task, or tasks to delete; source; Tencent's answer; the copy of the
\* row; the day of the file, or 0 when there is none.
NoCall == [pc |-> "idle"]
At(r, p) == req[r].pc = p
Take(r, local) == At(r, "idle") /\ req' = [req EXCEPT ![r] = local]
Goto(r, from, to) == At(r, from) /\ req' = [req EXCEPT ![r].pc = to]
Done(r) == req' = [req EXCEPT ![r] = NoCall]
Fault == mediaFaults < MaxMediaFaults /\ mediaFaults' = mediaFaults + 1

\* Mutant: the whole row is written back.
FlushAll(t, copy, new) == row' = [row EXCEPT ![t] = new]

\* The columns a request changed, over the row as it is now.
Flush(t, copy, new) ==
  row' = [row EXCEPT ![t] =
            [c \in DOMAIN new |-> IF new[c] # copy[c] THEN new[c] ELSE row[t][c]]]

-----------------------------------------------------------------------------
(* Create *)

BeginFromPrompt(r) ==
  /\ Spend < Quota
  /\ Take(r, [pc |-> "create", source |-> {}])
  /\ UNCHANGED <<row, disk, vod, day, mediaFaults, cut>>

\* The source is a result that Tencent can still fetch.
BeginFromMedia(r, t) ==
  /\ Spend < Quota
  /\ HasRow(t) /\ row[t].status = "succeeded" /\ row[t].url
  /\ Take(r, [pc |-> "create", source |-> {t}])
  /\ UNCHANGED <<row, disk, vod, day, mediaFaults, cut>>

\* Tencent takes the task, or refuses it.
CreateTask(r) ==
  /\ At(r, "create")
  /\ \/ \E t \in Task :
          /\ vod[t] = "none"
          /\ vod' = [vod EXCEPT ![t] = "waiting"]
          /\ req' = [req EXCEPT ![r] = [pc |-> "insert", source |-> @.source, task |-> t]]
     \/ Done(r) /\ UNCHANGED vod
  /\ UNCHANGED <<row, disk, day, mediaFaults, cut>>

\* The row refers to its source, which must still be there.
Insert(r) ==
  /\ At(r, "insert") /\ Done(r)
  /\ row' = IF \A s \in req[r].source : HasRow(s)
            THEN [row EXCEPT ![req[r].task] = Fresh(req[r].source, day)]
            ELSE row
  /\ UNCHANGED <<disk, vod, day, mediaFaults, cut>>

-----------------------------------------------------------------------------
(* Poll *)

Answer(s) == CASE s = "waiting" -> "pending" [] s = "running" -> "running"
               [] s = "done" -> "succeeded"  [] OTHER -> "failed"

\* Tencent answers what holds now; the answer may be long on its way.
Ask(r, t) ==
  /\ HasRow(t)
  /\ \E ans \in {Answer(vod[t]), "unknown"} :
       /\ Take(r, [pc |-> "asked", task |-> t, ans |-> ans])
       /\ IF ans = "unknown" THEN Fault ELSE UNCHANGED mediaFaults
  /\ UNCHANGED <<row, disk, vod, day, cut>>

\* The file of the day is taken as it is when it is there and not empty.
ReadRow(r) ==
  LET t == req[r].task
      To(p, d) == req' = [req EXCEPT ![r] =
        [pc |-> p, task |-> t, ans |-> @.ans, seen |-> row[t], path |-> d]]
  IN
  /\ At(r, "asked") /\ HasRow(t)
  /\ \/ /\ req[r].ans = "succeeded" /\ row[t].file = 0
        /\ To(IF day \notin disk[t] THEN "download" ELSE "fill", day)
     \/ /\ req[r].ans # "succeeded" \/ row[t].file # 0
        /\ To("update", 0)
  /\ UNCHANGED <<row, disk, vod, day, mediaFaults, cut>>

\* The row is gone: nothing to poll, or the UPDATE fails.
NoRowLeft(r) ==
  /\ req[r].pc \in {"asked", "update", "fill", "share", "unshare"}
  /\ ~ HasRow(req[r].task)
  /\ Done(r)
  /\ UNCHANGED <<row, disk, vod, day, mediaFaults, cut>>

Written(r) == [disk EXCEPT ![req[r].task] = @ \cup {req[r].path}]

Download(r) ==
  /\ Goto(r, "download", "fill")
  /\ disk' = Written(r)
  /\ UNCHANGED <<row, vod, day, mediaFaults, cut>>

\* Mutant: the path is kept although there is no file.
DownloadBlind(r) ==
  /\ Goto(r, "download", "fill")
  /\ Fault
  /\ UNCHANGED <<row, disk, vod, day, cut>>

\* The download fails, or the writing does, in the middle of the file.
DownloadFails(r) ==
  /\ At(r, "download") /\ Fault
  /\ req' = [req EXCEPT ![r].pc = "fill", ![r].path = 0]
  /\ disk' \in {disk, Written(r)}
  /\ UNCHANGED <<row, vod, day, cut>>

\* Mutant: Tencent's own word is stored.
ToldRaw(q) == [q.seen EXCEPT !.status = "FINISH", !.url = (q.ans = "succeeded")]

\* What the answer says, over the copy.
Told(q) == [q.seen EXCEPT !.status = q.ans, !.url = (q.ans = "succeeded")]

Update(r) ==
  /\ At(r, "update") /\ HasRow(req[r].task)
  /\ Flush(req[r].task, req[r].seen, Told(req[r]))
  /\ Done(r)
  /\ UNCHANGED <<disk, vod, day, mediaFaults, cut>>

\* Mutant: the cost is set together with the file.
FillWithFile(r) ==
  /\ At(r, "fill") /\ HasRow(req[r].task)
  /\ Flush(req[r].task, req[r].seen,
       IF req[r].path = 0 THEN Told(req[r])
       ELSE [Told(req[r]) EXCEPT !.cost = 1, !.file = req[r].path])
  /\ Done(r)
  /\ UNCHANGED <<disk, vod, day, mediaFaults, cut>>

\* File and cost; the cost also when there is no file.
Fill(r) ==
  /\ At(r, "fill") /\ HasRow(req[r].task)
  /\ Flush(req[r].task, req[r].seen,
       [Told(req[r]) EXCEPT !.cost = 1, !.file = req[r].path])
  /\ Done(r)
  /\ UNCHANGED <<disk, vod, day, mediaFaults, cut>>

-----------------------------------------------------------------------------
(* Share and delete *)

BeginShare(r, t) ==
  /\ HasRow(t)
  /\ \E to \in {"share", "unshare"} :
       /\ to = "share" => row[t].status = "succeeded" /\ row[t].file # 0
       /\ Take(r, [pc |-> to, task |-> t, seen |-> row[t]])
  /\ UNCHANGED <<row, disk, vod, day, mediaFaults, cut>>

Share(r) ==
  /\ req[r].pc \in {"share", "unshare"} /\ HasRow(req[r].task)
  /\ Flush(req[r].task, req[r].seen,
       [req[r].seen EXCEPT !.shared = At(r, "share")])
  /\ Done(r)
  /\ UNCHANGED <<disk, vod, day, mediaFaults, cut>>

\* The files of S go, but for those that cannot be removed; then the rows.
Unlink(r, S) ==
  /\ Take(r, [pc |-> "delete", tasks |-> S])
  /\ \E kept \in SUBSET S :
       /\ IF kept = {} THEN UNCHANGED mediaFaults ELSE Fault
       /\ disk' = [t \in Task |->
                     IF t \in S \ kept THEN disk[t] \ {row[t].file} ELSE disk[t]]
  /\ UNCHANGED <<row, vod, day, cut>>

BeginDelete(r, t) == HasRow(t) /\ Unlink(r, {t})

\* cleanup_expired_media
Old == {t \in Task : HasRow(t) /\ row[t].born < day - Retention}
CleanUp(r) == Old # {} /\ Unlink(r, Old)

\* A deleted row is no source any more.
Delete(r) ==
  /\ At(r, "delete") /\ Done(r)
  /\ row' = [t \in Task |->
       IF ~ HasRow(t) \/ t \in req[r].tasks THEN NoRow
       ELSE [row[t] EXCEPT !.source = @ \ req[r].tasks]]
  /\ UNCHANGED <<disk, vod, day, mediaFaults, cut>>

-----------------------------------------------------------------------------
(* The environment *)

Progress ==
  /\ \E t \in Task :
       \/ vod[t] = "waiting" /\ vod' = [vod EXCEPT ![t] = "running"]
       \/ vod[t] = "running" /\ vod' \in {[vod EXCEPT ![t] = s] : s \in {"done", "failed"}}
  /\ UNCHANGED <<row, disk, req, day, mediaFaults, cut>>

NextDay ==
  /\ day < MaxDay /\ day' = day + 1
  /\ UNCHANGED <<row, disk, req, vod, mediaFaults, cut>>

Cut(R) == cut' = cut \cup UNION {req[r].tasks : r \in {q \in R : At(q, "delete")}}

\* Tencent or the database answers with an error: the request ends, and what
\* it has not committed is rolled back.
Fail(r) ==
  /\ ~ At(r, "idle") /\ Fault
  /\ Cut({r})
  /\ Done(r)
  /\ UNCHANGED <<row, disk, vod, day>>

\* The process dies; the file it is writing may stay in part.
Crash ==
  /\ Fault
  /\ Cut(Request)
  /\ disk' \in {disk} \cup {Written(r) : r \in {q \in Request : At(q, "download")}}
  /\ req' = [r \in Request |-> NoCall]
  /\ UNCHANGED <<row, vod, day>>

-----------------------------------------------------------------------------

Step(r) ==
  \/ CreateTask(r) \/ Insert(r)
  \/ ReadRow(r) \/ NoRowLeft(r) \/ Download(r) \/ Update(r) \/ Fill(r)
  \/ Share(r) \/ Delete(r)

Begin(r) ==
  \/ BeginFromPrompt(r)
  \/ \E t \in Task : BeginFromMedia(r, t) \/ Ask(r, t) \/ BeginShare(r, t) \/ BeginDelete(r, t)
  \/ CleanUp(r)

MediaInit ==
  /\ row = [t \in Task |-> NoRow]
  /\ disk = [t \in Task |-> {}]
  /\ req = [r \in Request |-> NoCall]
  /\ vod = [t \in Task |-> "none"]
  /\ day = 1 /\ mediaFaults = 0 /\ cut = {}

MediaNext ==
  \/ \E r \in Request : Begin(r) \/ Step(r) \/ DownloadFails(r) \/ Fail(r)
  \/ Progress \/ NextDay \/ Crash

MediaSpec == MediaInit /\ [][MediaNext]_mediaVars

\* Requests are answered, Tencent works, and a page polls a task by its timer
\* until it sees the end of it, and again after it is opened anew.
Unfinished(t) == HasRow(t) /\ row[t].status \notin {"succeeded", "failed"}
Poll(r, t) == Unfinished(t) /\ Ask(r, t)

-----------------------------------------------------------------------------

MediaTypeOK ==
  /\ row \in [Task -> Media \cup {NoRow}]
  /\ disk \in [Task -> SUBSET Day]
  /\ \A r \in Request :
       /\ req[r].pc \in {"idle", "create", "insert", "asked", "download", "fill",
                         "update", "share", "unshare", "delete"}
       /\ "path" \in DOMAIN req[r] => req[r].path \in 0 .. MaxDay
  /\ vod \in [Task -> {"none", "waiting", "running", "done", "failed"}]
  /\ day \in Day /\ mediaFaults \in 0 .. MaxMediaFaults /\ cut \in SUBSET Task

\* "백엔드 디스크에 다운로드한 파일의 절대 경로 — 영구 보관" (models/playground.py:164):
\* a row that names a file has it on the disk, unless a deletion is removing
\* both or was cut off between the two, whatever downloads fail or overlap.
FileBacked ==
  \A t \in Task : HasRow(t) /\ row[t].file # 0 /\ row[t].file \notin disk[t] =>
    t \in cut \/ \E r \in Request : At(r, "delete") /\ t \in req[r].tasks
RowsAreBacked == MediaTypeOK /\ FileBacked

\* A result that can be looked at has been charged (media_gen.py:523-541): no
\* order of polls, late answers and failed downloads gives it for nothing.
ResultIsCharged ==
  \A t \in Task : HasRow(t) /\ row[t].status = "succeeded" /\ row[t].url => row[t].cost = 1

\* Polls, shares and deletions that overlap do not undo each other's columns:
\* cost and file stay with the row, and only a share request shares.
NothingUndone == [][\A t \in Task : HasRow(t) /\ row'[t] # NoRow =>
  /\ (row[t].cost = 1) => (row'[t].cost = 1)
  /\ (row[t].file # 0) => (row'[t].file # 0)
  /\ (row[t].shared # row'[t].shared) =>
       \E r \in Request : req[r].pc \in {"share", "unshare"} /\ req[r].task = t]_mediaVars

\* A finished task is charged or its row deleted in the end, although only the
\* polls of a page ever look at it.
FinishedIsCharged ==
  \A t \in Task : vod[t] = "done" /\ HasRow(t) ~> ~ HasRow(t) \/ row[t].cost = 1
=============================================================================
