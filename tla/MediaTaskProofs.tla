--------------------------- MODULE MediaTaskProofs ---------------------------
(***************************************************************************)
(* What holds of media tasks for any number of tasks, requests and days,   *)
(* any quota and any number of errors and crashes: RowsAreBacked,          *)
(* ResultIsCharged and NothingUndone.                                      *)
(*                                                                         *)
(* None of the three is inductive.  A request works on a copy of its row   *)
(* that is some steps old, so the invariant says what the copy still tells *)
(* about the row: that the row is the same one or gone (BornOnce), that a  *)
(* charge seen is a charge still there (CopiesOK), and that the file about *)
(* to be stored is on the disk, or the row is being deleted (PathsOK).     *)
(***************************************************************************)
EXTENDS MediaTask, TLAPS

-----------------------------------------------------------------------------
(* The inductive invariant *)

Answers == {"pending", "running", "succeeded", "failed", "unknown"}

\* What a request holds, by what it is at.
Local ==
  UNION {
    [pc : {"idle"}],
    [pc : {"create"}, source : SUBSET Task],
    [pc : {"insert"}, source : SUBSET Task, task : Task],
    [pc : {"asked"}, task : Task, ans : Answers],
    [pc : {"download", "fill", "update"}, task : Task, ans : Answers,
     seen : Media, path : 0 .. MaxDay],
    [pc : {"share", "unshare"}, task : Task, seen : Media],
    [pc : {"delete"}, tasks : SUBSET Task] }

LocalsOK == req \in [Request -> Local]

\* The tasks whose row the request has met.
Met(r) ==
  {t \in Task :
     \/ /\ req[r].pc \in {"asked", "download", "fill", "update", "share", "unshare"}
        /\ t = req[r].task
     \/ At(r, "delete") /\ t \in req[r].tasks}

HasCopy(r) == req[r].pc \in {"download", "fill", "update", "share", "unshare"}

\* A task gets a row once: nobody has met the row that an insert is about to
\* write, and no other insert writes it.
BornOnce ==
  /\ \A t \in Task : HasRow(t) => vod[t] # "none"
  /\ \A r \in Request : \A t \in Met(r) : vod[t] # "none"
  /\ \A r \in Request : At(r, "insert") =>
       /\ vod[req[r].task] # "none"
       /\ ~ HasRow(req[r].task)
       /\ \A q \in Request : /\ req[r].task \notin Met(q)
                             /\ At(q, "insert") /\ q # r => req[q].task # req[r].task

\* A charge in the copy is a charge in the row, and a file is never without.
CopiesOK ==
  \A r \in Request : HasCopy(r) =>
    /\ req[r].seen.file # 0 => req[r].seen.cost = 1
    /\ req[r].seen.cost = 1 /\ HasRow(req[r].task) => row[req[r].task].cost = 1

FileIsCharged == \A t \in Task : HasRow(t) /\ row[t].file # 0 => row[t].cost = 1

\* A deletion of the row is under way, or has been cut off.
Doomed(t) == t \in cut \/ \E r \in Request : At(r, "delete") /\ t \in req[r].tasks

\* The two ways of a poll: the file of the day is stored with the row when the
\* task has succeeded and has none; else only the answer is.
PathOK(r) ==
  /\ req[r].pc \in {"download", "fill"} =>
       req[r].ans = "succeeded" /\ req[r].seen.file = 0
  /\ At(r, "update") /\ req[r].ans = "succeeded" => req[r].seen.file # 0
  /\ At(r, "download") => req[r].path \in Day
  /\ At(r, "fill") /\ req[r].path # 0 /\ HasRow(req[r].task) =>
       req[r].path \in disk[req[r].task] \/ Doomed(req[r].task)
PathsOK == \A r \in Request : PathOK(r)

Typing == MediaTypeOK /\ LocalsOK
MediaInv ==
  /\ Typing /\ BornOnce /\ CopiesOK /\ FileIsCharged /\ PathsOK
  /\ FileBacked /\ ResultIsCharged

-----------------------------------------------------------------------------
(* Rows and columns *)

\* What is not there has no columns; what is there has them all.
LEMMA RowTyped ==
  ASSUME MediaTypeOK, NEW t \in Task, HasRow(t)
  PROVE  row[t] \in Media
  BY DEF MediaTypeOK, HasRow

LEMMA MediaIsARow ==
  ASSUME NEW m \in Media
  PROVE  m # NoRow
  BY DEF Media, NoRow

\* An UPDATE changes the columns that differ from the copy and no other ones.
Merged(now, copy, new) == [c \in DOMAIN new |-> IF new[c] # copy[c] THEN new[c] ELSE now[c]]

LEMMA MergedTyped ==
  ASSUME NEW now \in Media, NEW copy \in Media, NEW new \in Media
  PROVE  /\ Merged(now, copy, new) \in Media
         /\ \A c \in {"status", "url", "file", "cost", "shared", "source", "born"} :
              Merged(now, copy, new)[c] = IF new[c] # copy[c] THEN new[c] ELSE now[c]
  <1>1. DOMAIN new = {"status", "url", "file", "cost", "shared", "source", "born"}
    BY DEF Media
  <1>2. Merged(now, copy, new) =
          [status |-> Merged(now, copy, new).status, url |-> Merged(now, copy, new).url,
           file |-> Merged(now, copy, new).file, cost |-> Merged(now, copy, new).cost,
           shared |-> Merged(now, copy, new).shared,
           source |-> Merged(now, copy, new).source,
           born |-> Merged(now, copy, new).born]
    BY <1>1 DEF Merged
  <1>3. /\ Merged(now, copy, new).status \in {"pending", "running", "succeeded", "failed", "unknown"}
        /\ Merged(now, copy, new).url \in BOOLEAN
        /\ Merged(now, copy, new).file \in 0 .. MaxDay
        /\ Merged(now, copy, new).cost \in 0 .. 1
        /\ Merged(now, copy, new).shared \in BOOLEAN
        /\ Merged(now, copy, new).source \in SUBSET Task
        /\ Merged(now, copy, new).born \in Day
    BY <1>1 DEF Merged, Media
  <1> QED BY <1>1, <1>2, <1>3 DEF Merged, Media

LEMMA FlushRow ==
  ASSUME MediaTypeOK, NEW t \in Task, HasRow(t),
         NEW copy \in Media, NEW new \in Media, Flush(t, copy, new)
  PROVE  /\ row' \in [Task -> Media \cup {NoRow}]
         /\ row'[t] = Merged(row[t], copy, new) /\ row'[t] \in Media
         /\ \A u \in Task : u # t => row'[u] = row[u]
  <1>1. row' = [row EXCEPT ![t] = Merged(row[t], copy, new)]
    BY DEF Flush, Merged
  <1>2. Merged(row[t], copy, new) \in Media
    BY RowTyped, MergedTyped
  <1> QED BY <1>1, <1>2 DEF MediaTypeOK

-----------------------------------------------------------------------------
(* Typing *)

LEMMA LocalTyped ==
  ASSUME LocalsOK, NEW r \in Request
  PROVE  /\ req[r] \in Local
         /\ req[r].pc \in {"idle", "create", "insert", "asked", "download", "fill",
                           "update", "share", "unshare", "delete"}
         /\ req[r].pc \in {"create", "insert"} => req[r].source \in SUBSET Task
         /\ req[r].pc \in {"insert", "asked", "download", "fill", "update", "share",
                           "unshare"} => req[r].task \in Task
         /\ req[r].pc \in {"asked", "download", "fill", "update"} => req[r].ans \in Answers
         /\ HasCopy(r) => req[r].seen \in Media
         /\ req[r].pc \in {"download", "fill", "update"} => req[r].path \in 0 .. MaxDay
         /\ At(r, "delete") => req[r].tasks \in SUBSET Task
  <1>1. req[r] \in Local
    BY DEF LocalsOK
  <1> QED BY <1>1 DEF Local, HasCopy, At

LEMMA NextTyped ==
  ASSUME Typing', NEW r \in Request
  PROVE  /\ req'[r].pc \in {"insert", "asked", "download", "fill", "update", "share",
                            "unshare"} => req'[r].task \in Task
         /\ HasCopy(r)' => req'[r].task \in Task /\ req'[r].seen \in Media
  <1>1. req'[r] \in Local
    BY DEF Typing, LocalsOK
  <1> QED BY <1>1 DEF Local, HasCopy

LEMMA NoCallIsLocal == NoCall \in Local
  BY DEF NoCall, Local

LEMMA TypingHolds ==
  ASSUME Typing, NEW x \in Local, NEW r \in Request, req' = [req EXCEPT ![r] = x]
  PROVE  LocalsOK'
  BY DEF Typing, LocalsOK

LEMMA RowsTyping ==
  ASSUME Typing, LocalsOK', row' \in [Task -> Media \cup {NoRow}],
         disk' \in [Task -> SUBSET Day],
         vod' \in [Task -> {"none", "waiting", "running", "done", "failed"}],
         day' \in Day, mediaFaults' \in 0 .. MaxMediaFaults, cut' \in SUBSET Task
  PROVE  Typing'
  <1>1. ASSUME NEW r \in Request
        PROVE  /\ req'[r].pc \in {"idle", "create", "insert", "asked", "download", "fill",
                         "update", "share", "unshare", "delete"}
               /\ "path" \in DOMAIN req'[r] => req'[r].path \in 0 .. MaxDay
    BY DEF LocalsOK, Local
  <1> QED BY <1>1 DEF Typing, MediaTypeOK

LEMMA FaultTyped ==
  ASSUME Typing, Fault
  PROVE  mediaFaults' \in 0 .. MaxMediaFaults
  BY MediaAssumption DEF Typing, MediaTypeOK, Fault

-----------------------------------------------------------------------------
(* What most steps leave alone *)

TasksStay == \A t \in Task : vod[t] # "none" => vod'[t] # "none"
NoNewRow == \A t \in Task : HasRow(t)' => HasRow(t)
ChargesStay == \A t \in Task : HasRow(t)' /\ row[t].cost = 1 => row'[t].cost = 1

\* A file goes, and the deletion of a row is given up, only where the row goes
\* too or is doomed.
FilesStay ==
  \A t \in Task : HasRow(t)' =>
    /\ Doomed(t) => Doomed(t)'
    /\ \A d \in disk[t] : d \in disk'[t] \/ Doomed(t)'

\* Locals of a request: the insert it is at, what it has met, its copy.
InsertStays(r) == At(r, "insert")' => At(r, "insert") /\ req'[r].task = req[r].task
MetStays(r) == \A t \in Met(r)' : t \in Met(r) \/ HasRow(t)
CopyStays(r) ==
  HasCopy(r)' => \/ HasCopy(r) /\ req'[r].task = req[r].task /\ req'[r].seen = req[r].seen
                 \/ HasRow(req'[r].task) /\ req'[r].seen = row[req'[r].task]

LEMMA BornOnceHolds ==
  ASSUME MediaInv, Typing', TasksStay, NoNewRow,
         \A r \in Request : InsertStays(r) /\ MetStays(r)
  PROVE  BornOnce'
  <1>1. \A r \in Request : At(r, "insert")' => req'[r].task \in Task
    BY NextTyped DEF At
  <1>2. \A t \in Task : HasRow(t)' => vod'[t] # "none"
    BY DEF MediaInv, BornOnce, TasksStay, NoNewRow
  <1>3. \A r \in Request : \A t \in Met(r)' : vod'[t] # "none"
    BY DEF MediaInv, BornOnce, TasksStay, MetStays, Met
  <1>4. ASSUME NEW r \in Request, At(r, "insert")'
        PROVE  /\ vod'[req'[r].task] # "none"
               /\ ~ HasRow(req[r].task)'
               /\ \A q \in Request :
                    /\ req'[r].task \notin Met(q)'
                    /\ At(q, "insert")' /\ q # r => req'[q].task # req'[r].task
    BY <1>1, <1>4 DEF MediaInv, BornOnce, TasksStay, NoNewRow, InsertStays, MetStays
  <1> QED BY <1>2, <1>3, <1>4 DEF BornOnce

LEMMA CopiesHold ==
  ASSUME MediaInv, Typing', NoNewRow, ChargesStay, \A r \in Request : CopyStays(r)
  PROVE  CopiesOK'
  <1> SUFFICES ASSUME NEW r \in Request, HasCopy(r)'
               PROVE  /\ req'[r].seen.file # 0 => req'[r].seen.cost = 1
                      /\ req'[r].seen.cost = 1 /\ HasRow(req[r].task)' =>
                           row'[req'[r].task].cost = 1
    BY DEF CopiesOK
  <1>1. req'[r].task \in Task
    BY NextTyped
  <1> QED BY <1>1 DEF MediaInv, CopiesOK, FileIsCharged, CopyStays, NoNewRow, ChargesStay

\* A file stored stays or its row is doomed.
LEMMA BackedHolds ==
  ASSUME MediaInv, FilesStay, NoNewRow,
         \A t \in Task : HasRow(t)' => row'[t].file \in disk'[t] \cup {0, row[t].file}
  PROVE  FileBacked'
  BY DEF MediaInv, FileBacked, FilesStay, NoNewRow, Doomed

\* The locals of a poll that goes on.
LEMMA PathHolds ==
  ASSUME MediaInv, Typing', FilesStay, NoNewRow, NEW r \in Request, req'[r] = req[r]
  PROVE  PathOK(r)'
  <1>1. req[r].pc \in {"download", "fill", "update"} => req[r].task \in Task
    BY LocalTyped DEF MediaInv, Typing
  <1> QED BY <1>1 DEF MediaInv, PathsOK, PathOK, FilesStay, NoNewRow, At

\* A request that keeps the rows as they are.
LEMMA SameRows ==
  ASSUME MediaInv, Typing', row' = row, TasksStay, FilesStay,
         NEW r \in Request, \A q \in Request : q # r => req'[q] = req[q],
         InsertStays(r), MetStays(r), CopyStays(r), PathOK(r)'
  PROVE  MediaInv'
  <1>1. NoNewRow /\ ChargesStay
    BY DEF NoNewRow, ChargesStay, HasRow
  <1>2. \A q \in Request : InsertStays(q) /\ MetStays(q) /\ CopyStays(q)
    BY DEF InsertStays, MetStays, CopyStays, At, Met, HasCopy
  <1>3. PathsOK'
    BY <1>1, PathHolds DEF PathsOK
  <1>4. FileIsCharged' /\ ResultIsCharged'
    BY DEF MediaInv, FileIsCharged, ResultIsCharged, HasRow
  <1>5. FileBacked'
    BY <1>1, BackedHolds DEF HasRow
  <1> QED BY <1>1, <1>2, <1>3, <1>4, <1>5, BornOnceHolds, CopiesHold DEF MediaInv

-----------------------------------------------------------------------------
(* The steps of a request that leave the rows as they are *)

\* A request that is over holds nothing that the invariant is about.
LEMMA DoneHolds ==
  ASSUME MediaInv, NEW r \in Request, Done(r), row' = row, vod' = vod, day' = day,
         mediaFaults' \in 0 .. MaxMediaFaults, cut' \in SUBSET Task, disk' = disk,
         cut \subseteq cut', At(r, "delete") => req[r].tasks \subseteq cut'
  PROVE  MediaInv'
  <1>1. req' = [req EXCEPT ![r] = NoCall]
    BY DEF Done
  <1>2. Typing'
    BY <1>1, NoCallIsLocal, TypingHolds, RowsTyping DEF MediaInv, Typing, MediaTypeOK
  <1>3. req'[r].pc = "idle" /\ \A q \in Request : q # r => req'[q] = req[q]
    BY <1>1 DEF MediaInv, Typing, LocalsOK, NoCall
  <1>4. FilesStay
    BY <1>3 DEF FilesStay, Doomed, At
  <1>5. InsertStays(r) /\ MetStays(r) /\ CopyStays(r) /\ PathOK(r)'
    BY <1>3 DEF InsertStays, MetStays, CopyStays, PathOK, Met, HasCopy, At
  <1> QED BY <1>2, <1>3, <1>4, <1>5, SameRows DEF TasksStay

\* A request that goes on to the locals x, when nothing else changes.
LEMMA LocalStep ==
  ASSUME MediaInv, NEW r \in Request, NEW x \in Local, req' = [req EXCEPT ![r] = x],
         row' = row, vod' = vod, day' = day, disk' = disk, cut' = cut,
         mediaFaults' \in 0 .. MaxMediaFaults, ~ At(r, "delete"),
         InsertStays(r), MetStays(r), CopyStays(r), PathOK(r)'
  PROVE  MediaInv'
  <1>1. Typing'
    BY TypingHolds, RowsTyping DEF MediaInv, Typing, MediaTypeOK
  <1>2. \A q \in Request : q # r => req'[q] = req[q]
    BY DEF MediaInv, Typing, LocalsOK
  <1>3. FilesStay
    BY <1>2 DEF FilesStay, Doomed, At
  <1> QED BY <1>1, <1>2, <1>3, SameRows DEF TasksStay

LEMMA FaultsTyped ==
  ASSUME MediaInv, Fault \/ mediaFaults' = mediaFaults
  PROVE  mediaFaults' \in 0 .. MaxMediaFaults
  BY FaultTyped DEF MediaInv, Typing, MediaTypeOK

LEMMA BeginCreateHolds ==
  ASSUME MediaInv, NEW r \in Request, NEW from \in SUBSET Task,
         Take(r, [pc |-> "create", source |-> from]),
         UNCHANGED <<row, disk, vod, day, mediaFaults, cut>>
  PROVE  MediaInv'
  <1> DEFINE x == [pc |-> "create", source |-> from]
  <1>1. x \in Local
    BY DEF Local
  <1>2. req' = [req EXCEPT ![r] = x] /\ ~ At(r, "delete")
    BY DEF Take, At
  <1>3. req'[r] = x
    BY <1>2 DEF MediaInv, Typing, LocalsOK
  <1>4. InsertStays(r) /\ MetStays(r) /\ CopyStays(r) /\ PathOK(r)'
    BY <1>3 DEF InsertStays, MetStays, CopyStays, PathOK, Met, HasCopy, At
  <1> QED BY <1>1, <1>2, <1>4, LocalStep, FaultsTyped

LEMMA AskHolds ==
  ASSUME MediaInv, NEW r \in Request, NEW t \in Task, Ask(r, t)
  PROVE  MediaInv'
  <1>1. PICK ans \in Answers : /\ Take(r, [pc |-> "asked", task |-> t, ans |-> ans])
                               /\ Fault \/ mediaFaults' = mediaFaults
    <2>1. Answer(vod[t]) \in Answers
      BY DEF MediaInv, Typing, MediaTypeOK, Answer, Answers
    <2> QED BY <2>1 DEF Ask, Answers
  <1> DEFINE x == [pc |-> "asked", task |-> t, ans |-> ans]
  <1>2. x \in Local
    BY DEF Local
  <1>3. req' = [req EXCEPT ![r] = x] /\ ~ At(r, "delete")
    BY <1>1 DEF Take, At
  <1>4. req'[r] = x
    BY <1>3 DEF MediaInv, Typing, LocalsOK
  <1>5. InsertStays(r) /\ MetStays(r) /\ CopyStays(r) /\ PathOK(r)'
    BY <1>4 DEF InsertStays, MetStays, CopyStays, PathOK, Met, HasCopy, At, Ask
  <1> QED BY <1>1, <1>2, <1>3, <1>5, LocalStep, FaultsTyped DEF Ask

LEMMA BeginShareHolds ==
  ASSUME MediaInv, NEW r \in Request, NEW t \in Task, BeginShare(r, t)
  PROVE  MediaInv'
  <1>1. PICK to \in {"share", "unshare"} : Take(r, [pc |-> to, task |-> t, seen |-> row[t]])
    BY DEF BeginShare
  <1> DEFINE x == [pc |-> to, task |-> t, seen |-> row[t]]
  <1>2. x \in Local
    BY RowTyped DEF Local, BeginShare, MediaInv, Typing
  <1>3. req' = [req EXCEPT ![r] = x] /\ ~ At(r, "delete")
    BY <1>1 DEF Take, At
  <1>4. req'[r] = x
    BY <1>3 DEF MediaInv, Typing, LocalsOK
  <1>5. InsertStays(r) /\ MetStays(r) /\ CopyStays(r) /\ PathOK(r)'
    BY <1>4 DEF InsertStays, MetStays, CopyStays, PathOK, Met, HasCopy, At, BeginShare
  <1> QED BY <1>2, <1>3, <1>5, LocalStep, FaultsTyped DEF BeginShare

LEMMA ReadRowHolds ==
  ASSUME MediaInv, NEW r \in Request, ReadRow(r)
  PROVE  MediaInv'
  <1> DEFINE t == req[r].task
             x(p, d) == [pc |-> p, task |-> t, ans |-> req[r].ans, seen |-> row[t], path |-> d]
  <1>1. /\ t \in Task /\ req[r].ans \in Answers /\ HasRow(t) /\ At(r, "asked")
        /\ row[t] \in Media /\ day \in Day /\ day \in 0 .. MaxDay
    BY LocalTyped, RowTyped, MediaAssumption
       DEF MediaInv, Typing, MediaTypeOK, ReadRow, At, Day
  <1>2. ASSUME NEW p \in {"download", "fill", "update"}, NEW d \in 0 .. MaxDay,
               req' = [req EXCEPT ![r] = x(p, d)],
               \/ /\ p = IF day \notin disk[t] THEN "download" ELSE "fill"
                  /\ d = day /\ req[r].ans = "succeeded" /\ row[t].file = 0
               \/ p = "update" /\ (req[r].ans # "succeeded" \/ row[t].file # 0)
        PROVE  MediaInv'
    <2>1. x(p, d) \in Local
      BY <1>1 DEF Local
    <2>2. req'[r] = x(p, d)
      BY <1>2 DEF MediaInv, Typing, LocalsOK
    <2>3. row' = row /\ disk' = disk /\ cut' = cut /\ vod' = vod /\ day' = day
      BY DEF ReadRow
    <2>4. InsertStays(r) /\ MetStays(r) /\ CopyStays(r) /\ ~ At(r, "delete")
      BY <1>1, <2>2 DEF InsertStays, MetStays, CopyStays, Met, HasCopy, At
    <2>5. PathOK(r)'
      BY <1>1, <1>2, <2>2, <2>3 DEF PathOK, At, Doomed, HasRow
    <2> HIDE DEF x
    <2> QED BY <1>2, <2>1, <2>3, <2>4, <2>5, LocalStep, FaultsTyped DEF ReadRow
  <1>3. \/ /\ req[r].ans = "succeeded" /\ row[t].file = 0
           /\ req' = [req EXCEPT ![r] = x(IF day \notin disk[t] THEN "download" ELSE "fill", day)]
        \/ /\ req[r].ans # "succeeded" \/ row[t].file # 0
           /\ req' = [req EXCEPT ![r] = x("update", 0)]
    BY DEF ReadRow, MediaInv, Typing, LocalsOK
  <1>4. 0 \in 0 .. MaxDay
    BY MediaAssumption
  <1> HIDE DEF x
  <1> QED BY <1>1, <1>2, <1>3, <1>4

LEMMA NoRowLeftHolds ==
  ASSUME MediaInv, NEW r \in Request, NoRowLeft(r)
  PROVE  MediaInv'
  BY DoneHolds, FaultsTyped DEF NoRowLeft, At, MediaInv, Typing, MediaTypeOK

LEMMA FailHolds ==
  ASSUME MediaInv, NEW r \in Request, Fail(r)
  PROVE  MediaInv'
  <1>1. cut' \in SUBSET Task /\ cut \subseteq cut' /\ (At(r, "delete") => req[r].tasks \subseteq cut')
    BY LocalTyped DEF Fail, Cut, MediaInv, Typing, MediaTypeOK
  <1> QED BY <1>1, DoneHolds, FaultsTyped DEF Fail

\* The file of the day is there after a download, and was not before.
LEMMA DownloadHolds ==
  ASSUME MediaInv, NEW r \in Request, Download(r) \/ DownloadFails(r)
  PROVE  MediaInv'
  <1> DEFINE x(d) == [pc |-> "fill", task |-> req[r].task, ans |-> req[r].ans,
                      seen |-> req[r].seen, path |-> d]
  <1>1. /\ At(r, "download") /\ req[r].task \in Task /\ req[r].path \in Day
        /\ req[r] \in [pc : {"download"}, task : Task, ans : Answers, seen : Media,
                       path : 0 .. MaxDay]
    BY LocalTyped DEF Download, DownloadFails, Goto, At, MediaInv, Typing, PathsOK, PathOK, Local
  <1>0. req[r] = [pc |-> "download", task |-> req[r].task, ans |-> req[r].ans,
                  seen |-> req[r].seen, path |-> req[r].path]
    BY <1>1
  <1>2. \A d \in 0 .. MaxDay : x(d) \in Local
    BY <1>1 DEF Local
  <1>3. /\ disk' \in [Task -> SUBSET Day]
        /\ \A t \in Task : disk[t] \subseteq disk'[t]
    BY <1>1 DEF Download, DownloadFails, Written, MediaInv, Typing, MediaTypeOK
  <1>4. PICK d \in 0 .. MaxDay : /\ req' = [req EXCEPT ![r] = x(d)]
                                 /\ d = 0 \/ d \in disk'[req[r].task]
    <2>1. CASE Download(r)
      <3>1. [req[r] EXCEPT !.pc = "fill"] = x(req[r].path)
        BY <1>0
      <3>2. req' = [req EXCEPT ![r] = x(req[r].path)]
        BY <2>1, <3>1 DEF Download, Goto, MediaInv, Typing, LocalsOK
      <3>3. req[r].path \in disk'[req[r].task]
        BY <1>1, <2>1 DEF Download, Written, MediaInv, Typing, MediaTypeOK
      <3> QED BY <1>1, <3>2, <3>3
    <2>2. CASE DownloadFails(r)
      <3>1. [req[r] EXCEPT !.pc = "fill", !.path = 0] = x(0)
        <4>1. [req[r] EXCEPT !.pc = "fill", !.path = 0]
                = [[req[r] EXCEPT !.pc = "fill"] EXCEPT !.path = 0]
          BY <1>0
        <4>2. [req[r] EXCEPT !.pc = "fill"] = x(req[r].path)
          BY <1>0
        <4>3. [x(req[r].path) EXCEPT !.path = 0] = x(0)
          OBVIOUS
        <4> HIDE DEF x
        <4> QED BY <4>1, <4>2, <4>3
      <3>2. req' = [req EXCEPT ![r] = x(0)]
        BY <2>2, <3>1 DEF DownloadFails, MediaInv, Typing, LocalsOK
      <3>3. 0 \in 0 .. MaxDay
        BY MediaAssumption
      <3> HIDE DEF x
      <3> QED BY <3>2, <3>3
    <2> QED BY <2>1, <2>2
  <1>5. /\ req'[r].task = req[r].task /\ req'[r].seen = req[r].seen /\ req'[r].ans = req[r].ans
        /\ req'[r].pc = "fill"
        /\ req'[r].path = 0 \/ req'[r].path \in disk'[req[r].task]
        /\ \A q \in Request : q # r => req'[q] = req[q]
    BY <1>2, <1>4 DEF MediaInv, Typing, LocalsOK
  <1>6. Typing'
    <2>1. LocalsOK'
      BY <1>2, <1>4, TypingHolds DEF MediaInv
    <2> HIDE DEF x
    <2> QED BY <1>3, <2>1, RowsTyping, FaultsTyped
            DEF Download, DownloadFails, MediaInv, Typing, MediaTypeOK
  <1>7. row' = row /\ vod' = vod /\ cut' = cut
    BY DEF Download, DownloadFails
  <1>8. FilesStay
    BY <1>1, <1>3, <1>5, <1>7 DEF FilesStay, Doomed, At
  <1>9. InsertStays(r) /\ MetStays(r) /\ CopyStays(r)
    BY <1>1, <1>5 DEF InsertStays, MetStays, CopyStays, Met, HasCopy, At
  <1>10. PathOK(r)'
    BY <1>1, <1>5 DEF PathOK, At, MediaInv, PathsOK
  <1> QED BY <1>5, <1>6, <1>7, <1>8, <1>9, <1>10, SameRows DEF TasksStay

-----------------------------------------------------------------------------
(* An UPDATE of the row *)

\* A request ends with an UPDATE of its row that sets the charge or leaves it,
\* and a file only where there was none, with the charge.
LEMMA FlushHolds ==
  ASSUME MediaInv, NEW r \in Request, HasCopy(r), HasRow(req[r].task),
         NEW new \in Media, Flush(req[r].task, req[r].seen, new), Done(r),
         UNCHANGED <<disk, vod, day, mediaFaults, cut>>,
         new.cost # req[r].seen.cost => new.cost = 1,
         new.file # req[r].seen.file =>
           new.cost = 1 /\ (new.file \in disk[req[r].task] \/ Doomed(req[r].task)),
         \/ new.cost = 1
         \/ /\ new.url # req[r].seen.url => ~ new.url
            /\ new.status # req[r].seen.status => new.status # "succeeded"
  PROVE  MediaInv'
  <1> DEFINE t == req[r].task
             seen == req[r].seen
             to == Merged(row[t], seen, new)
  <1>1. t \in Task /\ seen \in Media /\ row[t] \in Media
    BY LocalTyped, RowTyped DEF MediaInv, Typing, HasCopy
  <1>2. /\ row' \in [Task -> Media \cup {NoRow}] /\ row'[t] = to /\ to \in Media
        /\ \A u \in Task : u # t => row'[u] = row[u]
    BY <1>1, FlushRow DEF MediaInv, Typing
  <1>3. /\ to.status = IF new.status # seen.status THEN new.status ELSE row[t].status
        /\ to.url = IF new.url # seen.url THEN new.url ELSE row[t].url
        /\ to.file = IF new.file # seen.file THEN new.file ELSE row[t].file
        /\ to.cost = IF new.cost # seen.cost THEN new.cost ELSE row[t].cost
    BY <1>1, MergedTyped
  <1>4. /\ seen.file # 0 => seen.cost = 1
        /\ seen.cost = 1 => row[t].cost = 1
        /\ row[t].file # 0 => row[t].cost = 1
        /\ row[t].status = "succeeded" /\ row[t].url => row[t].cost = 1
    BY <1>1 DEF MediaInv, CopiesOK, FileIsCharged, ResultIsCharged
  <1> HIDE DEF to
  <1>5. /\ row[t].cost = 1 => to.cost = 1
        /\ new.cost = 1 => to.cost = 1
        /\ to.file # 0 => to.cost = 1
        /\ to.status = "succeeded" /\ to.url => to.cost = 1
        /\ to.file = row[t].file \/ to.file \in disk[t] \/ Doomed(t)
    BY <1>1, <1>3, <1>4 DEF Media
  <1>6. \A u \in Task : HasRow(u)' <=> HasRow(u)
    BY <1>1, <1>2, MediaIsARow DEF HasRow
  <1>7. req' = [req EXCEPT ![r] = NoCall]
    BY DEF Done
  <1>8. req'[r].pc = "idle" /\ \A q \in Request : q # r => req'[q] = req[q]
    BY <1>7 DEF MediaInv, Typing, LocalsOK, NoCall
  <1>9. Typing'
    BY <1>2, <1>7, NoCallIsLocal, TypingHolds, RowsTyping DEF MediaInv, Typing, MediaTypeOK
  <1>10. ~ At(r, "delete")
    BY DEF HasCopy, At
  <1>11. TasksStay /\ NoNewRow /\ ChargesStay
    BY <1>1, <1>2, <1>5, <1>6 DEF TasksStay, NoNewRow, ChargesStay
  <1>12. FilesStay /\ \A u \in Task : Doomed(u) => Doomed(u)'
    BY <1>8, <1>10 DEF FilesStay, Doomed, At
  <1>13. \A q \in Request : InsertStays(q) /\ MetStays(q) /\ CopyStays(q) /\ PathOK(q)'
    <2>1. InsertStays(r) /\ MetStays(r) /\ CopyStays(r) /\ PathOK(r)'
      BY <1>8 DEF InsertStays, MetStays, CopyStays, PathOK, Met, HasCopy, At
    <2>2. ASSUME NEW q \in Request, q # r
          PROVE  InsertStays(q) /\ MetStays(q) /\ CopyStays(q)
      BY <1>8, <2>2 DEF InsertStays, MetStays, CopyStays, Met, HasCopy, At
    <2>3. \A q \in Request : q # r => PathOK(q)'
      BY <1>8, <1>9, <1>11, <1>12, PathHolds
    <2> QED BY <2>1, <2>2, <2>3
  <1>14. FileIsCharged' /\ ResultIsCharged'
    BY <1>1, <1>2, <1>5, <1>6 DEF MediaInv, FileIsCharged, ResultIsCharged
  <1>15. FileBacked'
    <2> SUFFICES ASSUME NEW u \in Task, HasRow(u)', row'[u].file # 0,
                        row'[u].file \notin disk[u]
                 PROVE  Doomed(u)'
      BY DEF FileBacked, Doomed
    <2>1. CASE u = t
      BY <1>1, <1>2, <1>5, <1>6, <1>12, <2>1 DEF MediaInv, FileBacked, Doomed
    <2>2. CASE u # t
      BY <1>2, <1>6, <1>12, <2>2 DEF MediaInv, FileBacked, Doomed
    <2> QED BY <2>1, <2>2
  <1> QED BY <1>9, <1>11, <1>13, <1>14, <1>15, BornOnceHolds, CopiesHold
          DEF MediaInv, PathsOK

\* What an answer leaves in the copy.
LEMMA ToldTyped ==
  ASSUME NEW q, q.seen \in Media, q.ans \in Answers
  PROVE  /\ Told(q) \in Media
         /\ Told(q).status = q.ans /\ Told(q).url = (q.ans = "succeeded")
         /\ Told(q).file = q.seen.file /\ Told(q).cost = q.seen.cost
         /\ Told(q).shared = q.seen.shared /\ Told(q).source = q.seen.source
  <1> DEFINE one == [q.seen EXCEPT !.status = q.ans]
  <1>1. /\ one \in Media /\ one.status = q.ans /\ one.file = q.seen.file
        /\ one.cost = q.seen.cost /\ one.shared = q.seen.shared
        /\ one.source = q.seen.source
    BY DEF Media, Answers
  <1>2. Told(q) = [one EXCEPT !.url = (q.ans = "succeeded")]
    BY DEF Told, Media
  <1> HIDE DEF one
  <1> QED BY <1>1, <1>2 DEF Media

LEMMA UpdateHolds ==
  ASSUME MediaInv, NEW r \in Request, Update(r)
  PROVE  MediaInv'
  <1> DEFINE new == Told(req[r])
  <1>1. /\ HasCopy(r) /\ HasRow(req[r].task) /\ Done(r) /\ At(r, "update")
        /\ Flush(req[r].task, req[r].seen, new)
        /\ UNCHANGED <<disk, vod, day, mediaFaults, cut>>
    BY DEF Update, HasCopy, At
  <1>2. req[r].seen \in Media /\ req[r].ans \in Answers
    BY <1>1, LocalTyped DEF MediaInv, Typing, At
  <1>3. /\ new \in Media /\ new.status = req[r].ans /\ new.url = (req[r].ans = "succeeded")
        /\ new.file = req[r].seen.file /\ new.cost = req[r].seen.cost
    BY <1>2, ToldTyped
  <1>4. req[r].ans = "succeeded" => req[r].seen.cost = 1
    BY <1>1 DEF MediaInv, PathsOK, PathOK, CopiesOK
  <1> HIDE DEF new
  <1> QED BY <1>1, <1>3, <1>4, FlushHolds

LEMMA FillHolds ==
  ASSUME MediaInv, NEW r \in Request, Fill(r)
  PROVE  MediaInv'
  <1> DEFINE new == [Told(req[r]) EXCEPT !.cost = 1, !.file = req[r].path]
             one == [Told(req[r]) EXCEPT !.cost = 1]
  <1>1. /\ HasCopy(r) /\ HasRow(req[r].task) /\ Done(r) /\ At(r, "fill")
        /\ Flush(req[r].task, req[r].seen, new)
        /\ UNCHANGED <<disk, vod, day, mediaFaults, cut>>
    BY DEF Fill, HasCopy, At
  <1>2. req[r].seen \in Media /\ req[r].ans \in Answers /\ req[r].path \in 0 .. MaxDay
    BY <1>1, LocalTyped DEF MediaInv, Typing, At
  <1>3. Told(req[r]) \in Media
    BY <1>2, ToldTyped
  <1>4. new \in Media /\ new.cost = 1 /\ new.file = req[r].path
    <2>1. one \in Media /\ one.cost = 1
      BY <1>3 DEF Media
    <2>2. new = [one EXCEPT !.file = req[r].path]
      BY <1>3 DEF Media
    <2> HIDE DEF one, new
    <2> QED BY <1>2, <2>1, <2>2 DEF Media
  <1>5. /\ req[r].seen.file = 0
        /\ req[r].path # 0 => req[r].path \in disk[req[r].task] \/ Doomed(req[r].task)
    BY <1>1 DEF MediaInv, PathsOK, PathOK, At
  <1> HIDE DEF new
  <1> QED BY <1>1, <1>4, <1>5, FlushHolds

LEMMA ShareHolds ==
  ASSUME MediaInv, NEW r \in Request, Share(r)
  PROVE  MediaInv'
  <1> DEFINE new == [req[r].seen EXCEPT !.shared = At(r, "share")]
  <1>1. /\ HasCopy(r) /\ HasRow(req[r].task) /\ Done(r)
        /\ Flush(req[r].task, req[r].seen, new)
        /\ UNCHANGED <<disk, vod, day, mediaFaults, cut>>
    BY DEF Share, HasCopy, At
  <1>2. req[r].seen \in Media
    BY <1>1, LocalTyped DEF MediaInv, Typing
  <1>3. At(r, "share") \in BOOLEAN
    BY DEF At
  <1>4. /\ new \in Media /\ new.status = req[r].seen.status /\ new.url = req[r].seen.url
        /\ new.file = req[r].seen.file /\ new.cost = req[r].seen.cost
    BY <1>2, <1>3 DEF Media
  <1> HIDE DEF new
  <1> QED BY <1>1, <1>4, FlushHolds

-----------------------------------------------------------------------------
(* A task and its row *)

LEMMA CreateTaskHolds ==
  ASSUME MediaInv, NEW r \in Request, CreateTask(r)
  PROVE  MediaInv'
  <1>1. CASE Done(r) /\ UNCHANGED vod
    BY <1>1, DoneHolds, FaultsTyped DEF CreateTask, At, MediaInv, Typing, MediaTypeOK
  <1>2. ASSUME NEW t \in Task, vod[t] = "none", vod' = [vod EXCEPT ![t] = "waiting"],
               req' = [req EXCEPT ![r] =
                         [pc |-> "insert", source |-> req[r].source, task |-> t]]
        PROVE  MediaInv'
    <2> DEFINE x == [pc |-> "insert", source |-> req[r].source, task |-> t]
    <2>1. req[r].source \in SUBSET Task /\ At(r, "create")
      BY LocalTyped DEF CreateTask, At, MediaInv, Typing
    <2>2. x \in Local
      BY <2>1 DEF Local
    <2>3. req'[r] = x /\ \A q \in Request : q # r => req'[q] = req[q]
      BY <1>2 DEF MediaInv, Typing, LocalsOK
    <2>4. /\ UNCHANGED <<row, disk, day, mediaFaults, cut>>
          /\ vod' \in [Task -> {"none", "waiting", "running", "done", "failed"}]
      BY <1>2 DEF CreateTask, MediaInv, Typing, MediaTypeOK
    <2>5. Typing'
      BY <1>2, <2>2, <2>4, TypingHolds, RowsTyping DEF MediaInv, Typing, MediaTypeOK
    <2>6. TasksStay /\ NoNewRow /\ ChargesStay
      BY <1>2, <2>4 DEF TasksStay, NoNewRow, ChargesStay, HasRow, MediaInv, Typing, MediaTypeOK
    <2>7. FilesStay
      BY <2>1, <2>3, <2>4 DEF FilesStay, Doomed, At
    <2>8. /\ At(r, "insert")' /\ req'[r].task = t /\ Met(r)' = {} /\ ~ HasCopy(r)'
          /\ PathOK(r)'
      BY <2>3 DEF PathOK, Met, HasCopy, At
    <2>9. ASSUME NEW q \in Request, q # r
          PROVE  /\ Met(q)' = Met(q) /\ CopyStays(q) /\ PathOK(q)'
                 /\ At(q, "insert")' <=> At(q, "insert")
      <3>1. PathOK(q)'
        BY <2>3, <2>5, <2>6, <2>7, <2>9, PathHolds
      <3> QED BY <2>3, <2>9, <3>1 DEF CopyStays, Met, HasCopy, At
    <2>10. BornOnce'
      <3>1. ~ HasRow(t) /\ \A q \in Request : t \notin Met(q)
        BY <1>2 DEF MediaInv, BornOnce
      <3>2. \A q \in Request : At(q, "insert") => req[q].task # t /\ req[q].task \in Task
        BY <1>2, LocalTyped DEF MediaInv, BornOnce, Typing, At
      <3>3. \A u \in Task : HasRow(u)' <=> HasRow(u)
        BY <2>4 DEF HasRow
      <3>4. vod'[t] # "none" /\ t \in Task
        BY <1>2 DEF MediaInv, Typing, MediaTypeOK
      <3>5. /\ \A u \in Task : HasRow(u)' => vod'[u] # "none"
            /\ \A q \in Request : \A u \in Met(q)' : vod'[u] # "none"
        BY <2>6, <2>8, <2>9, <3>3 DEF MediaInv, BornOnce, TasksStay, Met
      <3>6. ASSUME NEW q \in Request, At(q, "insert")'
            PROVE  /\ vod'[req'[q].task] # "none"
                   /\ ~ HasRow(req[q].task)'
                   /\ \A p \in Request :
                        /\ req'[q].task \notin Met(p)'
                        /\ At(p, "insert")' /\ p # q => req'[p].task # req'[q].task
        <4>1. CASE q = r
          BY <2>3, <2>4, <2>8, <2>9, <3>1, <3>2, <3>4, <4>1 DEF HasRow
        <4>2. CASE q # r
          <5>1. At(q, "insert") /\ req'[q] = req[q] /\ req[q].task \in Task /\ req[q].task # t
            BY <2>3, <2>9, <3>2, <3>6, <4>2
          <5>2. /\ vod[req[q].task] # "none" /\ ~ HasRow(req[q].task)
                /\ \A p \in Request : /\ req[q].task \notin Met(p)
                                      /\ At(p, "insert") /\ p # q => req[p].task # req[q].task
            BY <5>1 DEF MediaInv, BornOnce
          <5> QED BY <2>3, <2>4, <2>6, <2>8, <2>9, <5>1, <5>2 DEF TasksStay, HasRow
        <4> QED BY <4>1, <4>2
      <3> QED BY <3>5, <3>6 DEF BornOnce
    <2>11. CopiesOK'
      BY <2>5, <2>6, <2>8, <2>9, CopiesHold DEF CopyStays
    <2>12. FileIsCharged' /\ ResultIsCharged'
      BY <2>4 DEF MediaInv, FileIsCharged, ResultIsCharged, HasRow
    <2>13. FileBacked'
      BY <2>4, <2>6, <2>7, BackedHolds
    <2> QED BY <2>5, <2>8, <2>9, <2>10, <2>11, <2>12, <2>13 DEF MediaInv, PathsOK
  <1>3. \A t \in Task :
          [req EXCEPT ![r] = [pc |-> "insert", source |-> @.source, task |-> t]]
            = [req EXCEPT ![r] = [pc |-> "insert", source |-> req[r].source, task |-> t]]
    BY DEF MediaInv, Typing, LocalsOK
  <1> QED BY <1>1, <1>2, <1>3 DEF CreateTask

LEMMA FreshTyped ==
  ASSUME NEW from \in SUBSET Task, NEW today \in Day
  PROVE  /\ Fresh(from, today) \in Media /\ Fresh(from, today).file = 0
         /\ Fresh(from, today).status = "running"
  <1>1. 0 \in 0 .. MaxDay /\ 0 \in 0 .. 1
    BY MediaAssumption
  <1> QED BY <1>1 DEF Fresh, Media

\* The new row is nobody's yet: what others have met stays as it was.
LEMMA InsertHolds ==
  ASSUME MediaInv, NEW r \in Request, Insert(r)
  PROVE  MediaInv'
  <1> DEFINE t == req[r].task
  <1>1. /\ t \in Task /\ req[r].source \in SUBSET Task /\ At(r, "insert")
        /\ day \in Day /\ UNCHANGED <<disk, vod, day, mediaFaults, cut>>
    BY LocalTyped DEF Insert, At, MediaInv, Typing, MediaTypeOK
  <1>2. CASE row' = row
    BY <1>1, <1>2, DoneHolds, FaultsTyped DEF Insert, At, MediaInv, Typing, MediaTypeOK
  <1>3. CASE row' = [row EXCEPT ![t] = Fresh(req[r].source, day)]
    <2>1. /\ row' \in [Task -> Media \cup {NoRow}]
          /\ row'[t] \in Media /\ row'[t].file = 0 /\ row'[t].status = "running"
          /\ \A u \in Task : u # t => row'[u] = row[u]
      BY <1>1, <1>3, FreshTyped DEF MediaInv, Typing, MediaTypeOK
    <2>2. req' = [req EXCEPT ![r] = NoCall]
      BY DEF Insert, Done
    <2>3. req'[r].pc = "idle" /\ \A q \in Request : q # r => req'[q] = req[q]
      BY <2>2 DEF MediaInv, Typing, LocalsOK, NoCall
    <2>4. Typing'
      BY <1>1, <2>1, <2>2, NoCallIsLocal, TypingHolds, RowsTyping
         DEF MediaInv, Typing, MediaTypeOK
    <2>5. /\ vod[t] # "none" /\ ~ HasRow(t)
          /\ \A q \in Request : /\ t \notin Met(q)
                                /\ At(q, "insert") /\ q # r => req[q].task # t
      BY <1>1 DEF MediaInv, BornOnce
    <2>6. ASSUME NEW q \in Request
          PROVE  /\ Met(q)' \subseteq Met(q)
                 /\ At(q, "insert")' => At(q, "insert") /\ q # r /\ req'[q] = req[q]
                 /\ HasCopy(q)' => /\ HasCopy(q) /\ q # r /\ req'[q] = req[q]
                                   /\ req[q].task \in Task /\ req[q].task # t
      <3>1. HasCopy(q) => req[q].task \in Met(q) /\ req[q].task \in Task
        BY LocalTyped DEF HasCopy, Met, MediaInv, Typing
      <3> QED BY <2>3, <2>5, <3>1 DEF Met, HasCopy, At
    <2>7. \A u \in Task : u # t => (HasRow(u)' <=> HasRow(u))
      BY <2>1 DEF HasRow
    <2>8. BornOnce'
      <3>1. \A q \in Request : At(q, "insert") => req[q].task \in Task
        BY LocalTyped DEF MediaInv, Typing, At
      <3>2. /\ \A u \in Task : HasRow(u)' => vod'[u] # "none"
            /\ \A q \in Request : \A u \in Met(q)' : vod'[u] # "none"
        BY <1>1, <2>5, <2>6, <2>7 DEF MediaInv, BornOnce
      <3>3. ASSUME NEW q \in Request, At(q, "insert")'
            PROVE  /\ vod'[req'[q].task] # "none"
                   /\ ~ HasRow(req[q].task)'
                   /\ \A p \in Request :
                        /\ req'[q].task \notin Met(p)'
                        /\ At(p, "insert")' /\ p # q => req'[p].task # req'[q].task
        <4>1. /\ At(q, "insert") /\ q # r /\ req'[q] = req[q] /\ req[q].task # t
              /\ req[q].task \in Task
          BY <2>5, <2>6, <3>1, <3>3
        <4>2. ~ HasRow(req[q].task)'
          BY <2>1, <4>1 DEF MediaInv, BornOnce, HasRow
        <4> QED BY <1>1, <2>6, <3>3, <4>1, <4>2 DEF MediaInv, BornOnce
      <3> QED BY <3>2, <3>3 DEF BornOnce
    <2>9. CopiesOK'
      BY <2>1, <2>6, <2>7 DEF MediaInv, CopiesOK, HasRow
    <2>10. FileIsCharged' /\ ResultIsCharged'
      BY <2>1, <2>7 DEF MediaInv, FileIsCharged, ResultIsCharged
    <2>11. \A u \in Task : Doomed(u) => Doomed(u)'
      BY <1>1, <2>3 DEF Doomed, At
    <2>12. FileBacked'
      BY <1>1, <2>1, <2>7, <2>11 DEF MediaInv, FileBacked, Doomed
    <2>13. PathsOK'
      <3>1. PathOK(r)'
        BY <2>3 DEF PathOK, At
      <3>2. ASSUME NEW q \in Request, q # r PROVE PathOK(q)'
        <4>1. At(q, "fill")' => req[q].task \in Task /\ req[q].task # t
          BY <2>6 DEF HasCopy, At
        <4> QED BY <1>1, <2>1, <2>3, <2>11, <3>2, <4>1
                DEF MediaInv, PathsOK, PathOK, At, HasRow
      <3> QED BY <3>1, <3>2 DEF PathsOK
    <2> QED BY <2>4, <2>8, <2>9, <2>10, <2>12, <2>13 DEF MediaInv
  <1> QED BY <1>2, <1>3 DEF Insert

-----------------------------------------------------------------------------
(* Deletion *)

\* From here on the rows of S are doomed; their files may go or stay.
LEMMA UnlinkHolds ==
  ASSUME MediaInv, NEW r \in Request, NEW S \in SUBSET Task, \A t \in S : HasRow(t),
         Unlink(r, S)
  PROVE  MediaInv'
  <1> DEFINE x == [pc |-> "delete", tasks |-> S]
  <1>1. x \in Local
    BY DEF Local
  <1>2. At(r, "idle") /\ req' = [req EXCEPT ![r] = x]
    BY DEF Unlink, Take
  <1>3. req'[r] = x /\ \A q \in Request : q # r => req'[q] = req[q]
    BY <1>2 DEF MediaInv, Typing, LocalsOK
  <1>4. /\ UNCHANGED <<row, vod, day, cut>>
        /\ Fault \/ mediaFaults' = mediaFaults
        /\ disk' \in [Task -> SUBSET Day]
        /\ \A t \in Task : t \notin S => disk'[t] = disk[t]
    <2>1. PICK kept \in SUBSET S :
            disk' = [t \in Task |-> IF t \in S \ kept THEN disk[t] \ {row[t].file} ELSE disk[t]]
      BY DEF Unlink
    <2> QED BY <2>1 DEF Unlink, MediaInv, Typing, MediaTypeOK
  <1>5. Typing'
    BY <1>1, <1>2, <1>4, TypingHolds, RowsTyping, FaultsTyped
       DEF MediaInv, Typing, MediaTypeOK
  <1>6. FilesStay
    BY <1>2, <1>3, <1>4 DEF FilesStay, Doomed, At
  <1>7. InsertStays(r) /\ MetStays(r) /\ CopyStays(r) /\ PathOK(r)'
    BY <1>3 DEF InsertStays, MetStays, CopyStays, PathOK, Met, HasCopy, At
  <1> QED BY <1>3, <1>4, <1>5, <1>6, <1>7, SameRows DEF TasksStay

\* The doomed rows go; of the others only the source may change.
LEMMA DeleteRows ==
  ASSUME MediaInv, NEW r \in Request, Delete(r)
  PROVE  /\ row' \in [Task -> Media \cup {NoRow}]
         /\ \A t \in Task : HasRow(t)' =>
              /\ HasRow(t) /\ t \notin req[r].tasks
              /\ row'[t].status = row[t].status /\ row'[t].url = row[t].url
              /\ row'[t].file = row[t].file /\ row'[t].cost = row[t].cost
              /\ row'[t].shared = row[t].shared
  <1> DEFINE thin(t) == [row[t] EXCEPT !.source = @ \ req[r].tasks]
  <1>1. row' = [t \in Task |-> IF ~ HasRow(t) \/ t \in req[r].tasks THEN NoRow ELSE thin(t)]
    BY DEF Delete
  <1>2. ASSUME NEW t \in Task, HasRow(t)
        PROVE  /\ thin(t) \in Media /\ thin(t).status = row[t].status
               /\ thin(t).url = row[t].url /\ thin(t).file = row[t].file
               /\ thin(t).cost = row[t].cost /\ thin(t).shared = row[t].shared
    <2>1. row[t] \in Media
      BY <1>2, RowTyped DEF MediaInv, Typing
    <2> QED BY <2>1 DEF Media
  <1> HIDE DEF thin
  <1>3. row' \in [Task -> Media \cup {NoRow}]
    BY <1>1, <1>2
  <1>4. \A t \in Task : row'[t] = IF ~ HasRow(t) \/ t \in req[r].tasks THEN NoRow ELSE thin(t)
    BY <1>1
  <1> QED BY <1>2, <1>3, <1>4 DEF HasRow

LEMMA DeleteHolds ==
  ASSUME MediaInv, NEW r \in Request, Delete(r)
  PROVE  MediaInv'
  <1>1. At(r, "delete") /\ UNCHANGED <<disk, vod, day, mediaFaults, cut>>
    BY DEF Delete
  <1>2. req' = [req EXCEPT ![r] = NoCall]
    BY DEF Delete, Done
  <1>3. req'[r].pc = "idle" /\ \A q \in Request : q # r => req'[q] = req[q]
    BY <1>2 DEF MediaInv, Typing, LocalsOK, NoCall
  <1>4. Typing'
    BY <1>1, <1>2, DeleteRows, NoCallIsLocal, TypingHolds, RowsTyping
       DEF MediaInv, Typing, MediaTypeOK
  <1>5. TasksStay /\ NoNewRow /\ ChargesStay
    BY <1>1, DeleteRows DEF TasksStay, NoNewRow, ChargesStay
  <1>6. FilesStay
    BY <1>1, <1>3, DeleteRows DEF FilesStay, Doomed, At
  <1>7. ASSUME NEW q \in Request
        PROVE  InsertStays(q) /\ MetStays(q) /\ CopyStays(q) /\ PathOK(q)'
    <2>1. CASE q = r
      BY <1>3, <2>1 DEF InsertStays, MetStays, CopyStays, PathOK, Met, HasCopy, At
    <2>2. CASE q # r
      <3>1. PathOK(q)'
        BY <1>3, <1>4, <1>5, <1>6, <2>2, PathHolds
      <3> QED BY <1>3, <2>2, <3>1 DEF InsertStays, MetStays, CopyStays, Met, HasCopy, At
    <2> QED BY <2>1, <2>2
  <1>8. FileIsCharged' /\ ResultIsCharged'
    BY DeleteRows DEF MediaInv, FileIsCharged, ResultIsCharged
  <1>9. FileBacked'
    BY <1>5, <1>6, DeleteRows, BackedHolds
  <1> QED BY <1>4, <1>5, <1>7, <1>8, <1>9, BornOnceHolds, CopiesHold DEF MediaInv, PathsOK

-----------------------------------------------------------------------------
(* The environment *)

\* All requests end at once; a file that was being written may stay.
LEMMA CrashHolds ==
  ASSUME MediaInv, Crash
  PROVE  MediaInv'
  <1>1. \A r \in Request : req'[r] = NoCall /\ req'[r].pc = "idle"
    BY DEF Crash, NoCall
  <1>2. UNCHANGED <<row, vod, day>>
    BY DEF Crash
  <1>3. /\ disk' \in [Task -> SUBSET Day]
        /\ \A t \in Task : disk[t] \subseteq disk'[t]
    <2>1. ASSUME NEW r \in Request, At(r, "download")
          PROVE  /\ Written(r) \in [Task -> SUBSET Day]
                 /\ \A t \in Task : disk[t] \subseteq Written(r)[t]
      <3>1. req[r].task \in Task /\ req[r].path \in Day
        BY <2>1, LocalTyped DEF MediaInv, Typing, PathsOK, PathOK, At
      <3> QED BY <3>1 DEF Written, MediaInv, Typing, MediaTypeOK
    <2> QED BY <2>1 DEF Crash, MediaInv, Typing, MediaTypeOK
  <1>4. /\ cut' \in SUBSET Task /\ cut \subseteq cut'
        /\ \A r \in Request : At(r, "delete") => req[r].tasks \subseteq cut'
    <2>1. \A r \in Request : At(r, "delete") => req[r].tasks \in SUBSET Task
      BY LocalTyped DEF MediaInv, Typing
    <2>2. cut' = cut \cup UNION {req[r].tasks : r \in {q \in Request : At(q, "delete")}}
      BY DEF Crash, Cut
    <2> QED BY <2>1, <2>2 DEF MediaInv, Typing, MediaTypeOK
  <1>5. LocalsOK'
    BY NoCallIsLocal DEF LocalsOK, Crash
  <1>6. Typing'
    <2>1. mediaFaults' \in 0 .. MaxMediaFaults
      BY FaultsTyped DEF Crash
    <2> QED BY <1>2, <1>3, <1>4, <1>5, <2>1, RowsTyping DEF MediaInv, Typing, MediaTypeOK
  <1>7. TasksStay /\ NoNewRow /\ ChargesStay
    BY <1>2 DEF TasksStay, NoNewRow, ChargesStay, HasRow
  <1>8. FilesStay
    BY <1>3, <1>4 DEF FilesStay, Doomed
  <1>9. \A r \in Request : InsertStays(r) /\ MetStays(r) /\ CopyStays(r) /\ PathOK(r)'
    BY <1>1 DEF InsertStays, MetStays, CopyStays, PathOK, Met, HasCopy, At
  <1>10. FileIsCharged' /\ ResultIsCharged'
    BY <1>2 DEF MediaInv, FileIsCharged, ResultIsCharged, HasRow
  <1>11. FileBacked'
    BY <1>2, <1>7, <1>8, BackedHolds
  <1> QED BY <1>6, <1>7, <1>9, <1>10, <1>11, BornOnceHolds, CopiesHold DEF MediaInv, PathsOK

LEMMA WorldHolds ==
  ASSUME MediaInv, Progress \/ NextDay
  PROVE  MediaInv'
  <1>1. /\ UNCHANGED <<row, disk, req, mediaFaults, cut>>
        /\ day' \in Day
        /\ vod' \in [Task -> {"none", "waiting", "running", "done", "failed"}]
        /\ TasksStay
    BY MediaAssumption DEF Progress, NextDay, TasksStay, Day, MediaInv, Typing, MediaTypeOK
  <1>2. LocalsOK'
    BY <1>1 DEF MediaInv, Typing, LocalsOK
  <1>3. Typing'
    BY <1>1, <1>2, RowsTyping DEF MediaInv, Typing, MediaTypeOK
  <1>4. NoNewRow /\ ChargesStay
    BY <1>1 DEF NoNewRow, ChargesStay, HasRow
  <1>5. FilesStay
    BY <1>1 DEF FilesStay, Doomed, At
  <1>6. \A r \in Request : InsertStays(r) /\ MetStays(r) /\ CopyStays(r)
    BY <1>1 DEF InsertStays, MetStays, CopyStays, Met, HasCopy, At
  <1>7. PathsOK'
    BY <1>1, <1>3, <1>4, <1>5, PathHolds DEF PathsOK
  <1>8. FileIsCharged' /\ ResultIsCharged'
    BY <1>1 DEF MediaInv, FileIsCharged, ResultIsCharged, HasRow
  <1>9. FileBacked'
    BY <1>1, <1>4, <1>5, BackedHolds
  <1> QED BY <1>1, <1>3, <1>4, <1>6, <1>7, <1>8, <1>9, BornOnceHolds, CopiesHold DEF MediaInv

-----------------------------------------------------------------------------
(* The theorems *)

LEMMA MediaInitHolds == MediaInit => MediaInv
  <1> SUFFICES ASSUME MediaInit PROVE MediaInv
    OBVIOUS
  <1>1. \A r \in Request : req[r] = NoCall /\ req[r].pc = "idle"
    BY DEF MediaInit, NoCall
  <1>2. LocalsOK
    BY NoCallIsLocal DEF MediaInit, LocalsOK
  <1>3. MediaTypeOK
    <2>1. \A r \in Request : "path" \notin DOMAIN req[r]
      BY <1>1 DEF NoCall
    <2> QED BY <1>1, <2>1, MediaAssumption DEF MediaInit, MediaTypeOK, Day
  <1>4. \A t \in Task : ~ HasRow(t)
    BY DEF MediaInit, HasRow
  <1> QED BY <1>1, <1>2, <1>3, <1>4
          DEF MediaInv, Typing, BornOnce, CopiesOK, FileIsCharged, PathsOK, PathOK,
              FileBacked, ResultIsCharged, Met, HasCopy, At

LEMMA MediaStepHolds ==
  ASSUME MediaInv, NEW r \in Request, Step(r)
  PROVE  MediaInv'
  BY CreateTaskHolds, InsertHolds, ReadRowHolds, NoRowLeftHolds, DownloadHolds,
     UpdateHolds, FillHolds, ShareHolds, DeleteHolds DEF Step

LEMMA MediaBeginHolds ==
  ASSUME MediaInv, NEW r \in Request, Begin(r)
  PROVE  MediaInv'
  <1>1. CASE BeginFromPrompt(r)
    BY <1>1, BeginCreateHolds DEF BeginFromPrompt
  <1>2. ASSUME NEW t \in Task, BeginFromMedia(r, t) PROVE MediaInv'
    BY <1>2, BeginCreateHolds DEF BeginFromMedia
  <1>3. ASSUME NEW t \in Task, BeginDelete(r, t) PROVE MediaInv'
    BY <1>3, UnlinkHolds DEF BeginDelete
  <1>4. CASE CleanUp(r)
    BY <1>4, UnlinkHolds DEF CleanUp, Old
  <1> QED BY <1>1, <1>2, <1>3, <1>4, AskHolds, BeginShareHolds DEF Begin

LEMMA MediaNextHolds == MediaInv /\ [MediaNext]_mediaVars => MediaInv'
  <1> SUFFICES ASSUME MediaInv, [MediaNext]_mediaVars PROVE MediaInv'
    OBVIOUS
  <1>1. CASE UNCHANGED mediaVars
    BY <1>1 DEF mediaVars, MediaInv, Typing, MediaTypeOK, LocalsOK, BornOnce, CopiesOK,
         FileIsCharged, PathsOK, PathOK, FileBacked, ResultIsCharged, Met, HasCopy, At,
         HasRow, Doomed
  <1>2. ASSUME NEW r \in Request, Begin(r) \/ Step(r) \/ DownloadFails(r) \/ Fail(r)
        PROVE  MediaInv'
    BY <1>2, MediaBeginHolds, MediaStepHolds, DownloadHolds, FailHolds
  <1> QED BY <1>1, <1>2, CrashHolds, WorldHolds DEF MediaNext

\* A row that names a file has it on the disk, unless a deletion is removing
\* both or was cut off between the two: however many polls, downloads,
\* deletions, errors and crashes overlap (media_downloader.py, media_cleanup.py).
THEOREM RowsStayBacked == MediaSpec => []RowsAreBacked
  <1>1. MediaInv => RowsAreBacked
    BY DEF MediaInv, Typing, RowsAreBacked
  <1> QED BY <1>1, MediaInitHolds, MediaNextHolds, PTL DEF MediaSpec

\* No order of polls, late answers and failed downloads shows a result that
\* has not been charged (media_gen.py:523-541).
THEOREM ResultsAreCharged == MediaSpec => []ResultIsCharged
  <1>1. MediaInv => ResultIsCharged
    BY DEF MediaInv
  <1> QED BY <1>1, MediaInitHolds, MediaNextHolds, PTL DEF MediaSpec

\* What a row that outlives the step keeps.
RowsKeep ==
  \A t \in Task : HasRow(t) /\ row'[t] # NoRow =>
    /\ (row[t].cost = 1) => (row'[t].cost = 1)
    /\ (row[t].file # 0) => (row'[t].file # 0)
    /\ (row[t].shared # row'[t].shared) =>
         \E r \in Request : req[r].pc \in {"share", "unshare"} /\ req[r].task = t

\* An UPDATE whose new values differ from the copy only as the code's do keeps
\* charge and file, and sharing when it is not a share request's.
LEMMA FlushKeeps ==
  ASSUME MediaInv, NEW r \in Request, HasCopy(r), HasRow(req[r].task),
         NEW new \in Media, Flush(req[r].task, req[r].seen, new),
         new.cost # req[r].seen.cost => new.cost = 1,
         new.file # req[r].seen.file => new.file # 0,
         new.shared # req[r].seen.shared => req[r].pc \in {"share", "unshare"}
  PROVE  RowsKeep
  <1> DEFINE t == req[r].task
             seen == req[r].seen
             to == Merged(row[t], seen, new)
  <1>1. t \in Task /\ seen \in Media /\ row[t] \in Media
    BY LocalTyped, RowTyped DEF MediaInv, Typing, HasCopy
  <1>2. row'[t] = to /\ \A u \in Task : u # t => row'[u] = row[u]
    BY <1>1, FlushRow DEF MediaInv, Typing
  <1>3. /\ to.file = IF new.file # seen.file THEN new.file ELSE row[t].file
        /\ to.cost = IF new.cost # seen.cost THEN new.cost ELSE row[t].cost
        /\ to.shared = IF new.shared # seen.shared THEN new.shared ELSE row[t].shared
    BY <1>1, MergedTyped
  <1> HIDE DEF to
  <1> QED BY <1>1, <1>2, <1>3 DEF RowsKeep

LEMMA StepKeepsRows == MediaInv /\ [MediaNext]_mediaVars => RowsKeep
  <1> SUFFICES ASSUME MediaInv, [MediaNext]_mediaVars PROVE RowsKeep
    OBVIOUS
  <1>0. row' = row => RowsKeep
    BY DEF RowsKeep
  <1>1. ASSUME NEW r \in Request, Insert(r) PROVE RowsKeep
    <2>1. req[r].task \in Task /\ ~ HasRow(req[r].task)
      BY <1>1, LocalTyped DEF Insert, At, MediaInv, Typing, BornOnce
    <2>2. \A t \in Task : t # req[r].task => row'[t] = row[t]
      BY <1>1, <2>1 DEF Insert, MediaInv, Typing, MediaTypeOK
    <2> QED BY <2>1, <2>2 DEF RowsKeep
  <1>2. ASSUME NEW r \in Request, Update(r) PROVE RowsKeep
    <2>1. HasCopy(r) /\ req[r].seen \in Media /\ req[r].ans \in Answers
      BY <1>2, LocalTyped DEF Update, HasCopy, At, MediaInv, Typing
    <2> QED BY <1>2, <2>1, ToldTyped, FlushKeeps DEF Update
  <1>3. ASSUME NEW r \in Request, Fill(r) PROVE RowsKeep
    <2> DEFINE new == [Told(req[r]) EXCEPT !.cost = 1, !.file = req[r].path]
               one == [Told(req[r]) EXCEPT !.cost = 1]
    <2>1. /\ HasCopy(r) /\ req[r].seen \in Media /\ req[r].ans \in Answers
          /\ req[r].path \in 0 .. MaxDay /\ req[r].seen.file = 0
      BY <1>3, LocalTyped DEF Fill, HasCopy, At, MediaInv, Typing, PathsOK, PathOK
    <2>2. Told(req[r]) \in Media /\ Told(req[r]).shared = req[r].seen.shared
      BY <2>1, ToldTyped
    <2>3. one \in Media /\ one.cost = 1 /\ one.shared = req[r].seen.shared
      BY <2>2 DEF Media
    <2>4. new = [one EXCEPT !.file = req[r].path]
      BY <2>2 DEF Media
    <2> HIDE DEF one
    <2>5. /\ new \in Media /\ new.cost = 1 /\ new.file = req[r].path
          /\ new.shared = req[r].seen.shared
      BY <2>1, <2>3, <2>4 DEF Media
    <2>6. HasRow(req[r].task) /\ Flush(req[r].task, req[r].seen, new)
      BY <1>3 DEF Fill
    <2> HIDE DEF new
    <2> QED BY <2>1, <2>5, <2>6, FlushKeeps
  <1>4. ASSUME NEW r \in Request, Share(r) PROVE RowsKeep
    <2> DEFINE new == [req[r].seen EXCEPT !.shared = At(r, "share")]
    <2>1. HasCopy(r) /\ req[r].seen \in Media
      BY <1>4, LocalTyped DEF Share, HasCopy, MediaInv, Typing
    <2>2. new \in Media /\ new.file = req[r].seen.file /\ new.cost = req[r].seen.cost
      BY <2>1 DEF Media, At
    <2>3. HasRow(req[r].task) /\ Flush(req[r].task, req[r].seen, new)
          /\ req[r].pc \in {"share", "unshare"}
      BY <1>4 DEF Share
    <2> HIDE DEF new
    <2> QED BY <2>1, <2>2, <2>3, FlushKeeps
  <1>5. ASSUME NEW r \in Request, Delete(r) PROVE RowsKeep
    BY <1>5, DeleteRows DEF RowsKeep, HasRow
  <1>6. ASSUME NEW r \in Request, Begin(r) PROVE row' = row
    BY <1>6 DEF Begin, BeginFromPrompt, BeginFromMedia, Ask, BeginShare, BeginDelete,
         CleanUp, Unlink
  <1>7. ASSUME NEW r \in Request, \/ CreateTask(r) \/ ReadRow(r) \/ NoRowLeft(r)
                                  \/ Download(r) \/ DownloadFails(r) \/ Fail(r)
        PROVE row' = row
    BY <1>7 DEF CreateTask, ReadRow, NoRowLeft, Download, DownloadFails, Fail
  <1>8. CASE Progress \/ NextDay \/ Crash \/ UNCHANGED mediaVars
    BY <1>0, <1>8 DEF Progress, NextDay, Crash, mediaVars
  <1> QED BY <1>0, <1>1, <1>2, <1>3, <1>4, <1>5, <1>6, <1>7, <1>8 DEF MediaNext, Step

\* Polls, shares and deletions that overlap never take back a charge or a
\* file, and only a request to share or unshare changes what is shared: the
\* UPDATE of a request writes the columns that differ from its copy.
THEOREM RequestsUndoNothing == MediaSpec => NothingUndone
  <1>1. MediaInv /\ [MediaNext]_mediaVars => [RowsKeep]_mediaVars
    BY StepKeepsRows
  <1> QED BY <1>1, MediaInitHolds, MediaNextHolds, PTL
          DEF MediaSpec, NothingUndone, RowsKeep
=============================================================================
