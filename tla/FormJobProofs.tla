---------------------------- MODULE FormJobProofs ----------------------------
(***************************************************************************)
(* What holds of form jobs for any number of jobs, variables, sources and  *)
(* requests, any number of answers of the model, errors and restarts:      *)
(* ReviewHolds, AllMapped and TerminalStays.                               *)
(*                                                                         *)
(* A request commits what it decided on earlier, so the invariant says     *)
(* what its decision is still worth: a job that is being rendered has been *)
(* in review (ReviewOrder), a row that was read is not unmade (EditsOK),   *)
(* and, as long as no two requests have overlapped, what was read is what  *)
(* is there (SoloFresh).                                                   *)
(***************************************************************************)
EXTENDS FormJob, TLAPS

-----------------------------------------------------------------------------
(* The inductive invariant *)

FullRow ==
  [id : 1 .. MaxSaid, value : Value, source : Source \cup {None}, confirmed : BOOLEAN]
JobRow == [status : Status \cup {"none"}, output : BOOLEAN]

\* What a request holds, by what it is at.
Local ==
  UNION {
    [pc : {"idle"}],
    [pc : {"source"}, job : Job, src : Source],
    [pc : {"exclude"}, src : Source, to : BOOLEAN],
    [pc : {"cleanup"}, srcs : SUBSET Source],
    [pc : {"map"}, job : Job, seen : Status],
    [pc : {"ask", "fail"}, job : Job],
    [pc : {"purge"}, job : Job, rows : [Variable -> FullRow]],
    [pc : {"store"}, job : Job, rows : [Variable -> FullRow],
     old : [Variable -> 0 .. MaxSaid]],
    [pc : {"answered"}, job : Job, var : Variable, new : FullRow],
    [pc : {"patch", "regenerate"}, job : Job, var : Variable, seen : Row, new : FullRow],
    [pc : {"render"}, job : Job, seen : JobRow, save : BOOLEAN] }

LocalsOK == req \in [Request -> Local]

\* A job is rendered, or completed, after a review only.
JobsReviewed ==
  \A j \in Job : job[j].status \in {"reviewing", "completed"} => j \in reviewed
RenderOK(r) == At(r, "render") => req[r].job \in reviewed
ReviewOrder == JobsReviewed /\ \A r \in Request : RenderOK(r)

\* The first run leaves a row for every variable, and none goes after that.
RowsComplete == \A j \in reviewed : \A v \in Variable : HasRow(mapping[j][v])

\* An answer is never confirmed, and an edit keeps the id of the row it read.
EditOK(r) ==
  /\ req[r].pc \in {"purge", "store"} => \A v \in Variable : ~ req[r].rows[v].confirmed
  /\ req[r].pc \in {"answered", "regenerate"} => ~ req[r].new.confirmed
  /\ At(r, "patch") => HasRow(req[r].seen)
  /\ req[r].pc \in {"patch", "regenerate"} /\ HasRow(req[r].seen) =>
       req[r].new.id = req[r].seen.id
EditsOK == \A r \in Request : EditOK(r)

\* As long as no two requests have overlapped, one is at work at most, and
\* what it has read still holds.
Solo == alone => \A p, q \in Request : At(p, "idle") \/ At(q, "idle") \/ p = q
FreshOK(r) ==
  /\ At(r, "map") => /\ job[req[r].job].status = req[r].seen
                     /\ req[r].seen \in {"collecting", "mapping"}
  /\ req[r].pc \in {"ask", "purge", "store", "fail"} => job[req[r].job].status = "mapping"
  /\ req[r].pc \in {"patch", "regenerate"} => mapping[req[r].job][req[r].var] = req[r].seen
  /\ At(r, "render") => /\ job[req[r].job] = req[r].seen
                        /\ req[r].seen.status \in {"reviewing", "completed"}
SoloFresh == alone => \A r \in Request : FreshOK(r)

\* A confirmed value is one a reviewer has typed or confirmed.
ConfirmedIsKnown ==
  alone => \A j \in Job, v \in Variable :
    HasRow(mapping[j][v]) /\ mapping[j][v].confirmed => mapping[j][v].value \in known \cup {0}

Typing == TypeOK /\ LocalsOK
FormInv ==
  /\ Typing /\ ReviewOrder /\ RowsComplete /\ EditsOK
  /\ Solo /\ SoloFresh /\ ConfirmedIsKnown /\ DocumentReviewed

-----------------------------------------------------------------------------
(* Typing *)

LEMMA RowTyped ==
  /\ Row = {NoRow} \cup FullRow
  /\ ~ HasRow(NoRow) /\ NoRow.id = 0
  /\ \A x \in FullRow : HasRow(x) /\ x \in Row
  /\ \A x \in Row : HasRow(x) => x \in FullRow
  /\ \A x \in Row : x.id \in 0 .. MaxSaid
  BY FormAssumption DEF Row, FullRow, NoRow, HasRow

LEMMA LocalTyped ==
  ASSUME LocalsOK, NEW r \in Request
  PROVE  /\ req[r].pc \in {"idle", "source", "exclude", "cleanup", "map", "ask", "fail",
                           "purge", "store", "answered", "patch", "regenerate", "render"}
         /\ req[r].pc \in {"source", "exclude"} => req[r].src \in Source
         /\ At(r, "exclude") => req[r].to \in BOOLEAN
         /\ At(r, "cleanup") => req[r].srcs \in SUBSET Source
         /\ req[r].pc \in {"source", "map", "ask", "fail", "purge", "store", "answered",
                           "patch", "regenerate", "render"} => req[r].job \in Job
         /\ At(r, "map") => req[r].seen \in Status
         /\ req[r].pc \in {"purge", "store"} => req[r].rows \in [Variable -> FullRow]
         /\ At(r, "store") => req[r].old \in [Variable -> 0 .. MaxSaid]
         /\ req[r].pc \in {"answered", "patch", "regenerate"} =>
              req[r].var \in Variable /\ req[r].new \in FullRow
         /\ req[r].pc \in {"patch", "regenerate"} => req[r].seen \in Row
         /\ At(r, "render") => req[r].seen \in JobRow /\ req[r].save \in BOOLEAN
  <1>1. req[r] \in Local
    BY DEF LocalsOK
  <1> QED BY <1>1 DEF Local, At

LEMMA NextTyped ==
  ASSUME LocalsOK', NEW r \in Request
  PROVE  req'[r].pc \in {"source", "map", "ask", "fail", "purge", "store", "answered",
                         "patch", "regenerate", "render"} => req'[r].job \in Job
  <1>1. req'[r] \in Local
    BY DEF LocalsOK
  <1> QED BY <1>1 DEF Local

LEMMA IdleIsLocal == Idle \in Local /\ Idle.pc = "idle"
  BY DEF Idle, Local

\* A request that goes on to the locals x.
LEMMA GoesOn ==
  ASSUME LocalsOK, NEW r \in Request, NEW x \in Local, req' = [req EXCEPT ![r] = x]
  PROVE  LocalsOK' /\ req'[r] = x /\ \A q \in Request : q # r => req'[q] = req[q]
  BY DEF LocalsOK

LEMMA SourceRowTyped ==
  /\ NoRow \in SourceRow /\ Gone \in SourceRow
  /\ \A x \in SourceRow : HasRow(x) =>
       x \in [id : {1}, job : Job, excluded : BOOLEAN, old : BOOLEAN]
  BY DEF SourceRow, NoRow, Gone, HasRow

-----------------------------------------------------------------------------
(* A step of one request *)

OthersStay(r) == \A q \in Request : q # r => req'[q] = req[q]

\* A request begins, which ends the time without overlaps if another one is at
\* work, or goes on.
Turn(r) ==
  \/ ~ At(r, "idle") /\ alone' = alone
  \/ At(r, "idle") /\ alone' = (alone /\ \A q \in Request : At(q, "idle"))

\* As long as no two have overlapped, the others are idle.
LEMMA OthersIdle ==
  ASSUME FormInv, NEW r \in Request, Turn(r), OthersStay(r), alone'
  PROVE  alone /\ \A q \in Request : q # r => At(q, "idle") /\ At(q, "idle")'
  BY DEF FormInv, Typing, TypeOK, Solo, Turn, OthersStay, At

\* The invariant after a step of r: what it says of the other requests it says
\* whatever r does to the job and its rows.
LEMMA RequestHolds ==
  ASSUME FormInv, Typing', NEW r \in Request, OthersStay(r), Turn(r),
         reviewed \subseteq reviewed', JobsReviewed', RowsComplete',
         ConfirmedIsKnown', DocumentReviewed',
         RenderOK(r)', EditOK(r)', alone' => FreshOK(r)'
  PROVE  FormInv'
  <1>1. \A q \in Request : RenderOK(q)' /\ EditOK(q)'
    BY DEF FormInv, ReviewOrder, RenderOK, EditsOK, EditOK, OthersStay, At
  <1>2. Solo'
    BY OthersIdle DEF Solo, At
  <1>3. SoloFresh'
    <2> SUFFICES ASSUME alone', NEW q \in Request PROVE FreshOK(q)'
      BY DEF SoloFresh
    <2>1. q = r \/ At(q, "idle")'
      BY OthersIdle
    <2> QED BY <2>1 DEF FreshOK, At
  <1> QED BY <1>1, <1>2, <1>3 DEF FormInv, ReviewOrder, EditsOK

\* The usual case: jobs, rows and document stay as they are.
LEMMA QuietStep ==
  ASSUME FormInv, Typing', NEW r \in Request, OthersStay(r), Turn(r),
         UNCHANGED <<job, mapping, doc, known, reviewed>>,
         RenderOK(r)', EditOK(r)', alone' => FreshOK(r)'
  PROVE  FormInv'
  <1>1. alone' => alone
    BY OthersIdle
  <1>2. JobsReviewed' /\ RowsComplete' /\ ConfirmedIsKnown' /\ DocumentReviewed'
    BY <1>1 DEF FormInv, ReviewOrder, JobsReviewed, RowsComplete, ConfirmedIsKnown,
                DocumentReviewed
  <1> QED BY <1>2, RequestHolds

LEMMA TakeIsATurn ==
  ASSUME FormInv, NEW r \in Request, NEW x \in Local, Take(r, x)
  PROVE  /\ LocalsOK' /\ req'[r] = x /\ OthersStay(r) /\ Turn(r)
         /\ At(r, "idle") /\ alone' \in BOOLEAN
  <1>1. req' = [req EXCEPT ![r] = x] /\ At(r, "idle")
    BY DEF Take
  <1> QED BY <1>1, GoesOn DEF FormInv, Typing, TypeOK, Take, OthersStay, Turn

\* A request that is over leaves nothing to say of it.
LEMMA DoneIsATurn ==
  ASSUME FormInv, NEW r \in Request, ~ At(r, "idle"), Done(r), alone' = alone
  PROVE  /\ LocalsOK' /\ req'[r] = Idle /\ OthersStay(r) /\ Turn(r)
         /\ RenderOK(r)' /\ EditOK(r)' /\ FreshOK(r)'
  <1>1. LocalsOK' /\ req'[r] = Idle /\ OthersStay(r)
    BY IdleIsLocal, GoesOn DEF Done, FormInv, Typing, OthersStay
  <1> QED BY <1>1, IdleIsLocal DEF Turn, RenderOK, EditOK, FreshOK, At

-----------------------------------------------------------------------------
(* Jobs and sources *)

LEMMA CreateJobHolds ==
  ASSUME FormInv, NEW j \in Job, CreateJob(j)
  PROVE  FormInv'
  <1>1. /\ job[j].status = "none" /\ UNCHANGED <<src, stored, mapping, doc, req,
                                                           said, faults, hist>>
        /\ job' \in [Job -> JobRow] /\ job'[j].status = "collecting"
        /\ \A i \in Job : i # j => job'[i] = job[i]
    BY DEF CreateJob, FormInv, Typing, TypeOK, JobRow, Status
  <1>2. Typing'
    BY <1>1 DEF FormInv, Typing, TypeOK, LocalsOK, hist, JobRow
  <1>3. ReviewOrder'
    BY <1>1 DEF FormInv, ReviewOrder, JobsReviewed, RenderOK, At, hist
  <1>4. SoloFresh'
    <2> SUFFICES ASSUME alone, NEW r \in Request PROVE FreshOK(r)'
      BY <1>1 DEF SoloFresh, hist
    <2>1. FreshOK(r)
      BY DEF FormInv, SoloFresh
    <2>2. req[r].pc \in {"map", "ask", "purge", "store", "fail", "render"} =>
            req[r].job \in Job /\ req[r].job # j
      <3>1. req[r].pc \in {"map", "ask", "purge", "store", "fail", "render"} => req[r].job \in Job
        BY LocalTyped DEF FormInv, Typing
      <3> QED BY <1>1, <2>1, <3>1 DEF FreshOK, At
    <2> QED BY <1>1, <2>1, <2>2 DEF FreshOK, At
  <1>5. EditsOK' /\ Solo'
    BY <1>1 DEF FormInv, EditsOK, EditOK, Solo, At, hist
  <1> QED BY <1>1, <1>2, <1>3, <1>4, <1>5
          DEF FormInv, RowsComplete, ConfirmedIsKnown, DocumentReviewed, hist

LEMMA AgeHolds ==
  ASSUME FormInv, NEW s \in Source, Age(s)
  PROVE  FormInv'
  <1>1. /\ UNCHANGED <<job, stored, mapping, doc, req, said, faults, hist>>
        /\ src' \in [Source -> SourceRow]
    <2>0. src[s] \in [id : {1}, job : Job, excluded : BOOLEAN, old : BOOLEAN]
      BY SourceRowTyped DEF Age, FormInv, Typing, TypeOK
    <2>1. [src[s] EXCEPT !.old = TRUE] \in SourceRow
      BY <2>0 DEF SourceRow
    <2> QED BY <2>1 DEF Age, FormInv, Typing, TypeOK
  <1> QED BY <1>1
          DEF FormInv, Typing, TypeOK, LocalsOK, ReviewOrder, JobsReviewed, RenderOK, EditsOK,
              EditOK, Solo, SoloFresh, FreshOK, RowsComplete, ConfirmedIsKnown,
              DocumentReviewed, At, hist

LEMMA BeginSourceHolds ==
  ASSUME FormInv, NEW r \in Request, NEW j \in Job, NEW s \in Source, BeginSource(r, j, s)
  PROVE  FormInv'
  <1> DEFINE x == [pc |-> "source", job |-> j, src |-> s]
  <1>1. x \in Local /\ Take(r, x)
    BY DEF Local, BeginSource
  <1>2. /\ LocalsOK' /\ req'[r] = x /\ OthersStay(r) /\ Turn(r) /\ alone' \in BOOLEAN
    BY <1>1, TakeIsATurn
  <1>3. Typing'
    BY <1>2 DEF FormInv, Typing, TypeOK, BeginSource, db
  <1>4. RenderOK(r)' /\ EditOK(r)' /\ FreshOK(r)'
    BY <1>2 DEF RenderOK, EditOK, FreshOK, At
  <1> HIDE DEF x
  <1> QED BY <1>2, <1>3, <1>4, QuietStep DEF BeginSource, db

LEMMA BeginExcludeHolds ==
  ASSUME FormInv, NEW r \in Request, NEW s \in Source, BeginExclude(r, s)
  PROVE  FormInv'
  <1> DEFINE x == [pc |-> "exclude", src |-> s, to |-> ~ src[s].excluded]
  <1>1. x \in Local /\ Take(r, x)
    BY SourceRowTyped DEF Local, BeginExclude, FormInv, Typing, TypeOK
  <1>2. /\ LocalsOK' /\ req'[r] = x /\ OthersStay(r) /\ Turn(r) /\ alone' \in BOOLEAN
    BY <1>1, TakeIsATurn
  <1>3. Typing'
    BY <1>2 DEF FormInv, Typing, TypeOK, BeginExclude, db
  <1>4. RenderOK(r)' /\ EditOK(r)' /\ FreshOK(r)'
    BY <1>2 DEF RenderOK, EditOK, FreshOK, At
  <1> HIDE DEF x
  <1> QED BY <1>2, <1>3, <1>4, QuietStep DEF BeginExclude, db

LEMMA BeginCleanupHolds ==
  ASSUME FormInv, NEW r \in Request, BeginCleanup(r)
  PROVE  FormInv'
  <1> DEFINE S == {s \in Upload : HasRow(src[s]) /\ src[s].old}
             x == [pc |-> "cleanup", srcs |-> S]
  <1>1. x \in Local /\ Take(r, x)
    BY FormAssumption DEF Local, BeginCleanup
  <1>2. /\ LocalsOK' /\ req'[r] = x /\ OthersStay(r) /\ Turn(r) /\ alone' \in BOOLEAN
    BY <1>1, TakeIsATurn
  <1>3. Typing'
    BY <1>2 DEF FormInv, Typing, TypeOK, BeginCleanup, db
  <1>4. RenderOK(r)' /\ EditOK(r)' /\ FreshOK(r)'
    BY <1>2 DEF RenderOK, EditOK, FreshOK, At
  <1> HIDE DEF x
  <1> QED BY <1>2, <1>3, <1>4, QuietStep DEF BeginCleanup, db

LEMMA SourceStepHolds ==
  ASSUME FormInv, NEW r \in Request, AddSource(r) \/ Exclude(r)
  PROVE  FormInv'
  <1>1. /\ ~ At(r, "idle") /\ Done(r)
        /\ UNCHANGED <<job, stored, mapping, doc, said, faults, hist>>
    BY DEF AddSource, Exclude, At
  <1>2. /\ LocalsOK' /\ req'[r] = Idle /\ OthersStay(r) /\ Turn(r)
        /\ RenderOK(r)' /\ EditOK(r)' /\ FreshOK(r)'
    BY <1>1, DoneIsATurn DEF hist
  <1>3. src' \in [Source -> SourceRow]
    <2>1. CASE AddSource(r)
      <3>1. req[r].src \in Source /\ req[r].job \in Job
        BY <2>1, LocalTyped DEF AddSource, At, FormInv, Typing
      <3>2. [id |-> 1, job |-> req[r].job, excluded |-> FALSE, old |-> FALSE] \in SourceRow
        BY <3>1 DEF SourceRow
      <3> QED BY <2>1, <3>1, <3>2 DEF AddSource, FormInv, Typing, TypeOK
    <2>2. CASE Exclude(r)
      <3>1. req[r].src \in Source /\ req[r].to \in BOOLEAN
        BY <2>2, LocalTyped DEF Exclude, At, FormInv, Typing
      <3>2. HasRow(src[req[r].src]) =>
              [src[req[r].src] EXCEPT !.excluded = req[r].to] \in SourceRow
        BY <3>1, SourceRowTyped DEF FormInv, Typing, TypeOK, SourceRow
      <3> QED BY <2>2, <3>1, <3>2 DEF Exclude, FormInv, Typing, TypeOK
    <2> QED BY <2>1, <2>2
  <1>4. Typing'
    BY <1>1, <1>2, <1>3 DEF FormInv, Typing, TypeOK, hist
  <1> QED BY <1>1, <1>2, <1>4, QuietStep DEF hist

\* The rows of a deleted source lose it and nothing else.
LEMMA OrphanedRows ==
  ASSUME FormInv, NEW S
  PROVE  /\ Orphaned(S) \in [Job -> [Variable -> Row]]
         /\ \A j \in Job, v \in Variable :
              /\ HasRow(Orphaned(S)[j][v]) <=> HasRow(mapping[j][v])
              /\ HasRow(mapping[j][v]) =>
                   /\ Orphaned(S)[j][v].confirmed = mapping[j][v].confirmed
                   /\ Orphaned(S)[j][v].value = mapping[j][v].value
  <1> DEFINE to(j, v) == IF HasRow(mapping[j][v]) /\ mapping[j][v].source \in S
                         THEN [mapping[j][v] EXCEPT !.source = None] ELSE mapping[j][v]
  <1>1. ASSUME NEW j \in Job, NEW v \in Variable
        PROVE  /\ to(j, v) \in Row
               /\ HasRow(to(j, v)) <=> HasRow(mapping[j][v])
               /\ HasRow(mapping[j][v]) => /\ to(j, v).confirmed = mapping[j][v].confirmed
                                           /\ to(j, v).value = mapping[j][v].value
    <2>1. mapping[j][v] \in Row
      BY DEF FormInv, Typing, TypeOK
    <2>2. CASE HasRow(mapping[j][v])
      <3>1. mapping[j][v] \in FullRow
        BY <2>1, <2>2, RowTyped
      <3>2. [mapping[j][v] EXCEPT !.source = None] \in FullRow
        BY <3>1 DEF FullRow
      <3>3. to(j, v) \in FullRow
        BY <3>1, <3>2
      <3> QED BY <2>2, <3>1, <3>3, RowTyped DEF FullRow
    <2>3. CASE ~ HasRow(mapping[j][v])
      BY <2>1, <2>3
    <2> QED BY <2>2, <2>3
  <1>2. Orphaned(S) = [j \in Job |-> [v \in Variable |-> to(j, v)]]
    BY DEF Orphaned
  <1> HIDE DEF to
  <1> QED BY <1>1, <1>2

LEMMA CleanupHolds ==
  ASSUME FormInv, NEW r \in Request, Cleanup(r)
  PROVE  FormInv'
  <1>1. /\ ~ At(r, "idle") /\ Done(r) /\ UNCHANGED <<job, stored, doc, said, faults, hist>>
    BY DEF Cleanup, At
  <1>2. /\ LocalsOK' /\ req'[r] = Idle /\ OthersStay(r) /\ Turn(r)
        /\ RenderOK(r)' /\ EditOK(r)' /\ FreshOK(r)'
    BY <1>1, DoneIsATurn DEF hist
  <1>3. /\ mapping' \in [Job -> [Variable -> Row]]
        /\ src' \in [Source -> SourceRow]
        /\ \A j \in Job, v \in Variable :
             /\ HasRow(mapping'[j][v]) <=> HasRow(mapping[j][v])
             /\ HasRow(mapping[j][v]) => /\ mapping'[j][v].confirmed = mapping[j][v].confirmed
                                         /\ mapping'[j][v].value = mapping[j][v].value
    <2>1. CASE /\ mapping' = Orphaned(req[r].srcs)
               /\ src' = [s \in Source |-> IF s \in req[r].srcs THEN Gone ELSE src[s]]
      BY <2>1, OrphanedRows, SourceRowTyped DEF FormInv, Typing, TypeOK
    <2>2. CASE UNCHANGED <<mapping, src>>
      BY <2>2 DEF FormInv, Typing, TypeOK
    <2> QED BY <2>1, <2>2 DEF Cleanup
  <1>4. Typing'
    BY <1>1, <1>2, <1>3 DEF FormInv, Typing, TypeOK, hist
  <1>5. JobsReviewed' /\ RowsComplete' /\ ConfirmedIsKnown' /\ DocumentReviewed'
    BY <1>1, <1>3 DEF FormInv, Typing, TypeOK, ReviewOrder, JobsReviewed, RowsComplete,
                      ConfirmedIsKnown, DocumentReviewed, hist, HasRow
  <1> QED BY <1>1, <1>2, <1>4, <1>5, RequestHolds DEF hist

-----------------------------------------------------------------------------
(* run_mapping *)

LEMMA MayBecomeOnly ==
  ASSUME NEW from \in Status
  PROVE  /\ MayBecome(from, "mapping") => from \in {"collecting", "mapping"}
         /\ MayBecome(from, "completed") => from \in {"reviewing", "completed"}
  BY DEF MayBecome, Allowed, Status

LEMMA BeginMappingHolds ==
  ASSUME FormInv, NEW r \in Request, NEW j \in Job, BeginMapping(r, j)
  PROVE  FormInv'
  <1> DEFINE x == [pc |-> "map", job |-> j, seen |-> job[j].status]
  <1>1. job[j].status \in Status
    BY DEF BeginMapping, Exists, FormInv, Typing, TypeOK
  <1>2. x \in Local /\ Take(r, x)
    BY <1>1 DEF Local, BeginMapping
  <1>3. /\ LocalsOK' /\ req'[r] = x /\ OthersStay(r) /\ Turn(r) /\ alone' \in BOOLEAN
    BY <1>2, TakeIsATurn
  <1>4. Typing'
    BY <1>3 DEF FormInv, Typing, TypeOK, BeginMapping, db
  <1>5. job[j].status \in {"collecting", "mapping"}
    BY <1>1, MayBecomeOnly DEF BeginMapping
  <1>6. RenderOK(r)' /\ EditOK(r)' /\ FreshOK(r)'
    BY <1>3, <1>5 DEF RenderOK, EditOK, FreshOK, At, BeginMapping, db
  <1> HIDE DEF x
  <1> QED BY <1>3, <1>4, <1>6, QuietStep DEF BeginMapping, db

\* A request sets the status of its job to one that asks for no review.
LEMMA StatusSet ==
  ASSUME FormInv, NEW j \in Job, NEW to \in {"mapping", "failed"},
         job' = job \/ job' = [job EXCEPT ![j].status = to],
         UNCHANGED <<mapping, doc, hist>>
  PROVE  /\ job' \in [Job -> JobRow]
         /\ JobsReviewed' /\ RowsComplete' /\ ConfirmedIsKnown' /\ DocumentReviewed'
  <1>1. /\ job' \in [Job -> JobRow]
        /\ \A i \in Job : job'[i].status \in {job[i].status, to}
    <2>1. [job[j] EXCEPT !.status = to] \in JobRow /\ [job[j] EXCEPT !.status = to].status = to
      BY DEF FormInv, Typing, TypeOK, JobRow, Status
    <2>2. job \in [Job -> JobRow]
      BY DEF FormInv, Typing, TypeOK, JobRow
    <2> QED BY <2>1, <2>2
  <1> QED BY <1>1 DEF FormInv, ReviewOrder, JobsReviewed, RowsComplete, ConfirmedIsKnown,
                      DocumentReviewed, hist

LEMMA SetMappingHolds ==
  ASSUME FormInv, NEW r \in Request, SetMapping(r)
  PROVE  FormInv'
  <1> DEFINE j == req[r].job
             x == [pc |-> "ask", job |-> j]
  <1>1. j \in Job /\ At(r, "map") /\ ~ At(r, "idle")
    BY LocalTyped DEF SetMapping, At, FormInv, Typing
  <1>2. x \in Local /\ req' = [req EXCEPT ![r] = x]
    BY <1>1 DEF Local, SetMapping, FormInv, Typing, LocalsOK
  <1>3. LocalsOK' /\ req'[r] = x /\ OthersStay(r) /\ Turn(r)
    BY <1>1, <1>2, GoesOn DEF FormInv, Typing, OthersStay, Turn, SetMapping, hist
  <1>4. /\ UNCHANGED <<src, stored, mapping, doc, said, faults, hist>>
        /\ job' = IF req[r].seen = "mapping" THEN job ELSE [job EXCEPT ![j].status = "mapping"]
    BY DEF SetMapping, SetStatus
  <1>5. /\ job' \in [Job -> JobRow]
        /\ JobsReviewed' /\ RowsComplete' /\ ConfirmedIsKnown' /\ DocumentReviewed'
    BY <1>1, <1>4, StatusSet
  <1>6. Typing'
    BY <1>3, <1>4, <1>5 DEF FormInv, Typing, TypeOK, JobRow, hist
  <1>7. RenderOK(r)' /\ EditOK(r)'
    BY <1>3 DEF RenderOK, EditOK, At
  <1>8. alone' => FreshOK(r)'
    <2> SUFFICES ASSUME alone PROVE job'[j].status = "mapping"
      BY <1>3, <1>4 DEF FreshOK, At, hist
    <2>1. job[j].status = req[r].seen
      BY <1>1 DEF FormInv, SoloFresh, FreshOK
    <2> QED BY <1>1, <1>4, <2>1 DEF FormInv, Typing, TypeOK
  <1> HIDE DEF x
  <1> QED BY <1>3, <1>4, <1>5, <1>6, <1>7, <1>8, RequestHolds DEF hist

LEMMA SetFailedHolds ==
  ASSUME FormInv, NEW r \in Request, SetFailed(r)
  PROVE  FormInv'
  <1>1. req[r].job \in Job /\ ~ At(r, "idle") /\ Done(r)
        /\ UNCHANGED <<src, stored, mapping, doc, said, faults, hist>>
    BY LocalTyped DEF SetFailed, At, FormInv, Typing
  <1>2. /\ LocalsOK' /\ req'[r] = Idle /\ OthersStay(r) /\ Turn(r)
        /\ RenderOK(r)' /\ EditOK(r)' /\ FreshOK(r)'
    BY <1>1, DoneIsATurn DEF hist
  <1>3. /\ job' \in [Job -> JobRow]
        /\ JobsReviewed' /\ RowsComplete' /\ ConfirmedIsKnown' /\ DocumentReviewed'
    BY <1>1, StatusSet DEF SetFailed
  <1>4. Typing'
    BY <1>1, <1>2, <1>3 DEF FormInv, Typing, TypeOK, JobRow, hist
  <1> QED BY <1>1, <1>2, <1>3, <1>4, RequestHolds DEF hist

\* The request gives up: no source to map, an error.
LEMMA EndHolds ==
  ASSUME FormInv, NEW r \in Request, NothingToMap(r) \/ Fail(r)
  PROVE  FormInv'
  <1>1. ~ At(r, "idle") /\ Done(r) /\ UNCHANGED <<db, stored, doc, said, hist>>
        /\ faults' \in 0 .. MaxFault
    BY FormAssumption DEF NothingToMap, Fail, At, FormInv, Typing, TypeOK
  <1>2. /\ LocalsOK' /\ req'[r] = Idle /\ OthersStay(r) /\ Turn(r)
        /\ RenderOK(r)' /\ EditOK(r)' /\ FreshOK(r)'
    BY <1>1, DoneIsATurn DEF hist
  <1>3. Typing'
    BY <1>1, <1>2 DEF FormInv, Typing, TypeOK, db, hist
  <1> QED BY <1>1, <1>2, <1>3, QuietStep DEF db, hist

LEMMA AnswersTyped ==
  ASSUME FormInv, NEW j \in Job, said < MaxSaid, NEW a \in Answers(j)
  PROVE  a \in FullRow /\ ~ a.confirmed
  <1>1. said + 1 \in 1 .. MaxSaid /\ {0, said + 1} \subseteq Value
    BY FormAssumption DEF Value, FormInv, Typing, TypeOK
  <1>2. Included(j) \subseteq Source
    BY DEF Included
  <1>3. a \in [id : {said + 1}, value : {0, said + 1},
               source : Included(j) \cup {None}, confirmed : {FALSE}]
    BY DEF Answers
  <1> QED BY <1>1, <1>2, <1>3 DEF FullRow

\* A run that goes on, the job as it was.
LEMMA RunGoesOn ==
  ASSUME FormInv, NEW r \in Request, req[r].pc \in {"ask", "purge"}, NEW x \in Local,
         x.pc \in {"purge", "fail", "store"}, x.job = req[r].job,
         x.pc \in {"purge", "store"} => \A v \in Variable : ~ x.rows[v].confirmed,
         req' = [req EXCEPT ![r] = x], UNCHANGED <<db, stored, doc, hist>>,
         said' \in 0 .. MaxSaid, faults' \in 0 .. MaxFault
  PROVE  FormInv'
  <1>1. LocalsOK' /\ req'[r] = x /\ OthersStay(r) /\ Turn(r)
    BY GoesOn DEF FormInv, Typing, OthersStay, Turn, hist, At
  <1>2. Typing'
    BY <1>1 DEF FormInv, Typing, TypeOK, db, hist
  <1>3. RenderOK(r)' /\ EditOK(r)'
    BY <1>1 DEF RenderOK, EditOK, At
  <1>4. alone' => FreshOK(r)'
    BY <1>1 DEF FormInv, SoloFresh, FreshOK, At, db, hist
  <1> QED BY <1>1, <1>2, <1>3, <1>4, QuietStep DEF db, hist

LEMMA AskModelHolds ==
  ASSUME FormInv, NEW r \in Request, AskModel(r)
  PROVE  FormInv'
  <1>1. req[r].job \in Job /\ At(r, "ask")
    BY LocalTyped DEF AskModel, At, FormInv, Typing
  <1>2. PICK rows \in [Variable -> Answers(req[r].job)] :
          req' = [req EXCEPT ![r] = [pc |-> "purge", job |-> req[r].job, rows |-> rows]]
    BY DEF AskModel, FormInv, Typing, LocalsOK
  <1> DEFINE x == [pc |-> "purge", job |-> req[r].job, rows |-> rows]
  <1>3. rows \in [Variable -> FullRow] /\ \A v \in Variable : ~ rows[v].confirmed
    BY <1>1, AnswersTyped DEF AskModel
  <1>4. x \in Local
    BY <1>1, <1>3 DEF Local
  <1>5. said' \in 0 .. MaxSaid /\ faults' \in 0 .. MaxFault
    BY FormAssumption DEF AskModel, FormInv, Typing, TypeOK
  <1>6. /\ x.pc = "purge" /\ x.job = req[r].job /\ x.rows = rows
        /\ UNCHANGED <<db, stored, doc, hist>>
    BY DEF AskModel
  <1> HIDE DEF x
  <1> QED BY <1>1, <1>2, <1>3, <1>4, <1>5, <1>6, RunGoesOn DEF x, At

LEMMA ModelFailsHolds ==
  ASSUME FormInv, NEW r \in Request, ModelFails(r)
  PROVE  FormInv'
  <1> DEFINE x == [pc |-> "fail", job |-> req[r].job]
  <1>1. req[r].job \in Job /\ At(r, "ask")
    BY LocalTyped DEF ModelFails, At, FormInv, Typing
  <1>2. x \in Local /\ x.pc = "fail" /\ x.job = req[r].job
    BY <1>1 DEF Local
  <1>3. /\ req' = [req EXCEPT ![r] = x] /\ UNCHANGED <<db, stored, doc, hist>>
        /\ said' \in 0 .. MaxSaid /\ faults' \in 0 .. MaxFault
    BY FormAssumption DEF ModelFails, FormInv, Typing, TypeOK, LocalsOK
  <1> HIDE DEF x
  <1> QED BY <1>1, <1>2, <1>3, RunGoesOn DEF At

LEMMA PurgeHolds ==
  ASSUME FormInv, NEW r \in Request, Purge(r)
  PROVE  FormInv'
  <1> DEFINE old == [v \in Variable |-> mapping[req[r].job][v].id]
             x == [pc |-> "store", job |-> req[r].job, rows |-> req[r].rows, old |-> old]
  <1>1. req[r].job \in Job /\ At(r, "purge") /\ req[r].rows \in [Variable -> FullRow]
    BY LocalTyped DEF Purge, At, FormInv, Typing
  <1>2. old \in [Variable -> 0 .. MaxSaid]
    BY <1>1, RowTyped DEF FormInv, Typing, TypeOK
  <1>3. req' = [req EXCEPT ![r] = x]
    BY DEF Purge, FormInv, Typing, LocalsOK
  <1> HIDE DEF old
  <1>4. x \in Local /\ x.pc = "store" /\ x.job = req[r].job /\ x.rows = req[r].rows
    BY <1>1, <1>2 DEF Local
  <1>5. \A v \in Variable : ~ req[r].rows[v].confirmed
    BY <1>1 DEF FormInv, EditsOK, EditOK, At
  <1>6. /\ UNCHANGED <<db, stored, doc, hist>>
        /\ said' \in 0 .. MaxSaid /\ faults' \in 0 .. MaxFault
    BY DEF Purge, FormInv, Typing, TypeOK
  <1> HIDE DEF x
  <1> QED BY <1>1, <1>3, <1>4, <1>5, <1>6, RunGoesOn DEF At

\* All the rows of the job are made again, none of them confirmed.
LEMMA StoreHolds ==
  ASSUME FormInv, NEW r \in Request, Store(r)
  PROVE  FormInv'
  <1> DEFINE j == req[r].job
  <1>1. /\ j \in Job /\ ~ At(r, "idle") /\ At(r, "store") /\ Done(r)
        /\ req[r].rows \in [Variable -> FullRow]
        /\ \A v \in Variable : ~ req[r].rows[v].confirmed
        /\ UNCHANGED <<src, stored, doc, said, faults, alone, known>>
    BY LocalTyped DEF Store, At, FormInv, Typing, EditsOK, EditOK
  <1>2. /\ LocalsOK' /\ req'[r] = Idle /\ OthersStay(r) /\ Turn(r)
        /\ RenderOK(r)' /\ EditOK(r)' /\ FreshOK(r)'
    BY <1>1, DoneIsATurn
  <1>3. CASE UNCHANGED <<mapping, job, reviewed>>
    <2>1. Typing'
      BY <1>1, <1>2, <1>3 DEF FormInv, Typing, TypeOK
    <2> QED BY <1>1, <1>2, <1>3, <2>1, QuietStep
  <1>4. CASE /\ mapping' = [mapping EXCEPT ![j] = req[r].rows]
             /\ job' = [job EXCEPT ![j].status = "reviewing"]
             /\ reviewed' = reviewed \cup {j}
    <2>1. /\ \A v \in Variable : req[r].rows[v] \in Row /\ HasRow(req[r].rows[v])
          /\ req[r].rows \in [Variable -> Row]
      BY <1>1, RowTyped
    <2>2. /\ job' \in [Job -> JobRow]
          /\ \A i \in Job : i # j => job'[i] = job[i]
      <3>1. [job[j] EXCEPT !.status = "reviewing"] \in JobRow
        BY <1>1 DEF FormInv, Typing, TypeOK, JobRow, Status
      <3>2. job \in [Job -> JobRow]
        BY DEF FormInv, Typing, TypeOK, JobRow
      <3> QED BY <1>1, <1>4, <3>1, <3>2
    <2>3. /\ mapping' \in [Job -> [Variable -> Row]]
          /\ mapping'[j] = req[r].rows
          /\ \A i \in Job : i # j => mapping'[i] = mapping[i]
      BY <1>1, <1>4, <2>1 DEF FormInv, Typing, TypeOK
    <2>4. Typing'
      BY <1>1, <1>2, <1>4, <2>2, <2>3 DEF FormInv, Typing, TypeOK, JobRow
    <2>5. JobsReviewed'
      BY <1>4, <2>2 DEF FormInv, ReviewOrder, JobsReviewed
    <2>6. RowsComplete'
      <3>1. \A i \in reviewed : i \in Job
        BY DEF FormInv, Typing, TypeOK
      <3> QED BY <1>4, <2>1, <2>3, <3>1 DEF FormInv, RowsComplete, HasRow
    <2>7. ConfirmedIsKnown'
      BY <1>1, <2>3 DEF FormInv, ConfirmedIsKnown, HasRow
    <2>8. DocumentReviewed'
      BY <1>1 DEF FormInv, DocumentReviewed
    <2> QED BY <1>2, <1>4, <2>4, <2>5, <2>6, <2>7, <2>8, RequestHolds
  <1> QED BY <1>3, <1>4 DEF Store

-----------------------------------------------------------------------------
(* Review *)

LEMMA BeginPatchHolds ==
  ASSUME FormInv, NEW r \in Request, NEW j \in Job, NEW v \in Variable, BeginPatch(r, j, v)
  PROVE  FormInv'
  <1> DEFINE seen == mapping[j][v]
  <1>1. seen \in FullRow /\ HasRow(seen)
    BY RowTyped DEF BeginPatch, FormInv, Typing, TypeOK
  <1>2. PICK new \in FullRow :
          /\ new.id = seen.id
          /\ said' \in 0 .. MaxSaid
          /\ Take(r, [pc |-> "patch", job |-> j, var |-> v, seen |-> seen, new |-> new])
    <2>1. PICK c \in BOOLEAN, s \in {seen.source} \cup {t \in Source : HasRow(src[t])} :
            LET new == [seen EXCEPT !.confirmed = c, !.source = s]
                Patch(to, n) ==
                  /\ said' = n
                  /\ Take(r, [pc |-> "patch", job |-> j, var |-> v, seen |-> seen, new |-> to])
            IN \/ Patch(new, said)
               \/ said < MaxSaid /\ Patch([new EXCEPT !.value = said + 1], said + 1)
      BY DEF BeginPatch
    <2> DEFINE one == [seen EXCEPT !.confirmed = c]
               new == [seen EXCEPT !.confirmed = c, !.source = s]
               other == [new EXCEPT !.value = said + 1]
    <2>2. s \in Source \cup {None}
      BY <1>1 DEF FullRow
    <2>3. one \in FullRow /\ one.id = seen.id
      BY <1>1 DEF FullRow
    <2>4. new = [one EXCEPT !.source = s]
      BY <1>1 DEF FullRow
    <2> HIDE DEF one
    <2>5. new \in FullRow /\ new.id = seen.id
      BY <2>2, <2>3, <2>4 DEF FullRow
    <2>6. said < MaxSaid => said + 1 \in Value /\ said + 1 \in 0 .. MaxSaid
      BY FormAssumption DEF FormInv, Typing, TypeOK, Value
    <2> HIDE DEF new
    <2>7. said < MaxSaid => other \in FullRow /\ other.id = seen.id
      BY <2>5, <2>6 DEF FullRow
    <2>8. said \in 0 .. MaxSaid
      BY DEF FormInv, Typing, TypeOK
    <2> HIDE DEF other
    <2>9. \/ said' = said
             /\ Take(r, [pc |-> "patch", job |-> j, var |-> v, seen |-> seen, new |-> new])
          \/ said < MaxSaid /\ said' = said + 1
             /\ Take(r, [pc |-> "patch", job |-> j, var |-> v, seen |-> seen, new |-> other])
      BY <2>1 DEF new, other
    <2> QED BY <2>5, <2>6, <2>7, <2>8, <2>9
  <1> DEFINE x == [pc |-> "patch", job |-> j, var |-> v, seen |-> seen, new |-> new]
  <1>3. x \in Local
    BY <1>1, RowTyped DEF Local
  <1>4. /\ LocalsOK' /\ req'[r] = x /\ OthersStay(r) /\ Turn(r) /\ alone' \in BOOLEAN
    BY <1>2, <1>3, TakeIsATurn
  <1>5. UNCHANGED <<db, stored, doc, faults, known, reviewed>>
    BY DEF BeginPatch
  <1>6. Typing'
    BY <1>2, <1>4, <1>5 DEF FormInv, Typing, TypeOK, db
  <1>7. RenderOK(r)' /\ EditOK(r)' /\ FreshOK(r)'
    BY <1>1, <1>2, <1>4, <1>5 DEF RenderOK, EditOK, FreshOK, At, db, HasRow
  <1> HIDE DEF x
  <1> QED BY <1>4, <1>5, <1>6, <1>7, QuietStep DEF db

LEMMA BeginRegenerateHolds ==
  ASSUME FormInv, NEW r \in Request, NEW j \in Job, NEW v \in Variable, BeginRegenerate(r, j, v)
  PROVE  FormInv'
  <1>1. PICK a \in Answers(j) : Take(r, [pc |-> "answered", job |-> j, var |-> v, new |-> a])
    BY DEF BeginRegenerate
  <1> DEFINE x == [pc |-> "answered", job |-> j, var |-> v, new |-> a]
  <1>2. a \in FullRow /\ ~ a.confirmed
    BY AnswersTyped DEF BeginRegenerate
  <1>3. x \in Local
    BY <1>2 DEF Local
  <1>4. /\ LocalsOK' /\ req'[r] = x /\ OthersStay(r) /\ Turn(r) /\ alone' \in BOOLEAN
    BY <1>1, <1>3, TakeIsATurn
  <1>5. UNCHANGED <<db, stored, doc, faults, known, reviewed>> /\ said' \in 0 .. MaxSaid
    BY FormAssumption DEF BeginRegenerate, FormInv, Typing, TypeOK
  <1>6. Typing'
    BY <1>4, <1>5 DEF FormInv, Typing, TypeOK, db
  <1>7. RenderOK(r)' /\ EditOK(r)' /\ FreshOK(r)'
    BY <1>2, <1>4 DEF RenderOK, EditOK, FreshOK, At
  <1> HIDE DEF x
  <1> QED BY <1>4, <1>5, <1>6, <1>7, QuietStep DEF db

LEMMA ReadRowHolds ==
  ASSUME FormInv, NEW r \in Request, ReadRow(r)
  PROVE  FormInv'
  <1> DEFINE seen == mapping[req[r].job][req[r].var]
             new == Regenerated(seen, req[r].new)
             x == [pc |-> "regenerate", job |-> req[r].job, var |-> req[r].var,
                   seen |-> seen, new |-> new]
  <1>1. /\ At(r, "answered") /\ req[r].job \in Job /\ req[r].var \in Variable
        /\ req[r].new \in FullRow
    BY LocalTyped DEF ReadRow, At, FormInv, Typing
  <1>2. ~ req[r].new.confirmed
    BY <1>1 DEF FormInv, EditsOK, EditOK, At
  <1>3. seen \in Row
    BY <1>1 DEF FormInv, Typing, TypeOK
  <1>4. /\ new \in FullRow /\ ~ new.confirmed
        /\ HasRow(seen) => new.id = seen.id
    BY <1>1, <1>2, <1>3, RowTyped DEF Regenerated, FullRow
  <1>5. req' = [req EXCEPT ![r] = x]
    BY DEF ReadRow, FormInv, Typing, LocalsOK
  <1> HIDE DEF new
  <1>6. x \in Local
    BY <1>1, <1>3, <1>4 DEF Local
  <1>7. LocalsOK' /\ req'[r] = x /\ OthersStay(r) /\ Turn(r)
    BY <1>1, <1>5, <1>6, GoesOn DEF FormInv, Typing, OthersStay, Turn, ReadRow, hist, At
  <1>8. UNCHANGED <<db, stored, doc, said, faults, hist>>
    BY DEF ReadRow
  <1>9. Typing'
    BY <1>7, <1>8 DEF FormInv, Typing, TypeOK, db, hist
  <1>10. RenderOK(r)' /\ EditOK(r)' /\ FreshOK(r)'
    BY <1>4, <1>7, <1>8 DEF RenderOK, EditOK, FreshOK, At, db, HasRow
  <1> HIDE DEF x
  <1> QED BY <1>7, <1>8, <1>9, <1>10, QuietStep DEF db, hist

\* What an edit writes over the row it has read, or over what is there now.
LEMMA MergedTyped ==
  ASSUME NEW row \in Row, NEW seen \in Row, NEW new \in FullRow, row.id = seen.id,
         HasRow(seen) => new.id = seen.id
  PROVE  /\ Merged(row, seen, new) \in FullRow
         /\ row = seen => Merged(row, seen, new) = new
  <1> DEFINE m == Merged(row, seen, new)
  <1>1. DOMAIN new = {"id", "value", "source", "confirmed"}
    BY DEF FullRow
  <1>2. m = [c \in {"id", "value", "source", "confirmed"} |->
               IF HasRow(seen) /\ new[c] = seen[c] THEN row[c] ELSE new[c]]
    BY <1>1 DEF Merged
  <1>3. m = [id |-> m.id, value |-> m.value, source |-> m.source, confirmed |-> m.confirmed]
    BY <1>2
  <1>4. HasRow(seen) => row \in FullRow
    BY RowTyped DEF HasRow
  <1>5. /\ m.id \in 1 .. MaxSaid /\ m.value \in Value
        /\ m.source \in Source \cup {None} /\ m.confirmed \in BOOLEAN
    BY <1>2, <1>4 DEF FullRow
  <1>6. m \in FullRow
    BY <1>3, <1>5 DEF FullRow
  <1>7. ASSUME row = seen PROVE m = new
    <2>1. /\ m.id = new.id /\ m.value = new.value /\ m.source = new.source
          /\ m.confirmed = new.confirmed
      BY <1>2, <1>7
    <2>2. new = [id |-> new.id, value |-> new.value, source |-> new.source,
                 confirmed |-> new.confirmed]
      BY DEF FullRow
    <2> QED BY <1>3, <2>1, <2>2
  <1> QED BY <1>6, <1>7

LEMMA SaveRowHolds ==
  ASSUME FormInv, NEW r \in Request, SaveRow(r)
  PROVE  FormInv'
  <1> DEFINE j == req[r].job
             v == req[r].var
             seen == req[r].seen
             new == req[r].new
             to == Merged(mapping[j][v], seen, new)
  <1>1. /\ j \in Job /\ v \in Variable /\ seen \in Row /\ new \in FullRow
        /\ req[r].pc \in {"patch", "regenerate"} /\ ~ At(r, "idle") /\ Done(r)
        /\ UNCHANGED <<job, src, stored, doc, said, faults, alone, reviewed>>
    BY LocalTyped DEF SaveRow, At, FormInv, Typing
  <1>2. /\ LocalsOK' /\ req'[r] = Idle /\ OthersStay(r) /\ Turn(r)
        /\ RenderOK(r)' /\ EditOK(r)' /\ FreshOK(r)'
    BY <1>1, DoneIsATurn
  <1>3. CASE UNCHANGED <<mapping, known>>
    <2>1. Typing'
      BY <1>1, <1>2, <1>3 DEF FormInv, Typing, TypeOK
    <2> QED BY <1>1, <1>2, <1>3, <2>1, QuietStep
  <1>4. CASE /\ mapping[j][v].id = seen.id
             /\ mapping' = [mapping EXCEPT ![j][v] = to]
             /\ known' = IF /\ req[r].pc = "patch"
                            /\ \/ new.value # seen.value
                               \/ new.confirmed /\ ~ seen.confirmed
                         THEN known \cup {new.value} ELSE known
    <2>1. /\ HasRow(seen) => new.id = seen.id
          /\ At(r, "patch") => HasRow(seen)
          /\ req[r].pc = "regenerate" => ~ new.confirmed
      BY <1>1 DEF FormInv, EditsOK, EditOK
    <2>2. mapping[j][v] \in Row
      BY <1>1 DEF FormInv, Typing, TypeOK
    <2>3. /\ to \in FullRow
          /\ mapping[j][v] = seen => to = new
      BY <1>1, <1>4, <2>1, <2>2, MergedTyped
    <2> HIDE DEF to
    <2>4. /\ mapping' \in [Job -> [Variable -> Row]] /\ mapping'[j][v] = to
          /\ \A i \in Job, w \in Variable : i # j \/ w # v => mapping'[i][w] = mapping[i][w]
      <3>1. to \in Row
        BY <2>3, RowTyped
      <3> QED BY <1>1, <1>4, <3>1 DEF FormInv, Typing, TypeOK
    <2>5. known \subseteq known' /\ known' \in SUBSET Value
      BY <1>1, <1>4 DEF FormInv, Typing, TypeOK, FullRow
    <2>6. Typing'
      BY <1>1, <1>2, <2>4, <2>5 DEF FormInv, Typing, TypeOK
    <2>7. JobsReviewed' /\ DocumentReviewed'
      BY <1>1, <2>5 DEF FormInv, ReviewOrder, JobsReviewed, DocumentReviewed
    <2>8. RowsComplete'
      <3>1. HasRow(to) /\ \A i \in reviewed : i \in Job
        BY <2>3, RowTyped DEF FormInv, Typing, TypeOK
      <3> QED BY <1>1, <2>4, <3>1 DEF FormInv, RowsComplete, HasRow
    <2>9. ConfirmedIsKnown'
      <3> SUFFICES ASSUME alone, NEW i \in Job, NEW w \in Variable,
                          HasRow(mapping'[i][w]), mapping'[i][w].confirmed
                   PROVE  mapping'[i][w].value \in known' \cup {0}
        BY <1>1 DEF ConfirmedIsKnown, HasRow
      <3>1. CASE i # j \/ w # v
        BY <2>4, <2>5, <3>1 DEF FormInv, ConfirmedIsKnown
      <3>2. CASE i = j /\ w = v
        <4>1. mapping[j][v] = seen
          BY <1>1 DEF FormInv, SoloFresh, FreshOK
        <4>2. to = new /\ new.confirmed /\ At(r, "patch") /\ HasRow(seen)
          BY <1>1, <2>1, <2>3, <2>4, <3>2, <4>1 DEF At
        <4>3. CASE new.value # seen.value \/ ~ seen.confirmed
          BY <1>4, <2>4, <3>2, <4>2, <4>3 DEF At
        <4>4. CASE new.value = seen.value /\ seen.confirmed
          BY <1>1, <2>4, <2>5, <3>2, <4>1, <4>2, <4>4 DEF FormInv, ConfirmedIsKnown
        <4> QED BY <4>3, <4>4
      <3> QED BY <3>1, <3>2
    <2> QED BY <1>1, <1>2, <2>6, <2>7, <2>8, <2>9, RequestHolds
  <1> QED BY <1>3, <1>4 DEF SaveRow

\* What the document is allowed to show is decided from the rows as they are.
LEMMA BeginRenderHolds ==
  ASSUME FormInv, NEW r \in Request, NEW j \in Job, BeginRender(r, j)
  PROVE  FormInv'
  <1>1. PICK ack \in BOOLEAN, save \in BOOLEAN :
          /\ ack \/ Checked(j)
          /\ Take(r, [pc |-> "render", job |-> j, seen |-> job[j], save |-> save])
          /\ doc' = IF ~ save THEN doc
                    ELSE [ack |-> ~ Checked(j),
                          shows |-> {mapping[j][v].value :
                                       v \in {w \in Required : HasRow(mapping[j][w])}}]
    BY DEF BeginRender
  <1> DEFINE x == [pc |-> "render", job |-> j, seen |-> job[j], save |-> save]
             shows == {mapping[j][v].value : v \in {w \in Required : HasRow(mapping[j][w])}}
  <1>2. job[j].status \in {"reviewing", "completed"} /\ job[j] \in JobRow
    <2>1. job[j].status \in Status
      BY DEF BeginRender, Exists, FormInv, Typing, TypeOK
    <2> QED BY <2>1, MayBecomeOnly DEF BeginRender, FormInv, Typing, TypeOK, JobRow
  <1>3. x \in Local
    BY <1>2 DEF Local
  <1>4. /\ LocalsOK' /\ req'[r] = x /\ OthersStay(r) /\ Turn(r) /\ alone' \in BOOLEAN
    BY <1>1, <1>3, TakeIsATurn
  <1>5. UNCHANGED <<db, stored, said, faults, known, reviewed>>
    BY DEF BeginRender
  <1>6. shows \subseteq Value
    <2>1. \A v \in Required : HasRow(mapping[j][v]) => mapping[j][v].value \in Value
      BY FormAssumption, RowTyped DEF FormInv, Typing, TypeOK, FullRow
    <2> QED BY <2>1
  <1>7. doc' \in [ack : BOOLEAN, shows : SUBSET Value]
    <2>1. Checked(j) \in BOOLEAN
      BY DEF Checked
    <2> QED BY <1>1, <1>6, <2>1 DEF FormInv, Typing, TypeOK
  <1>8. Typing'
    BY <1>4, <1>5, <1>7 DEF FormInv, Typing, TypeOK, db
  <1>9. RenderOK(r)' /\ EditOK(r)' /\ FreshOK(r)'
    BY <1>2, <1>4, <1>5 DEF RenderOK, EditOK, FreshOK, At, db, FormInv, ReviewOrder, JobsReviewed
  <1>10. alone' => alone
    BY <1>4, OthersIdle
  <1>11. DocumentReviewed'
    <2> SUFFICES ASSUME alone, ~ doc'.ack PROVE doc'.shows \subseteq known \cup {0}
      BY <1>5, <1>10 DEF DocumentReviewed
    <2>1. CASE ~ save
      BY <1>1, <2>1 DEF FormInv, DocumentReviewed
    <2>2. CASE save
      <3>1. Checked(j) /\ doc'.shows = shows
        BY <1>1, <2>2
      <3>2. \A v \in Required : mapping[j][v].value \in known \cup {0}
        BY <3>1, FormAssumption DEF Checked, FormInv, ConfirmedIsKnown
      <3> QED BY <3>1, <3>2
    <2> QED BY <2>1, <2>2
  <1>12. JobsReviewed' /\ RowsComplete' /\ ConfirmedIsKnown'
    BY <1>5, <1>10 DEF FormInv, ReviewOrder, JobsReviewed, RowsComplete, ConfirmedIsKnown, db
  <1> HIDE DEF x
  <1> QED BY <1>4, <1>5, <1>8, <1>9, <1>11, <1>12, RequestHolds

LEMMA RenderHolds ==
  ASSUME FormInv, NEW r \in Request, Render(r)
  PROVE  FormInv'
  <1> DEFINE j == req[r].job
             to == [status |-> IF req[r].seen.status = "completed" THEN job[j].status
                               ELSE "completed",
                    output |-> IF req[r].seen.output = req[r].save THEN job[j].output
                               ELSE req[r].save]
  <1>1. /\ j \in Job /\ At(r, "render") /\ ~ At(r, "idle") /\ Done(r)
        /\ req[r].save \in BOOLEAN
        /\ UNCHANGED <<src, stored, mapping, doc, said, faults, hist>>
    BY LocalTyped DEF Render, At, FormInv, Typing
  <1>2. /\ LocalsOK' /\ req'[r] = Idle /\ OthersStay(r) /\ Turn(r)
        /\ RenderOK(r)' /\ EditOK(r)' /\ FreshOK(r)'
    BY <1>1, DoneIsATurn DEF hist
  <1>3. job' = [job EXCEPT ![j] = to]
    BY DEF Render, FormInv, Typing, TypeOK
  <1>4. to \in JobRow /\ (to.status = job[j].status \/ to.status = "completed")
    BY <1>1 DEF FormInv, Typing, TypeOK, JobRow, Status
  <1> HIDE DEF to
  <1>5. /\ job' \in [Job -> JobRow] /\ job'[j] = to
        /\ \A i \in Job : i # j => job'[i] = job[i]
    BY <1>1, <1>3, <1>4 DEF FormInv, Typing, TypeOK, JobRow
  <1>6. Typing'
    BY <1>1, <1>2, <1>5 DEF FormInv, Typing, TypeOK, JobRow, hist
  <1>7. j \in reviewed
    BY <1>1 DEF FormInv, ReviewOrder, RenderOK
  <1>8. JobsReviewed' /\ RowsComplete' /\ ConfirmedIsKnown' /\ DocumentReviewed'
    BY <1>1, <1>5, <1>7 DEF FormInv, ReviewOrder, JobsReviewed, RowsComplete,
                            ConfirmedIsKnown, DocumentReviewed, hist
  <1> QED BY <1>1, <1>2, <1>6, <1>8, RequestHolds DEF hist

-----------------------------------------------------------------------------
(* The theorems *)

LEMMA RestartHolds ==
  ASSUME FormInv, Restart
  PROVE  FormInv'
  <1>1. /\ UNCHANGED <<db, stored, doc, said, hist>> /\ faults' \in 0 .. MaxFault
        /\ req' = [r \in Request |-> Idle]
    BY FormAssumption DEF Restart, FormInv, Typing, TypeOK
  <1>2. LocalsOK' /\ \A r \in Request : req'[r].pc = "idle"
    BY <1>1, IdleIsLocal DEF LocalsOK
  <1>3. Typing'
    BY <1>1, <1>2 DEF FormInv, Typing, TypeOK, db, hist
  <1>4. ReviewOrder' /\ EditsOK' /\ Solo' /\ SoloFresh'
    BY <1>1, <1>2 DEF FormInv, ReviewOrder, JobsReviewed, RenderOK, EditsOK, EditOK, Solo,
                      SoloFresh, FreshOK, At, db, hist
  <1> QED BY <1>1, <1>3, <1>4 DEF FormInv, RowsComplete, ConfirmedIsKnown, DocumentReviewed,
                                  db, hist

LEMMA FormInitHolds == Init => FormInv
  <1> SUFFICES ASSUME Init PROVE FormInv
    OBVIOUS
  <1>1. LocalsOK /\ \A r \in Request : req[r].pc = "idle"
    BY IdleIsLocal DEF Init, LocalsOK
  <1>2. TypeOK
    BY FormAssumption, SourceRowTyped DEF Init, TypeOK, NoDoc, Row, Status, Value
  <1>3. \A j \in Job : job[j].status = "none"
    BY DEF Init
  <1> QED BY <1>1, <1>2, <1>3
          DEF Init, FormInv, Typing, ReviewOrder, JobsReviewed, RenderOK, EditsOK, EditOK, Solo,
              SoloFresh, FreshOK, RowsComplete, ConfirmedIsKnown, DocumentReviewed, At,
              HasRow, NoRow, NoDoc

LEMMA FormBeginHolds ==
  ASSUME FormInv, NEW r \in Request, Begin(r)
  PROVE  FormInv'
  BY BeginSourceHolds, BeginMappingHolds, BeginRenderHolds, BeginPatchHolds,
     BeginRegenerateHolds, BeginExcludeHolds, BeginCleanupHolds DEF Begin

LEMMA FormStepHolds ==
  ASSUME FormInv, NEW r \in Request, Step(r)
  PROVE  FormInv'
  BY SourceStepHolds, CleanupHolds, SetMappingHolds, EndHolds, AskModelHolds,
     ModelFailsHolds, SetFailedHolds, PurgeHolds, StoreHolds, ReadRowHolds, SaveRowHolds,
     RenderHolds DEF Step

LEMMA FormNextHolds == FormInv /\ [Next]_vars => FormInv'
  <1> SUFFICES ASSUME FormInv, [Next]_vars PROVE FormInv'
    OBVIOUS
  <1>1. CASE UNCHANGED vars
    BY <1>1 DEF vars, db, hist, FormInv, Typing, TypeOK, LocalsOK, ReviewOrder, JobsReviewed,
         RenderOK, EditsOK, EditOK, Solo, SoloFresh, FreshOK, RowsComplete,
         ConfirmedIsKnown, DocumentReviewed, At
  <1> QED BY <1>1, CreateJobHolds, AgeHolds, FormBeginHolds, FormStepHolds, EndHolds,
             RestartHolds DEF Next

\* No job is completed that has not been in review, whatever requests overlap,
\* and, as long as none do, no document shows a required answer of the model
\* that nobody has confirmed or typed, unless the user accepts what is missing
\* (jobs.py:716-741, persistence.py:30).
THEOREM ReviewIsNotPassed == Spec => []ReviewHolds
  <1>1. FormInv => ReviewHolds
    BY DEF FormInv, Typing, ReviewHolds, ReviewOrder, JobsReviewed, ReviewedFirst
  <1> QED BY <1>1, FormInitHolds, FormNextHolds, PTL DEF Spec

\* The check of the required variables sees a row for each of them: a job in
\* review or done has them all, however many runs, edits and deletions of
\* sources overlap.
THEOREM ReviewSeesAll == Spec => []AllMapped
  <1>1. FormInv => AllMapped
    BY DEF FormInv, ReviewOrder, JobsReviewed, RowsComplete, AllMapped
  <1> QED BY <1>1, FormInitHolds, FormNextHolds, PTL DEF Spec

\* A completed or failed job whose status a step changes.
JobsEnd ==
  \A j \in Job :
    alone' /\ job[j].status \in {"completed", "failed"} => job'[j].status = job[j].status

LEMMA StepKeepsEnds == FormInv /\ [Next]_vars => JobsEnd
  <1> SUFFICES ASSUME FormInv, [Next]_vars PROVE JobsEnd
    OBVIOUS
  <1>0. job' = job => JobsEnd
    BY DEF JobsEnd
  <1>1. ASSUME NEW j \in Job, CreateJob(j) PROVE JobsEnd
    BY <1>1 DEF CreateJob, JobsEnd, FormInv, Typing, TypeOK
  <1>2. ASSUME NEW r \in Request, SetMapping(r) \/ SetFailed(r) \/ Store(r) PROVE JobsEnd
    <2>1. req[r].job \in Job /\ alone' = alone
      BY <1>2, LocalTyped DEF SetMapping, SetFailed, Store, At, FormInv, Typing, hist
    <2>2. \A i \in Job : i # req[r].job => job'[i] = job[i]
      BY <1>2, <2>1 DEF SetMapping, SetStatus, SetFailed, Store, FormInv, Typing, TypeOK
    <2>3. alone => job[req[r].job].status \in {"collecting", "mapping"}
      BY <1>2 DEF SetMapping, SetFailed, Store, At, FormInv, SoloFresh, FreshOK
    <2> QED BY <2>1, <2>2, <2>3 DEF JobsEnd
  <1>3. ASSUME NEW r \in Request, Render(r) PROVE JobsEnd
    <2>1. req[r].job \in Job /\ alone' = alone /\ At(r, "render")
      BY <1>3, LocalTyped DEF Render, At, FormInv, Typing, hist
    <2>2. /\ \A i \in Job : i # req[r].job => job'[i] = job[i]
          /\ job'[req[r].job].status =
               IF req[r].seen.status = "completed" THEN job[req[r].job].status ELSE "completed"
      BY <1>3, <2>1 DEF Render, FormInv, Typing, TypeOK
    <2>3. alone => /\ job[req[r].job] = req[r].seen
                   /\ req[r].seen.status \in {"reviewing", "completed"}
      BY <2>1 DEF FormInv, SoloFresh, FreshOK
    <2> QED BY <2>1, <2>2, <2>3 DEF JobsEnd
  <1>4. ASSUME NEW r \in Request, Begin(r) PROVE job' = job
    BY <1>4 DEF Begin, BeginSource, BeginMapping, BeginRender, BeginPatch, BeginRegenerate,
         BeginExclude, BeginCleanup, db
  <1>5. ASSUME NEW r \in Request,
               \/ AddSource(r) \/ Exclude(r) \/ Cleanup(r) \/ NothingToMap(r) \/ AskModel(r)
               \/ ModelFails(r) \/ Purge(r) \/ ReadRow(r) \/ SaveRow(r) \/ Fail(r)
        PROVE  job' = job
    BY <1>5 DEF AddSource, Exclude, Cleanup, NothingToMap, AskModel, ModelFails, Purge,
         ReadRow, SaveRow, Fail, db
  <1>6. CASE UNCHANGED vars \/ Restart \/ \E s \in Source : Age(s)
    BY <1>0, <1>6 DEF vars, db, Restart, Age
  <1> QED BY <1>0, <1>1, <1>2, <1>3, <1>4, <1>5, <1>6 DEF Next, Step

\* Requests that do not overlap leave a completed or failed job what it is:
\* each checks the status it later overwrites (enforce_status_transition).
THEOREM EndsAreFinal == Spec => TerminalStays
  <1>1. FormInv /\ [Next]_vars => [JobsEnd]_vars
    BY StepKeepsEnds
  <1> QED BY <1>1, FormInitHolds, FormNextHolds, PTL DEF Spec, TerminalStays, JobsEnd
=============================================================================
