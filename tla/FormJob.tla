------------------------------ MODULE FormJob ------------------------------
(***************************************************************************)
(* A form that is filled in from sources and reviewed: routers/forms/      *)
(* jobs.py, services/form_filler/{persistence,mapper,guardrails}.py and    *)
(* the tables of models/form_filler.py.                                    *)
(*                                                                         *)
(* A request reads the job, checks its status, and commits later; nothing  *)
(* is locked meanwhile.  The call to the language model does not await, so *)
(* it is part of the step that read the sources.  An UPDATE of the ORM     *)
(* writes the columns that differ from the copy it has read and fails when *)
(* the row is gone.  A mapping row that is made again is another row.      *)
(*                                                                         *)
(* All jobs are of one user, one template and one day.  Values, excerpts   *)
(* and confidence are reduced to where a value comes from: every answer of *)
(* the model and every edit gets a number of its own.                      *)
(***************************************************************************)
EXTENDS Integers, FiniteSets

CONSTANTS
  Job, Variable,
  Required,  \* the variables that are required
  Source,    \* rows of form_data_sources
  Upload,    \* those of kind user_upload, which have a file
  Request,
  None,
  MaxSaid,   \* bound: answers of the model and edits
  MaxFault   \* bound: errors and restarts

ASSUME FormAssumption ==
  /\ Required \subseteq Variable /\ Upload \subseteq Source
  /\ None \notin Source
  /\ {MaxSaid, MaxFault} \subseteq Nat

VARIABLES
  job,     \* per job: status, and whether output_path is set
  src,     \* form_data_sources
  stored,  \* uploads whose file is on the disk
  mapping, \* form_mappings, per job and variable
  doc,     \* the document at the output path, which the jobs share
  req,     \* what each request is at, with its locals
  said,    \* answers and edits so far
  faults,
  \* history
  alone,   \* no two requests have overlapped
  known,   \* values a reviewer typed or confirmed
  reviewed \* jobs that have been in review

db   == <<job, src, mapping>>
hist == <<alone, known, reviewed>>
vars == <<db, stored, doc, req, said, faults, hist>>

NoRow  == [id |-> 0]
Gone   == [id |-> -1] \* a source whose row was deleted
NoDoc  == [shows |-> {}, ack |-> TRUE]
Status == {"collecting", "mapping", "reviewing", "completed", "failed"}
Value  == 0 .. MaxSaid \* 0 is NULL

HasRow(x) == x.id > 0
Idle == [pc |-> "idle"]
At(r, p) == req[r].pc = p

\* A request begins, with its locals.
Take(r, local) ==
  /\ At(r, "idle")
  /\ req' = [req EXCEPT ![r] = local]
  /\ alone' = (alone /\ \A q \in Request : At(q, "idle"))
Done(r) == req' = [req EXCEPT ![r] = Idle]

\* form_mappings_value_requires_source, and the foreign key.
Sourced(row) ==
  /\ row.value # 0 => row.source # None
  /\ row.source # None => HasRow(src[row.source])

\* _ALLOWED_TRANSITIONS
Allowed == [collecting |-> {"mapping", "failed"},
            mapping    |-> {"reviewing", "failed"},
            reviewing  |-> {"reviewing", "completed", "failed"},
            completed  |-> {}, failed |-> {}]

\* Mutant: a failed job may be tried again.
MayBecomeAgain(from, to) == from = to \/ to \in Allowed[from] \/ from = "failed"

\* Mutant: only the terminal states are left alone.
MayBecomeAny(from, to) == from = to \/ Allowed[from] # {}

\* enforce_status_transition
MayBecome(from, to) == from = to \/ to \in Allowed[from]

-----------------------------------------------------------------------------
(* Jobs and sources *)

CreateJob(j) ==
  /\ job[j].status = "none"
  /\ job' = [job EXCEPT ![j].status = "collecting"]
  /\ UNCHANGED <<src, stored, mapping, doc, req, said, faults, hist>>

Exists(j) == job[j].status # "none"

\* upload_source writes the file, attach_nas_sources has none; then the row.
BeginSource(r, j, s) ==
  /\ Exists(j)
  /\ src[s] = NoRow /\ \A q \in Request : ~ (At(q, "source") /\ req[q].src = s)
  /\ Take(r, [pc |-> "source", job |-> j, src |-> s])
  /\ stored' = stored \cup ({s} \cap Upload)
  /\ UNCHANGED <<db, doc, said, faults, known, reviewed>>

AddSource(r) ==
  /\ At(r, "source") /\ Done(r)
  /\ src' = [src EXCEPT ![req[r].src] =
               [id |-> 1, job |-> req[r].job, excluded |-> FALSE, old |-> FALSE]]
  /\ UNCHANGED <<job, stored, mapping, doc, said, faults, hist>>

BeginExclude(r, s) ==
  /\ HasRow(src[s])
  /\ Take(r, [pc |-> "exclude", src |-> s, to |-> ~ src[s].excluded])
  /\ UNCHANGED <<db, stored, doc, said, faults, known, reviewed>>

Exclude(r) ==
  /\ At(r, "exclude") /\ Done(r)
  /\ src' = IF HasRow(src[req[r].src])
            THEN [src EXCEPT ![req[r].src].excluded = req[r].to] ELSE src
  /\ UNCHANGED <<job, stored, mapping, doc, said, faults, hist>>

\* form_filler_upload_retention_days go by.
Age(s) ==
  /\ HasRow(src[s]) /\ ~ src[s].old
  /\ src' = [src EXCEPT ![s].old = TRUE]
  /\ UNCHANGED <<job, stored, mapping, doc, req, said, faults, hist>>

\* cleanup_expired removes the files, then the rows in one transaction.
BeginCleanup(r) ==
  LET S == {s \in Upload : HasRow(src[s]) /\ src[s].old} IN
  /\ S # {}
  /\ Take(r, [pc |-> "cleanup", srcs |-> S])
  /\ stored' = stored \ S
  /\ UNCHANGED <<db, doc, said, faults, known, reviewed>>

\* ON DELETE SET NULL
Orphaned(S) == [j \in Job |-> [v \in Variable |->
  IF HasRow(mapping[j][v]) /\ mapping[j][v].source \in S
  THEN [mapping[j][v] EXCEPT !.source = None] ELSE mapping[j][v]]]

Cleanup(r) ==
  /\ At(r, "cleanup") /\ Done(r)
  /\ LET after == Orphaned(req[r].srcs) IN
     IF \A j \in Job, v \in Variable : HasRow(after[j][v]) => Sourced(after[j][v])
     THEN /\ mapping' = after
          /\ src' = [s \in Source |-> IF s \in req[r].srcs THEN Gone ELSE src[s]]
     ELSE UNCHANGED <<mapping, src>>
  /\ UNCHANGED <<job, stored, doc, said, faults, hist>>

-----------------------------------------------------------------------------
(* run_mapping *)

BeginMapping(r, j) ==
  /\ Exists(j) /\ MayBecome(job[j].status, "mapping")
  /\ Take(r, [pc |-> "map", job |-> j, seen |-> job[j].status])
  /\ UNCHANGED <<db, stored, doc, said, faults, known, reviewed>>

SetStatus(j, seen, to) ==
  job' = IF seen = to THEN job ELSE [job EXCEPT ![j].status = to]

SetMapping(r) ==
  /\ At(r, "map")
  /\ SetStatus(req[r].job, req[r].seen, "mapping")
  /\ req' = [req EXCEPT ![r] = [pc |-> "ask", job |-> @.job]]
  /\ UNCHANGED <<src, stored, mapping, doc, said, faults, hist>>

Included(j) ==
  {s \in Source : HasRow(src[s]) /\ src[s].job = j /\ ~ src[s].excluded}

\* The guard rails take away a value that has no source of the job.
Trusted(a) == a.value # 0 => a.source # None

Answers(j) ==
  {a \in [id : {said + 1}, value : {0, said + 1},
          source : Included(j) \cup {None}, confirmed : {FALSE}] : Trusted(a)}

\* No source: the job stays in mapping.
NothingToMap(r) ==
  /\ At(r, "ask") /\ Included(req[r].job) = {}
  /\ Done(r)
  /\ UNCHANGED <<db, stored, doc, said, faults, hist>>

AskModel(r) ==
  /\ At(r, "ask") /\ Included(req[r].job) # {}
  /\ said < MaxSaid /\ said' = said + 1
  /\ \E rows \in [Variable -> Answers(req[r].job)] :
       req' = [req EXCEPT ![r] = [pc |-> "purge", job |-> @.job, rows |-> rows]]
  /\ UNCHANGED <<db, stored, doc, faults, hist>>

\* A RuntimeError or a ValueError of the mapper.
ModelFails(r) ==
  /\ At(r, "ask") /\ Included(req[r].job) # {}
  /\ faults < MaxFault /\ faults' = faults + 1
  /\ req' = [req EXCEPT ![r] = [pc |-> "fail", job |-> @.job]]
  /\ UNCHANGED <<db, stored, doc, said, hist>>

\* Mutant: a status the enumeration does not have.
SetError(r) ==
  /\ At(r, "fail") /\ Done(r)
  /\ job' = [job EXCEPT ![req[r].job].status = "error"]
  /\ UNCHANGED <<src, stored, mapping, doc, said, faults, hist>>

SetFailed(r) ==
  /\ At(r, "fail") /\ Done(r)
  /\ job' = [job EXCEPT ![req[r].job].status = "failed"]
  /\ UNCHANGED <<src, stored, mapping, doc, said, faults, hist>>

\* _purge_job_mappings reads the rows that will be deleted.
Purge(r) ==
  /\ At(r, "purge")
  /\ req' = [req EXCEPT ![r] =
       [pc |-> "store", job |-> @.job, rows |-> @.rows,
        old |-> [v \in Variable |-> mapping[req[r].job][v].id]]]
  /\ UNCHANGED <<db, stored, doc, said, faults, hist>>

\* Mutant: only what the guard rails accepted is stored.
StoreAccepted(r) ==
  LET j == req[r].job IN
  /\ At(r, "store") /\ Done(r)
  /\ mapping' = [mapping EXCEPT ![j] = [v \in Variable |->
                   IF req[r].rows[v].value = 0 THEN NoRow ELSE req[r].rows[v]]]
  /\ job' = [job EXCEPT ![j].status = "reviewing"]
  /\ reviewed' = reviewed \cup {j}
  /\ UNCHANGED <<src, stored, doc, said, faults, alone, known>>

\* One transaction: the old rows out, the new ones in, the job in review.  It
\* fails when a row was made meanwhile, or a source is gone.
Store(r) ==
  LET j == req[r].job
      fits == \A v \in Variable :
                /\ mapping[j][v].id \in {0, req[r].old[v]}
                /\ Sourced(req[r].rows[v])
  IN
  /\ At(r, "store") /\ Done(r)
  /\ IF fits
     THEN /\ mapping' = [mapping EXCEPT ![j] = req[r].rows]
          /\ job' = [job EXCEPT ![j].status = "reviewing"]
          /\ reviewed' = reviewed \cup {j}
     ELSE UNCHANGED <<mapping, job, reviewed>>
  /\ UNCHANGED <<src, stored, doc, said, faults, alone, known>>

-----------------------------------------------------------------------------
(* Review *)

\* patch_mapping: a new value or none, a source or none, confirmed or not.
BeginPatch(r, j, v) ==
  /\ job[j].status \in {"reviewing", "mapping"}
  /\ HasRow(mapping[j][v])
  /\ LET seen == mapping[j][v]
         Patch(new, n) ==
           /\ said' = n
           /\ Take(r, [pc |-> "patch", job |-> j, var |-> v,
                       seen |-> seen, new |-> new])
         present == {t \in Source : HasRow(src[t])}
     IN \E c \in BOOLEAN, s \in {seen.source} \cup present :
          LET new == [seen EXCEPT !.confirmed = c, !.source = s] IN
          \/ Patch(new, said)
          \/ said < MaxSaid /\ Patch([new EXCEPT !.value = said + 1], said + 1)
  /\ UNCHANGED <<db, stored, doc, faults, known, reviewed>>

\* regenerate_variable asks in any status.
BeginRegenerate(r, j, v) ==
  /\ Exists(j)
  /\ said < MaxSaid /\ said' = said + 1
  /\ \E a \in Answers(j) :
       Take(r, [pc |-> "answered", job |-> j, var |-> v, new |-> a])
  /\ UNCHANGED <<db, stored, doc, faults, known, reviewed>>

\* Mutant: the new value keeps the old confirmation.
RegeneratedKept(seen, a) ==
  IF HasRow(seen) THEN [a EXCEPT !.id = seen.id, !.confirmed = seen.confirmed]
  ELSE a

\* A row that exists is updated.
Regenerated(seen, a) == IF HasRow(seen) THEN [a EXCEPT !.id = seen.id] ELSE a

ReadRow(r) ==
  LET seen == mapping[req[r].job][req[r].var] IN
  /\ At(r, "answered")
  /\ req' = [req EXCEPT ![r] = [pc |-> "regenerate", job |-> @.job, var |-> @.var,
                                seen |-> seen, new |-> Regenerated(seen, @.new)]]
  /\ UNCHANGED <<db, stored, doc, said, faults, hist>>

Merged(row, seen, new) ==
  [c \in DOMAIN new |->
     IF HasRow(seen) /\ new[c] = seen[c] THEN row[c] ELSE new[c]]

\* Both commit the columns they changed, if the row is still the one they
\* read and the constraints allow it.
SaveRow(r) ==
  LET q == req[r]
      row == mapping[q.job][q.var]
      to == Merged(row, q.seen, q.new)
  IN
  /\ q.pc \in {"patch", "regenerate"} /\ Done(r)
  /\ IF row.id = q.seen.id /\ Sourced(to)
     THEN /\ mapping' = [mapping EXCEPT ![q.job][q.var] = to]
          /\ known' = IF /\ q.pc = "patch"
                         /\ \/ q.new.value # q.seen.value
                            \/ q.new.confirmed /\ ~ q.seen.confirmed
                      THEN known \cup {q.new.value} ELSE known
     ELSE UNCHANGED <<mapping, known>>
  /\ UNCHANGED <<job, src, stored, doc, said, faults, alone, reviewed>>

\* Every required variable is confirmed.
Checked(j) == \A v \in Required : HasRow(mapping[j][v]) /\ mapping[j][v].confirmed

\* render_job writes the document, then the job.
BeginRender(r, j) ==
  /\ Exists(j) /\ MayBecome(job[j].status, "completed")
  /\ \E ack, save \in BOOLEAN :
       /\ ack \/ Checked(j)
       /\ Take(r, [pc |-> "render", job |-> j, seen |-> job[j], save |-> save])
       /\ doc' = IF ~ save THEN doc
                 ELSE [ack |-> ~ Checked(j),
                       shows |-> {mapping[j][v].value :
                                    v \in {w \in Required : HasRow(mapping[j][w])}}]
  /\ UNCHANGED <<db, stored, said, faults, known, reviewed>>

Render(r) ==
  LET q == req[r] IN
  /\ At(r, "render") /\ Done(r)
  /\ job' = [job EXCEPT ![q.job] =
       [status |-> IF q.seen.status = "completed" THEN @.status ELSE "completed",
        output |-> IF q.seen.output = q.save THEN @.output ELSE q.save]]
  /\ UNCHANGED <<src, stored, mapping, doc, said, faults, hist>>

-----------------------------------------------------------------------------
(* An error ends a request, a restart all of them; nothing is committed. *)

Fail(r) ==
  /\ ~ At(r, "idle") /\ faults < MaxFault
  /\ faults' = faults + 1
  /\ Done(r)
  /\ UNCHANGED <<db, stored, doc, said, hist>>

Restart ==
  /\ faults < MaxFault /\ faults' = faults + 1
  /\ req' = [r \in Request |-> Idle]
  /\ UNCHANGED <<db, stored, doc, said, hist>>

Begin(r) ==
  \/ \E j \in Job :
       \/ \E s \in Source : BeginSource(r, j, s)
       \/ BeginMapping(r, j) \/ BeginRender(r, j)
       \/ \E v \in Variable : BeginPatch(r, j, v) \/ BeginRegenerate(r, j, v)
  \/ \E s \in Source : BeginExclude(r, s)
  \/ BeginCleanup(r)

Step(r) ==
  \/ AddSource(r) \/ Exclude(r) \/ Cleanup(r)
  \/ SetMapping(r) \/ NothingToMap(r) \/ AskModel(r) \/ ModelFails(r)
  \/ SetFailed(r) \/ Purge(r) \/ Store(r)
  \/ ReadRow(r) \/ SaveRow(r) \/ Render(r)

Init ==
  /\ job = [j \in Job |-> [status |-> "none", output |-> FALSE]]
  /\ src = [s \in Source |-> NoRow]
  /\ stored = {}
  /\ mapping = [j \in Job |-> [v \in Variable |-> NoRow]]
  /\ doc = NoDoc
  /\ req = [r \in Request |-> Idle]
  /\ said = 0 /\ faults = 0
  /\ alone = TRUE /\ known = {} /\ reviewed = {}

Next ==
  \/ \E j \in Job : CreateJob(j)
  \/ \E s \in Source : Age(s)
  \/ \E r \in Request : Begin(r) \/ Step(r) \/ Fail(r)
  \/ Restart

Spec == Init /\ [][Next]_vars

-----------------------------------------------------------------------------

Row == {NoRow} \cup
  [id : 1 .. MaxSaid, value : Value, source : Source \cup {None}, confirmed : BOOLEAN]
SourceRow == {NoRow, Gone} \cup
  [id : {1}, job : Job, excluded : BOOLEAN, old : BOOLEAN]

TypeOK ==
  /\ job \in [Job -> [status : Status \cup {"none"}, output : BOOLEAN]]
  /\ src \in [Source -> SourceRow]
  /\ stored \in SUBSET Upload
  /\ mapping \in [Job -> [Variable -> Row]]
  /\ doc \in [ack : BOOLEAN, shows : SUBSET Value]
  /\ said \in 0 .. MaxSaid /\ faults \in 0 .. MaxFault
  /\ alone \in BOOLEAN /\ known \in SUBSET Value /\ reviewed \in SUBSET Job

\* "completed 는 반드시 reviewing 단계를 거쳐야 함" (persistence.py:30), whatever
\* requests overlap.
ReviewedFirst == \A j \in Job : job[j].status = "completed" => j \in reviewed

\* A job in review, or done, has a row for every variable, so that the check of
\* the required ones sees them all (jobs.py:431-456), also when two runs, a
\* regeneration and an edit overlap.
AllMapped ==
  \A j \in Job, v \in Variable :
    job[j].status \in {"reviewing", "completed"} => HasRow(mapping[j][v])

\* While requests do not overlap: unless the user accepts what is missing, the
\* document shows no answer of the model for a required variable that no
\* reviewer has confirmed or typed (jobs.py:716-741), whatever is edited,
\* regenerated and mapped again before.
DocumentReviewed == alone /\ ~ doc.ack => doc.shows \subseteq known \cup {0}

\* Both, and the types: no way of calling the endpoints leads around the review.
ReviewHolds == TypeOK /\ ReviewedFirst /\ DocumentReviewed

\* While requests do not overlap: a completed or failed job stays what it is
\* (persistence.py:36-37).
TerminalStays == [][\A j \in Job :
  alone' /\ job[j].status \in {"completed", "failed"} => job'[j].status = job[j].status]_vars

\* "30일 경과 자료 hard delete" (jobs.py:14): a clean-up that is not interrupted
\* deletes the sources it has selected.
ExpiredAreDeleted == [][\A r \in Request :
  At(r, "cleanup") /\ req'[r] = Idle /\ faults' = faults =>
    \A s \in req[r].srcs : ~ HasRow(src'[s])]_vars
=============================================================================
