------------------------------- MODULE Migration -------------------------------
(* Alembic on the database of the backend (backend/alembic/env.py): the         *)
(* container upgrades to the last revision before it serves, a deployment       *)
(* retries that, an operator downgrades. env.py runs all revisions of a job in  *)
(* one transaction, except where a revision enters autocommit_block(). A job    *)
(* dies anywhere (the SIGKILL deploy.yml speaks of).                            *)
EXTENDS Revisions, OrmTables

CONSTANTS DownTargets   \* the revisions an operator downgrades to (a bound)
ASSUME DownTargetsAssumption == DownTargets \subseteq 0..LastRevision

VARIABLES
    db,     \* committed: schema, version, and the revisions that dead jobs left half done
    tx,     \* what the job's transaction sees
    job     \* direction, target and next stage; NoJob or Killed when there is none

migrationVars == << db, tx, job >>

Database(schema, rev, torn) == [schema |-> schema, rev |-> rev, torn |-> torn]
NoJob == [dir |-> "idle", to |-> 0, at |-> 1]
Killed == [NoJob EXCEPT !.dir = "killed"]
Resting == job \in {NoJob, Killed}

MigrationInit ==
        /\ db = Database(EmptyDatabase, 0, {})
        /\ tx = db
        /\ job = NoJob

--------------------------------------------------------------------------------
(* `alembic upgrade head`: run by the container's CMD and again by deploy.yml;  *)
(* nothing happens at the last revision.                                        *)
StartUpgrade ==
    /\ Resting
    /\ db.rev < LastRevision
    /\ job' = [dir |-> "up", to |-> LastRevision, at |-> 1]
    /\ tx' = db
    /\ UNCHANGED db

(* `alembic downgrade <rev>`. *)
StartDowngrade(to) ==
    /\ Resting
    /\ to < db.rev
    /\ job' = [dir |-> "down", to |-> to, at |-> 1]
    /\ tx' = db
    /\ UNCHANGED db

(* The revision the job is in, its stages and the stage to run next. *)
Current == IF job.dir = "up" THEN tx.rev + 1 ELSE tx.rev
Stages == IF job.dir = "up" THEN Upgrade[Current] ELSE Downgrade[Current]
Stage == Stages[job.at]
Outcome == Execute(tx.schema, Stage.ops)

(* A stage succeeds. After the last stage of a revision its version is written; *)
(* the job commits when that is the target.                                     *)
RunStage ==
    /\ ~Resting
    /\ Outcome.ok
    /\ IF job.at < Len(Stages)
       THEN /\ tx' = [tx EXCEPT !.schema = Outcome.schema, !.torn = IF Stage.auto THEN @ \cup {Current} ELSE @]
            /\ job' = [job EXCEPT !.at = @ + 1]
            /\ db' = IF Stage.auto THEN tx' ELSE db
       ELSE LET rev == IF job.dir = "up" THEN Current ELSE Current - 1
            IN  /\ tx' = Database(Outcome.schema, rev, tx.torn \ {Current})
                /\ job' = IF rev = job.to THEN NoJob ELSE [job EXCEPT !.at = 1]
                /\ db' = IF rev = job.to THEN tx' ELSE db

(* Mutant: the job goes on although the transaction is rolled back. *)
FailStageGoesOn ==
    /\ ~Resting
    /\ ~Outcome.ok
    /\ tx' = db
    /\ job' = NoJob
    /\ db' = [db EXCEPT !.torn = @ \cup {Current}]

(* A statement fails: the job ends and what it has not committed is undone. *)
FailStage ==
    /\ ~Resting
    /\ ~Outcome.ok
    /\ db' = IF Stage.auto THEN [db EXCEPT !.schema = Remains(@, Head(Stage.ops))] ELSE db
    /\ tx' = db'
    /\ job' = NoJob

(* The process or the database dies in the middle of a job. *)
Die ==
    /\ ~Resting
    /\ job' = Killed
    /\ tx' = db
    /\ UNCHANGED db

--------------------------------------------------------------------------------
(* The application served the version in the meantime, and left rows that a     *)
(* later revision may trip over.                                                *)
Served == Resting /\ db.torn = {}
Leave(t, o) == /\ ~Has(db.schema, t, o)
               /\ db' = [db EXCEPT !.schema[t].objs = @ \cup {o}]
               /\ tx' = db'
               /\ UNCHANGED job

FreeText == Obj("free", "free text department", {"department"}, "")
Twins == Obj("twins", "deleted twin", {"account_id", "transaction_hash"}, "")
Talk(n) == Obj("row", "session", {}, n)
SeededScenarios == {"scenarios of 030", "scenarios of 036"}

(* A user with any department, before 002 restricts it. *)
LeaveFreeText == /\ Served
                 /\ "users" \in DOMAIN db.schema
                 /\ ~HasObj(db.schema, "users", "check", "users_department_check")
                 /\ Leave("users", FreeText)

(* A transaction is deleted and imported again: two rows of one hash, which the *)
(* index of 008 allows.                                                         *)
LeaveTwins == /\ Served
              /\ db.rev >= 8
              /\ Leave("transactions", Twins)

(* A session is generated from a scenario that a revision inserted. *)
LeaveTalk(n) == /\ Served
                /\ HasObj(db.schema, "distribution_scenarios", "row", n)
                /\ Leave("distribution_sessions", Talk(n))

MigrationNext ==
        \/ StartUpgrade
        \/ \E to \in DownTargets : StartDowngrade(to)
        \/ RunStage \/ FailStage \/ Die
        \/ LeaveFreeText \/ LeaveTwins
        \/ \E n \in SeededScenarios : LeaveTalk(n)

MigrationSpec == MigrationInit /\ [][MigrationNext]_migrationVars

--------------------------------------------------------------------------------
(* Type invariant of the job, the transaction and the committed version. *)
JobTypeOK ==
          /\ job.dir \in {"idle", "killed", "up", "down"} /\ job.to \in 0..LastRevision
          /\ \A d \in {db, tx} : d.rev \in 0..LastRevision /\ d.torn \subseteq {7, 8}
          /\ Resting => tx = db

(* A statement of a revision fails only for a known reason: an upgrade only     *)
(* when an earlier job died in revision 007 after its autocommit_block had      *)
(* committed half of it, a downgrade also when rows written meanwhile stand     *)
(* against 008 or against the deletion of scenarios by 030 and 036. Every other *)
(* order of upgrades, downgrades, deaths and use leaves the chain passable.     *)
OnlyKnownFailures ==
    ~Resting /\ ~Outcome.ok =>
      \/ 7 \in tx.torn
      \/ job.dir = "down" /\ Current = 8 /\ Has(tx.schema, "transactions", Twins)
      \/ job.dir = "down" /\ Current \in {30, 36} /\ \E n \in SeededScenarios : Talk(n) \in tx.schema["distribution_sessions"].objs

(* The schemas that upgrades alone give, from the empty database to the last. *)
Through(S, stages) == FoldLeft(LAMBDA T, s : Execute(T, s.ops).schema, S, stages)
Straight == FoldLeft(LAMBDA seen, stages : Append(seen, Through(Last(seen), stages)),
                     << EmptyDatabase >>, Upgrade)

(* What a downgrade is known not to undo: extensions stay; the search indexes   *)
(* on the chunks that 032 dropped are gone, and updated_at is required there;   *)
(* url of a media row stays optional.                                           *)
NotUndone == {"vector", "pg_trgm", "ix_nas_text_chunks_embedding", "ix_nas_text_chunks_content_trgm"}
Shape(S) ==
    [t \in DOMAIN S |->
       [cols |-> S[t].cols,
        required |-> {<<t, c>> : c \in S[t].required}
                       \ {<<"nas_text_chunks", "updated_at">>, <<"playground_media", "url">>},
        objs |-> {o \in S[t].objs : o.kind \notin {"row", "free", "twins"} /\ o.name \notin NotUndone}]]

(* Whatever way the database came to a revision, its schema is the one the      *)
(* upgrades alone give, but for what Shape leaves out: IF NOT EXISTS and        *)
(* IF EXISTS never hide an object that is missing or left over.                 *)
SchemaIsOfItsRevision ==
    Resting /\ db.torn = {} => Shape(db.schema) = Shape(Straight[db.rev + 1])

(* The chain as a whole: its types, its failures and the schemas it gives.     *)
ChainIsSound == JobTypeOK /\ OnlyKnownFailures /\ SchemaIsOfItsRevision

(* At the last revision the ORM classes find every column, reference and        *)
(* uniqueness they use, no column they do not know stands in the way of an      *)
(* INSERT, and every ON CONFLICT finds its index.                               *)
ModelsAreServed ==
    Resting /\ db.torn = {} /\ db.rev = LastRevision =>
      /\ \A m \in Models : Serves(db.schema, m)
      /\ \A c \in ConflictTargets : HasUnique(db.schema, c[1], c[2])
================================================================================
