----------------------------- MODULE MCServices -----------------------------
(***************************************************************************)
(* Two parts that share no state, side by side for TLC: a media task and   *)
(* the migrations of the database.  The part that moves is chosen at the   *)
(* start.                                                                  *)
(***************************************************************************)
EXTENDS MediaTask, Migration

VARIABLE part

(* ---- every downgrade by one step from the last revision is reached through a longer one;
   ---- the targets stop in front of each revision that a downgrade treats specially ---- *)
MCDownTargets == {0, 6, 7, 13, 24, 31, 35}

ServicesInit == part \in {"media", "migration"} /\ MediaInit /\ MigrationInit
ServicesNext ==
  /\ UNCHANGED part
  /\ \/ part = "media" /\ MediaNext /\ UNCHANGED migrationVars
     \/ part = "migration" /\ MigrationNext /\ UNCHANGED mediaVars
servicesVars == <<part, mediaVars, migrationVars>>

(* Media: requests are answered, Tencent works, and a page polls by its timer.
   Migration: the container restarts until its CMD succeeds (restart:
   unless-stopped), and a job that runs goes on: one of RunStage and FailStage
   is enabled exactly when there is a job. *)
ServicesFairness ==
  /\ WF_mediaVars(part = "media" /\ Progress)
  /\ \A r \in Request :
       /\ WF_mediaVars(part = "media" /\ Step(r))
       /\ \A t \in Task : SF_mediaVars(part = "media" /\ Poll(r, t))
  /\ WF_migrationVars(part = "migration" /\ StartUpgrade)
  /\ []<>Resting \/ []<><<part = "migration" /\ (RunStage \/ FailStage)>>_migrationVars
ServicesSpec ==
  /\ ServicesInit
  /\ [][ServicesNext]_servicesVars
  /\ ServicesFairness

\* Where the migrations move, a revision fails for known reasons only, the
\* schema depends on the revision alone, and the last one serves the models.
ChainServesModels == part = "migration" => ChainIsSound /\ ModelsAreServed

\* When jobs stop dying and nobody downgrades any more, the database comes to
\* the last revision (deploy.yml:65-80 retries until it does), unless it is
\* stuck in revision 007.
ComesToHead ==
  \/ []<>(job = Killed)
  \/ []<>(job.dir = "down")
  \/ <>[](7 \in db.torn)
  \/ <>[](part # "migration" \/ db.rev = LastRevision)
=============================================================================
