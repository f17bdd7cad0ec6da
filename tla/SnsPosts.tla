------------------------------ MODULE SnsPosts ------------------------------
(***************************************************************************)
(* The posts and comments of one social-media account.  Collections ask    *)
(* the platform first and save later: what a request read of a row and     *)
(* what it makes of it are kept until its commit, which writes the columns *)
(* it changed and no others.  A partial unique index allows one row of a   *)
(* media item with an external_id; rows typed in or imported need none.    *)
(***************************************************************************)
EXTENDS Integers, SequencesExt

CONSTANTS Collectors,   \* requests served at the same time
          Media,        \* items of the platform, a later one being newer
          Newest,       \* items a quick collection asks for
          MaxPosts,     \* bound: rows
          MaxRuns       \* bound: requests started

ASSUME SnsAssumption == Media \subseteq Nat \ {0} /\ Newest \in Nat /\ MaxPosts \in Nat /\ MaxRuns \in Nat

VARIABLES platform,   \* of the account
          remote,     \* media item -> its comments on the platform; those not published are not in the domain
          posts,      \* social_posts
          notes,      \* social_post_comments: <<post, comment>> -> is it translated
          series,     \* social_post_metric_snapshots of today: post -> views
          jobs,       \* request -> what it has read and not saved yet
          runs,       \* requests started
          reply       \* the answer given in the last step, if it gave one
snsVars == <<platform, remote, posts, notes, series, jobs, runs, reply>>

\* ext and url name the media item; views and count are 0 when NULL; summary is the set of comments summed up.
Post(e, u, t, v, n) == [ext |-> e, url |-> u, tag |-> t, views |-> v, count |-> n, summary |-> {}, live |-> TRUE]
NoJob == [op |-> "none", got |-> {}, adds |-> {}, read |-> <<>>, new |-> <<>>, post |-> 0]

Published == DOMAIN remote
Comments(m) == {<<m, 1>>}
LiveRows == {i \in DOMAIN posts : posts[i].live}
RowsOf(m) == {i \in LiveRows : posts[i].ext = m}
Views == IF platform = "youtube" THEN 1 ELSE 0

SnsInit == /\ platform \in {"facebook", "instagram", "youtube"}
           /\ remote = <<>>
           /\ posts = <<>>
           /\ notes = <<>>
           /\ series = <<>>
           /\ jobs = [r \in Collectors |-> NoJob]
           /\ runs = 0
           /\ reply = "none"

(* ---- the platform ---- *)
Publish(m) == /\ m \notin Published /\ \A n \in Media : n < m => n \in Published
              /\ remote' = [n \in Published \cup {m} |-> IF n = m THEN {} ELSE remote[n]]
              /\ UNCHANGED <<platform, posts, notes, series, jobs, runs>>
CommentOn(m) == /\ m \in Published
                /\ \E c \in Comments(m) \ remote[m] : remote' = [remote EXCEPT ![m] = @ \cup {c}]
                /\ UNCHANGED <<platform, posts, notes, series, jobs, runs>>

(* ---- rows written by hand: POST /posts, /contents, PATCH, the Excel import, the reset ---- *)
\* Each is one request, done at once.
ByHand == runs < MaxRuns /\ runs' = runs + 1 /\ UNCHANGED <<platform, remote, jobs>>
AddRow(p) == /\ Len(posts) < MaxPosts
             /\ posts' = Append(posts, p)
CreateManualContent(m) == /\ AddRow(Post(0, m, "tag", 0, 0))
                          /\ ByHand /\ UNCHANGED <<notes, series>>
UpdatePost(i) == /\ posts[i].live /\ posts[i].tag = "none"
                 /\ posts' = [posts EXCEPT ![i].tag = "tag"]
                 /\ ByHand /\ UNCHANGED <<notes, series>>
\* _upsert_posts finds a row by day, title and url; two of them are an error; NULL keeps what is there.
ImportPost(m, v) ==
  LET same == {i \in LiveRows : posts[i].url = m}
  IN /\ IF same = {} THEN AddRow(Post(0, m, "none", v, 0))
        ELSE /\ Cardinality(same) = 1 /\ v # 0
             /\ posts' = [i \in DOMAIN posts |-> IF i \in same THEN [posts[i] EXCEPT !.views = v] ELSE posts[i]]
     /\ ByHand /\ UNCHANGED <<notes, series>>
\* Mutant: comments and metrics stay behind.
ResetKeepsNotes == /\ LiveRows # {}
                   /\ posts' = [i \in DOMAIN posts |-> [Post(posts[i].ext, 0, "none", 0, 0) EXCEPT !.live = FALSE]]
                   /\ UNCHANGED <<notes, series>>
                   /\ ByHand
\* reset_account_posts, and the hard deletion of the account: comments and metrics go with the rows.
ResetAccountPosts == /\ LiveRows # {}
                     /\ posts' = [i \in DOMAIN posts |-> [Post(posts[i].ext, 0, "none", 0, 0) EXCEPT !.live = FALSE]]
                     /\ notes' = <<>> /\ series' = <<>>
                     /\ ByHand

(* ---- a request ---- *)
Begins(r, j) == /\ jobs[r].op = "none" /\ runs < MaxRuns
                /\ runs' = runs + 1
                /\ jobs' = [jobs EXCEPT ![r] = j]
                /\ UNCHANGED <<platform, remote, posts, notes, series>>
Answers(r, a) == jobs' = [jobs EXCEPT ![r] = NoJob] /\ reply' = a /\ UNCHANGED <<platform, remote, runs>>
Fails(r) == Answers(r, "failed") /\ UNCHANGED <<posts, notes, series>>

\* fetch_posts: the newest items, or all of them; <<item, comments counted>>.
FetchPosts(full) == {<<m, Cardinality(remote[m])>> : m \in {n \in Published : full \/ Cardinality({k \in Published : k > n}) < Newest}}
\* The unit of work: of the columns it loaded it writes those it changed.
Written(now, read, new) == [f \in DOMAIN now |-> IF read[f] = new[f] THEN now[f] ELSE new[f]]
Stale(j) == \E i \in DOMAIN j.new : j.new[i] # j.read[i] /\ ~posts[i].live
Saved(j) == [i \in DOMAIN posts |-> IF i \in DOMAIN j.new THEN Written(posts[i], j.read[i], j.new[i]) ELSE posts[i]]
\* upsert_post sets every field of PostCreate, those the collector left out to None.
Collected(row, g) == [Post(g[1], g[1], "none", Views, g[2]) EXCEPT !.summary = row.summary]
Inserts(j) == SetToSeq({Post(g[1], g[1], "none", Views, g[2]) : g \in j.adds})
\* Mutant: no unique index.
NeverTwice(rows) == FALSE
Twice(rows) == \E i, k \in DOMAIN rows : i # k /\ rows[i].live /\ rows[k].live /\ rows[i].ext = rows[k].ext /\ rows[i].ext # 0
Result(j) == Saved(j) \o Inserts(j)

BeginCollect(r, full, op) == Begins(r, [NoJob EXCEPT !.op = op, !.got = FetchPosts(full)])
\* The rows of the items fetched, by external_id.
SelectPosts(r) ==
  LET j == jobs[r]
      found == {i \in LiveRows : \E g \in j.got : posts[i].ext = g[1]}
      itemOf(i) == CHOOSE g \in j.got : posts[i].ext = g[1]
      kept == IF j.op = "metrics" THEN LiveRows ELSE found
  IN /\ j.op \in {"collect", "metrics"} /\ j.post = 0
     /\ jobs' = [jobs EXCEPT ![r].post = 1, ![r].adds = {g \in j.got : RowsOf(g[1]) = {}},
                             ![r].read = [i \in kept |-> posts[i]],
                             ![r].new = [i \in kept |-> IF i \in found THEN Collected(posts[i], itemOf(i)) ELSE posts[i]]]
     /\ UNCHANGED <<platform, remote, posts, notes, series, runs>>
CommitCollect(r) ==
  LET j == jobs[r]
  IN /\ j.op = "collect" /\ j.post = 1
     /\ Len(Result(j)) <= MaxPosts
     /\ IF Twice(Result(j)) \/ Stale(j) THEN Fails(r)
        ELSE posts' = Result(j) /\ Answers(r, "ok") /\ UNCHANGED <<notes, series>>

\* writeback_post_metrics: what the platform does not provide stays; a post that fails is left out.
WrittenBack(row) == LET m == IF row.ext # 0 THEN row.ext ELSE row.url
                    IN [row EXCEPT !.views = IF Views = 0 THEN @ ELSE Views, !.count = Cardinality(remote[m])]
HasRef(row) == row.ext # 0 \/ row.url # 0
CommitMetrics(r) ==
  LET j == jobs[r]
      rows == Result(j)
      mine == DOMAIN j.new \cup (Len(posts) + 1 .. Len(rows))
      known == {i \in mine : rows[i].live /\ HasRef(rows[i]) /\ (rows[i].ext \in Published \/ rows[i].url \in Published)}
  IN /\ j.op = "metrics" /\ j.post = 1
     /\ Len(rows) <= MaxPosts
     /\ \E bad \in SUBSET known :
          LET good == known \ bad
              out == [i \in DOMAIN rows |-> IF i \in good THEN WrittenBack(rows[i]) ELSE rows[i]]
          IN IF Twice(rows) \/ Stale(j) THEN Fails(r)
             ELSE /\ posts' = out
                  /\ series' = [i \in DOMAIN series \cup good |-> IF i \in good THEN Views ELSE series[i]]
                  /\ Answers(r, "ok") /\ UNCHANGED notes

(* ---- comments ---- *)
\* A row with only a permalink gets its media id, on Instagram; a resolution may fail.
BeginComments(r) ==
  \E solved \in SUBSET {i \in LiveRows : platform = "instagram" /\ posts[i].ext = 0 /\ posts[i].url \in Published} :
    Begins(r, [NoJob EXCEPT !.op = "comments", !.read = [i \in LiveRows |-> posts[i]],
                            !.new = [i \in LiveRows |-> IF i \in solved THEN [posts[i] EXCEPT !.ext = posts[i].url] ELSE posts[i]]])
\* upsert_comment: the text is replaced, the translation stays; a post with count 0 is skipped.
CommentsFor(rows, i) == LET m == IF rows[i].ext # 0 THEN rows[i].ext ELSE rows[i].url
                        IN {c \in remote[m] : rows[i].live}
CommitComments(r) ==
  LET j == jobs[r]
      rows == Saved(j)
      asked == {i \in DOMAIN j.new : HasRef(j.new[i]) /\ j.new[i].count > 0 /\ j.new[i].url \in Published}
  IN /\ j.op = "comments"
     /\ \E bad \in SUBSET asked :
          LET put == UNION {{<<i, c>> : c \in CommentsFor(rows, i)} : i \in asked \ bad}
              gone == \E i \in asked \ bad : ~posts[i].live /\ remote[j.new[i].url] # {}
          IN IF Twice(rows) \/ Stale(j) \/ gone THEN Fails(r)
             ELSE /\ posts' = rows
                  /\ notes' = [k \in DOMAIN notes \cup put |->
                                 IF k \in DOMAIN notes THEN notes[k] ELSE FALSE]
                  /\ Answers(r, "ok") /\ UNCHANGED series

NotesOf(i) == {k \in DOMAIN notes : k[1] = i}
\* analyze_post_comments: a summary that is there is returned, unless forced; the model reads the comments and answers later.
BeginAnalyze(r, i, force) ==
  /\ posts[i].live /\ NotesOf(i) # {}
  /\ force \/ posts[i].summary = {}
  /\ Begins(r, [NoJob EXCEPT !.op = "analyze", !.post = i, !.got = {k[2] : k \in NotesOf(i)}])
EndAnalyze(r) ==
  LET j == jobs[r]
  IN /\ j.op = "analyze"
     /\ IF ~posts[j.post].live THEN Fails(r)
        ELSE posts' = [posts EXCEPT ![j.post].summary = j.got] /\ Answers(r, "ok") /\ UNCHANGED <<notes, series>>
\* translate_post_comments: those without a translation, or all of them when forced.
BeginTranslate(r, i, force) ==
  LET targets == {k \in NotesOf(i) : force \/ ~notes[k]}
  IN /\ posts[i].live /\ targets # {}
     /\ Begins(r, [NoJob EXCEPT !.op = "translate", !.got = targets])
EndTranslate(r) ==
  LET j == jobs[r]
  IN /\ j.op = "translate"
     /\ IF j.got \ DOMAIN notes # {} THEN Fails(r)
        ELSE /\ notes' = [k \in DOMAIN notes |-> notes[k] \/ k \in j.got]
             /\ Answers(r, "ok") /\ UNCHANGED <<posts, series>>
\* The platform or the language model answers with an error: nothing is saved.
PlatformFails(r) == jobs[r].op # "none" /\ Fails(r)

SnsNext ==
  \/ /\ reply' = "none"
     /\ \/ \E m \in Media : Publish(m) \/ CommentOn(m)
        \/ \E m \in Published \cup {0} : CreateManualContent(m)
        \/ \E m \in Published, v \in {0, 2} : ImportPost(m, v)
        \/ ResetAccountPosts
        \/ \E i \in DOMAIN posts : UpdatePost(i)
        \/ \E r \in Collectors :
             \/ \E full \in BOOLEAN, op \in {"collect", "metrics"} : BeginCollect(r, full, op)
             \/ SelectPosts(r)
             \/ BeginComments(r)
             \/ \E i \in DOMAIN posts, force \in BOOLEAN : BeginAnalyze(r, i, force) \/ BeginTranslate(r, i, force)
  \/ \E r \in Collectors :
       \/ CommitCollect(r)
       \/ CommitMetrics(r)
       \/ CommitComments(r)
       \/ EndAnalyze(r)
       \/ EndTranslate(r)
       \/ PlatformFails(r)

SnsSpec == SnsInit /\ [][SnsNext]_snsVars

(***************************************************************************)
(* Whatever requests overlap, a collection that is answered with success   *)
(* leaves exactly one row of every item it fetched, unless the row it      *)
(* found was deleted meanwhile (upsert_post and the unique index).         *)
(***************************************************************************)
CollectedOnce ==
  [][\A r \in Collectors :
       (jobs[r].op \in {"collect", "metrics"} /\ jobs'[r].op = "none" /\ reply' = "ok") =>
          \A g \in jobs[r].got :
            LET rows == {i \in DOMAIN posts' : posts'[i].ext = g[1]}
            IN /\ Cardinality({i \in rows : posts'[i].live}) <= 1
               /\ \E i \in rows : posts'[i].live \/ i \in DOMAIN jobs[r].read]_snsVars

(***************************************************************************)
(* A comment is kept with a row that is there, of the item it was written  *)
(* on: no late answer of a platform or a language model brings back the    *)
(* comments of a row that was reset meanwhile, or hangs them on another.   *)
(***************************************************************************)
CommentsOnTheirPost ==
  \A k \in DOMAIN notes : /\ posts[k[1]].live
                          /\ k[2][1] \in {posts[k[1]].ext, posts[k[1]].url}

(***************************************************************************)
(* sns_collection.py 258-259: what a platform does not provide, as the     *)
(* views of a Facebook post, a metrics collection does not touch.          *)
(***************************************************************************)
MetricsKeepTheRest ==
  [][\A r \in Collectors :
       (jobs[r].op = "metrics" /\ jobs'[r].op = "none" /\ reply' = "ok" /\ platform = "facebook") =>
          \A i \in LiveRows : posts'[i].views = posts[i].views]_snsVars
=============================================================================
