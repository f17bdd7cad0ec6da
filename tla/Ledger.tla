------------------------------- MODULE Ledger -------------------------------
(***************************************************************************)
(* The books of the finance module: accounts, the transactions imported    *)
(* from statements or entered by hand, the log of each upload and the      *)
(* daily balance snapshots.  Requests run concurrently; a request's reads  *)
(* and its commit are separate steps.  What a request has inserted before  *)
(* its commit (ins) makes another insert of the same entry wait, as the    *)
(* partial unique index (account, hash) WHERE NOT is_deleted does.         *)
(***************************************************************************)
EXTENDS Statements, FiniteSets

CONSTANTS Requests,     \* requests served at the same time
          Accounts,     \* account numbers
          Files,        \* the statements people upload
          Manual,       \* the entries people type in
          ChunkSize,    \* INSERT_CHUNK_SIZE
          Today,        \* the day every request runs on
          MaxRequests   \* bound: requests started

ASSUME LedgerAssumption == /\ ChunkSize \in Nat \ {0} /\ MaxRequests \in Nat /\ Today \in Nat
                           /\ {"none", "null", "gone"} \cap Accounts = {}
                           /\ \A f \in Files : IsFiniteSet(DOMAIN f.rows)

VARIABLES accounts,   \* account number -> is there one, its balance and the day it was synchronised
          rows,       \* transactions: id -> row
          logs,       \* upload_logs: id -> log; the id is also the order of creation
          snaps,      \* account_balance_snapshots: <<account, date>> -> balance
          reqs,       \* request -> what it has read and not committed yet
          clock       \* requests started so far
ledgerVars == <<accounts, rows, logs, snaps, reqs, clock>>

\* gen tells an account from an earlier one of the same number.
NoAccount == [there |-> FALSE, gen |-> 0, bal |-> 0, synced |-> 0]
NoRequest == [op |-> "none", acct |-> "none", gen |-> 0, at |-> 0, phase |-> "none", creates |-> FALSE, file |-> <<>>,
              left |-> <<>>, ins |-> {}, dups |-> 0, plan |-> {}, from |-> 0, to |-> 0, todo |-> {}, dates |-> {}, put |-> {}]

\* compute_transaction_hash: the account, the day without the time, the amount, type, balance and description.
TransactionHash(a, d) == <<a, d.date, d.amount, d.type, d.bal, d.desc>>

Live(a) == {i \in DOMAIN rows : rows[i].acct = a /\ rows[i].live}
LiveHashes == {rows[i].hash : i \in {j \in DOMAIN rows : rows[j].live}}
Hashes(a) == {rows[i].hash : i \in {j \in DOMAIN rows : rows[j].acct = a}}
Pending(r) == UNION {{x.hash : x \in reqs[q].ins} : q \in {p \in Requests \ {r} : reqs[p].op # "none"}}
Current(r) == accounts[reqs[r].acct].there /\ accounts[reqs[r].acct].gen = reqs[r].gen
Hold(a) == \E q \in Requests : reqs[q].op # "none" /\ reqs[q].phase = "open" /\ reqs[q].acct = a

NewRow(a, d, log, at) == [acct |-> a, date |-> d.date, bal |-> d.bal,
                          hash |-> TransactionHash(a, d), log |-> log, live |-> TRUE, at |-> at]
\* The rows in some order, with the log of their upload.
Logged(S, log) == LET s == SetToSeq(S) IN [i \in DOMAIN s |-> [s[i] EXCEPT !.log = log]]
NextIds(s) == Cardinality(DOMAIN rows) + 1 .. Cardinality(DOMAIN rows) + Len(s)
Added(s) == [i \in DOMAIN rows \cup NextIds(s) |->
               IF i \in DOMAIN rows THEN rows[i] ELSE s[i - Cardinality(DOMAIN rows)]]

LedgerInit == /\ accounts = [a \in Accounts |-> NoAccount]
              /\ rows = <<>>
              /\ logs = <<>>
              /\ snaps = <<>>
              /\ reqs = [r \in Requests |-> NoRequest]
              /\ clock = 0

IsIdle(r) == reqs[r].op = "none"
Finish(r) == reqs' = [reqs EXCEPT ![r] = NoRequest]
StartRequest(r, q) == /\ IsIdle(r) /\ clock < MaxRequests
                      /\ clock' = clock + 1
                      /\ reqs' = [reqs EXCEPT ![r] = q]
\* An answer of 4xx or 5xx: the transaction is rolled back.
Fail(r) == Finish(r) /\ UNCHANGED <<accounts, rows, logs, snaps, clock>>

(* ---- accounts ---- *)
CreateAccount(a) == /\ ~accounts[a].there
                    /\ ~Hold(a)
                    /\ accounts' = [accounts EXCEPT ![a] = [NoAccount EXCEPT !.there = TRUE, !.gen = accounts[a].gen + 1]]
                    /\ UNCHANGED <<rows, logs, snaps, reqs, clock>>

\* Counting the rows and deleting them are separate statements; the row of the account
\* goes last and cannot go while an upload in progress refers to it.
BeginDeleteAccount(r, a, force) ==
  /\ accounts[a].there
  /\ \A i \in DOMAIN rows : rows[i].acct = a => force
  /\ StartRequest(r, [NoRequest EXCEPT !.op = "delete", !.acct = a, !.gen = accounts[a].gen, !.at = clock + 1,
                                !.left = IF \E i \in DOMAIN rows : rows[i].acct = a THEN <<"rows">> ELSE <<>>])
  /\ UNCHANGED <<accounts, rows, logs, snaps>>
EndDeleteAccount(r) ==
  LET a == reqs[r].acct
      mine == {i \in DOMAIN rows : rows[i].acct = a}
  IN /\ reqs[r].op = "delete" /\ ~Hold(a)
     /\ IF ~Current(r) \/ (reqs[r].left = <<>> /\ mine # {})
        THEN Fail(r)
        ELSE /\ accounts' = [accounts EXCEPT ![a] = [NoAccount EXCEPT !.gen = accounts[a].gen]]
             /\ rows' = [i \in DOMAIN rows |-> IF i \in mine THEN [rows[i] EXCEPT !.acct = "gone", !.live = FALSE] ELSE rows[i]]
             /\ logs' = [l \in DOMAIN logs |-> IF logs[l].acct = a THEN [logs[l] EXCEPT !.acct = "null"] ELSE logs[l]]
             /\ snaps' = [k \in {x \in DOMAIN snaps : x[1] # a} |-> snaps[k]]
             /\ Finish(r) /\ UNCHANGED clock
\* Deleting the rows came before the commit of an upload whose rows then keep the account.
DeleteTooEarly(r) == reqs[r].op = "delete" /\ Hold(reqs[r].acct) /\ Fail(r)

(* ---- an import: find or create the account, open the log, insert chunk by chunk, commit ---- *)
BeginConfirm(r, a, f, create) ==
  /\ accounts[a].there \/ create
  /\ StartRequest(r, [NoRequest EXCEPT !.op = "confirm", !.acct = a, !.gen = accounts[a].gen, !.file = f, !.at = clock + 1, !.phase = "found",
                                !.creates = ~accounts[a].there, !.left = Drafts(f)])
  /\ UNCHANGED <<accounts, rows, logs, snaps>>
\* The log's foreign key holds the account; two requests creating one number wait for each other.
OpenLog(r) ==
  /\ reqs[r].phase = "found" /\ ~IsIdle(r)
  /\ reqs[r].creates => ~Hold(reqs[r].acct)
  /\ IF reqs[r].creates = accounts[reqs[r].acct].there \/ reqs[r].gen # accounts[reqs[r].acct].gen
     THEN Fail(r)
     ELSE /\ reqs' = [reqs EXCEPT ![r].phase = "open"]
          /\ UNCHANGED <<accounts, rows, logs, snaps, clock>>
Chunk(s) == SubSeq(s, 1, IF Len(s) < ChunkSize THEN Len(s) ELSE ChunkSize)
\* Mutant: the entry after each chunk is skipped.
RestShort(s) == SubSeq(s, Len(Chunk(s)) + 2, Len(s))
Rest(s) == SubSeq(s, Len(Chunk(s)) + 1, Len(s))
\* ON CONFLICT DO NOTHING: of the chunk's rows, those whose hash nobody holds, each once.
FreshRows(r, chunk) ==
  LET a == reqs[r].acct
      held == LiveHashes \cup {x.hash : x \in reqs[r].ins}
      new == {i \in DOMAIN chunk : /\ TransactionHash(a, chunk[i]) \notin held
                                   /\ \A j \in 1 .. i - 1 : TransactionHash(a, chunk[j]) # TransactionHash(a, chunk[i])}
  IN {NewRow(a, chunk[i], 0, reqs[r].at) : i \in new}
\* Mutant: the duplicates of the last chunk only are counted.
InsertChunkUncounted(r) ==
  LET chunk == Chunk(reqs[r].left)
      fresh == FreshRows(r, chunk)
  IN /\ reqs[r].op = "confirm" /\ reqs[r].phase = "open" /\ reqs[r].left # <<>>
     /\ {TransactionHash(reqs[r].acct, chunk[i]) : i \in DOMAIN chunk} \cap Pending(r) = {}
     /\ reqs' = [reqs EXCEPT ![r].left = Rest(@), ![r].ins = @ \cup fresh, ![r].dups = Len(chunk) - Cardinality(fresh)]
     /\ UNCHANGED <<accounts, rows, logs, snaps, clock>>
InsertChunk(r) ==
  LET chunk == Chunk(reqs[r].left)
      fresh == FreshRows(r, chunk)
  IN /\ reqs[r].op = "confirm" /\ reqs[r].phase = "open" /\ reqs[r].left # <<>>
     /\ {TransactionHash(reqs[r].acct, chunk[i]) : i \in DOMAIN chunk} \cap Pending(r) = {}
     /\ reqs' = [reqs EXCEPT ![r].left = Rest(@), ![r].ins = @ \cup fresh,
                             ![r].dups = @ + Len(chunk) - Cardinality(fresh)]
     /\ UNCHANGED <<accounts, rows, logs, snaps, clock>>
\* The server refuses a chunk (a deadlock, for one): the transaction is lost, and so the request.
ChunkFails(r) == /\ reqs[r].op = "confirm" /\ reqs[r].phase = "open" /\ reqs[r].left # <<>>
                 /\ Fail(r)
\* The balance and the day of the last entry of the file become those of the account.
Synchronised(acc, ds) == IF ds = <<>> THEN acc
                         ELSE [acc EXCEPT !.bal = IF Last(ds).bal = 0 THEN @ ELSE Last(ds).bal, !.synced = Last(ds).date]
CommitConfirm(r) ==
  LET q == reqs[r]
      ds == Drafts(q.file)
      ins == Logged(q.ins, Len(logs) + 1)
  IN /\ q.op = "confirm" /\ q.phase = "open" /\ q.left = <<>>
     /\ logs' = Append(logs, [acct |-> q.acct, file |-> q.file, op |-> "confirm", status |-> "completed", rows |-> Len(ds),
                              imported |-> Len(ins), dups |-> q.dups])
     /\ rows' = Added(ins)
     /\ accounts' = [accounts EXCEPT ![q.acct] = [Synchronised(@, ds) EXCEPT !.there = TRUE,
                                                        !.gen = IF q.creates THEN @ + 1 ELSE @]]
     /\ Finish(r) /\ UNCHANGED <<snaps, clock>>

(* ---- the older upload: all hashes of the account are read first, deleted rows included ---- *)
BeginUpload(r, a, f) ==
  /\ accounts[a].there
  /\ StartRequest(r, [NoRequest EXCEPT !.op = "upload", !.acct = a, !.gen = accounts[a].gen, !.file = f, !.at = clock + 1, !.phase = "found"])
  /\ UNCHANGED <<accounts, rows, logs, snaps>>
\* The entries nobody has loaded, each once; the others count as duplicates.
Unseen(a, s, seen, at) ==
  LET new == {i \in DOMAIN s : /\ TransactionHash(a, s[i]) \notin seen
                               /\ \A j \in 1 .. i - 1 : TransactionHash(a, s[j]) # TransactionHash(a, s[i])}
  IN {NewRow(a, s[i], 0, at) : i \in new}
ReadHashes(r) ==
  LET q == reqs[r]
      s == LegacyRows(q.file)
      fresh == Unseen(q.acct, s, Hashes(q.acct), q.at)
  IN /\ q.op = "upload" /\ q.phase = "open" /\ q.left = <<>>
     /\ ~LegacyRefuses(q.file)
     /\ reqs' = [reqs EXCEPT ![r].left = <<"read">>, ![r].plan = fresh, ![r].dups = Len(s) - Cardinality(fresh)]
     /\ UNCHANGED <<accounts, rows, logs, snaps, clock>>
\* A file the parsers refuse leaves a log of its failure.
RefuseUpload(r) ==
  LET q == reqs[r]
  IN /\ q.op = "upload" /\ q.phase = "open" /\ q.left = <<>>
     /\ LegacyRefuses(q.file)
     /\ logs' = Append(logs, [acct |-> q.acct, file |-> q.file, op |-> "upload", status |-> "failed", rows |-> 0,
                              imported |-> 0, dups |-> 0])
     /\ Finish(r) /\ UNCHANGED <<accounts, rows, snaps, clock>>
CommitUpload(r) ==
  LET q == reqs[r]
      ins == Logged(q.plan, Len(logs) + 1)
      mine == {x.hash : x \in q.plan}
  IN /\ q.op = "upload" /\ q.phase = "open" /\ q.left # <<>>
     /\ mine \cap Pending(r) = {}
     /\ IF mine \cap LiveHashes # {}
        THEN Fail(r)
        ELSE /\ logs' = Append(logs, [acct |-> q.acct, file |-> q.file, op |-> "upload", status |-> "completed",
                                      rows |-> Len(LegacyRows(q.file)), imported |-> Len(ins), dups |-> q.dups])
             /\ rows' = Added(ins)
             /\ Finish(r) /\ UNCHANGED <<accounts, snaps, clock>>

(* ---- single transactions; PATCH changes fields no other step reads, and not the hash ---- *)
BeginCreate(r, a, d) ==
  /\ accounts[a].there
  /\ TransactionHash(a, d) \notin LiveHashes
  /\ StartRequest(r, [NoRequest EXCEPT !.op = "create", !.acct = a, !.gen = accounts[a].gen, !.at = clock + 1, !.plan = {NewRow(a, d, 0, clock + 1)}])
  /\ UNCHANGED <<accounts, rows, logs, snaps>>
\* The flush meets the index; a later entry than the last synchronisation moves the balance.
EndCreate(r) ==
  LET q == reqs[r]
      row == CHOOSE x \in q.plan : TRUE
      acc == accounts[q.acct]
  IN /\ q.op = "create"
     /\ row.hash \notin Pending(r)
     /\ IF row.hash \in LiveHashes \/ ~Current(r)
        THEN Fail(r)
        ELSE /\ rows' = Added(<<row>>)
             /\ accounts' = IF row.date >= acc.synced
                            THEN [accounts EXCEPT ![q.acct] = [@ EXCEPT !.bal = IF row.bal = 0 THEN @ ELSE row.bal,
                                                                        !.synced = Today]]
                            ELSE accounts
             /\ Finish(r) /\ UNCHANGED <<logs, snaps, clock>>
SoftDelete(i) == /\ rows[i].live
                 /\ rows' = [rows EXCEPT ![i].live = FALSE]
                 /\ UNCHANGED <<accounts, logs, snaps, reqs, clock>>
\* The index refuses a row whose entry has been loaded again.
RestoreRow(i) == /\ ~rows[i].live /\ rows[i].acct # "gone"
                 /\ rows[i].hash \notin LiveHashes \cup Pending("none")
                 /\ rows' = [rows EXCEPT ![i].live = TRUE]
                 /\ UNCHANGED <<accounts, logs, snaps, reqs, clock>>

(* ---- balance snapshots ---- *)
\* _list_transaction_dates
TransactionDates(a, from, to) == {rows[i].date : i \in Live(a)} \cap (from .. to)
\* Rows with a balance of one day, the newest; rows of one transaction were created at the same time.
LastOf(S) == {i \in S : \A j \in S : rows[j].at <= rows[i].at}
\* Days are counted from 1.
WithBalance(a, to) == {i \in Live(a) : rows[i].bal # 0 /\ rows[i].date \in 1 .. to}
\* compute_balance_at: the last row by (date, created_at) up to the day; the reference.
BalanceAt(a, d) == LET S == WithBalance(a, d)
                       newest == {i \in S : \A j \in S : rows[j].date <= rows[i].date}
                   IN {rows[i].bal : i \in LastOf(newest)}
\* _daily_closing_balances: one row of each day that has a balance.
Closings(a, to) ==
  LET days == {rows[i].date : i \in WithBalance(a, to)}
      of(d) == {rows[i].bal : i \in LastOf({j \in WithBalance(a, to) : rows[j].date = d})}
  IN {c \in [days -> UNION {of(d) : d \in days}] : \A d \in days : c[d] \in of(d)}
\* ORDER BY the day.
Ascending(days) == {s \in [1 .. Cardinality(days) -> days] : \A i, j \in DOMAIN s : i < j => s[i] < s[j]}
\* Mutant: a day does not take the closing of its own.
ReachedBefore(ds, cs) ==
  {ptr \in [DOMAIN ds -> 0 .. Len(cs)] : \A k \in DOMAIN ds :
     LET from == IF k = 1 THEN 0 ELSE ptr[k - 1]
     IN /\ from <= ptr[k] /\ \A j \in from + 1 .. ptr[k] : cs[j] < ds[k]
        /\ ptr[k] < Len(cs) => cs[ptr[k] + 1] >= ds[k]}
\* The merge of two ascending lists: each day goes on in the closings from where the last one stopped.
Reached(ds, cs) ==
  {ptr \in [DOMAIN ds -> 0 .. Len(cs)] : \A k \in DOMAIN ds :
     LET from == IF k = 1 THEN 0 ELSE ptr[k - 1]
     IN /\ from <= ptr[k] /\ \A j \in from + 1 .. ptr[k] : cs[j] <= ds[k]
        /\ ptr[k] < Len(cs) => cs[ptr[k] + 1] > ds[k]}
\* A day takes the last closing it has reached.
Snapshots(a, closing, ds, cs, ptr) == {<<a, ds[k], closing[cs[ptr[k]]]>> : k \in {j \in DOMAIN ds : ptr[j] # 0}}

BeginRecompute(r, as, from, to) ==
  /\ StartRequest(r, [NoRequest EXCEPT !.op = "recompute", !.at = clock + 1, !.todo = as, !.from = from, !.to = to])
  /\ UNCHANGED <<accounts, rows, logs, snaps>>
ReadDates(r, a) ==
  /\ reqs[r].op = "recompute" /\ reqs[r].phase = "none" /\ a \in reqs[r].todo
  /\ LET ds == TransactionDates(a, reqs[r].from, reqs[r].to)
     IN reqs' = [reqs EXCEPT ![r].acct = a, ![r].todo = @ \ {a}, ![r].dates = ds, ![r].phase = IF ds = {} THEN "none" ELSE "dated"]
  /\ UNCHANGED <<accounts, rows, logs, snaps, clock>>
ReadClosings(r) ==
  /\ reqs[r].op = "recompute" /\ reqs[r].phase = "dated"
  /\ \E c \in Closings(reqs[r].acct, reqs[r].to) : \E ds \in Ascending(reqs[r].dates), cs \in Ascending(DOMAIN c) :
       \E ptr \in Reached(ds, cs) :
         reqs' = [reqs EXCEPT ![r].phase = "none", ![r].put = @ \cup Snapshots(reqs[r].acct, c, ds, cs, ptr)]
  /\ UNCHANGED <<accounts, rows, logs, snaps, clock>>
CommitRecompute(r) ==
  LET put == reqs[r].put
      keys == {<<x[1], x[2]>> : x \in put}
  IN /\ reqs[r].op = "recompute" /\ reqs[r].phase = "none" /\ reqs[r].todo = {}
     /\ IF \E x \in put : ~accounts[x[1]].there
        THEN Fail(r)
        ELSE /\ snaps' = [k \in DOMAIN snaps \cup keys |->
                            IF k \in keys THEN (CHOOSE x \in put : <<x[1], x[2]>> = k)[3] ELSE snaps[k]]
             /\ Finish(r) /\ UNCHANGED <<accounts, rows, logs, clock>>

LedgerNext ==
  \/ \E a \in Accounts : CreateAccount(a)
  \/ \E r \in Requests, a \in Accounts :
       \/ \E force \in BOOLEAN : BeginDeleteAccount(r, a, force)
       \/ \E f \in Files, create \in BOOLEAN : BeginConfirm(r, a, f, create)
       \/ \E f \in Files : BeginUpload(r, a, f)
       \/ \E d \in Manual : BeginCreate(r, a, d)
       \/ ReadDates(r, a)
  \/ \E r \in Requests :
       \/ EndDeleteAccount(r)
       \/ DeleteTooEarly(r)
       \/ OpenLog(r)
       \/ InsertChunk(r)
       \/ ChunkFails(r)
       \/ CommitConfirm(r)
       \/ ReadHashes(r)
       \/ RefuseUpload(r)
       \/ CommitUpload(r)
       \/ EndCreate(r)
       \/ BeginRecompute(r, {a \in Accounts : accounts[a].there}, 1, Today)
       \/ ReadClosings(r)
       \/ CommitRecompute(r)
  \/ \E i \in DOMAIN rows : SoftDelete(i) \/ RestoreRow(i)
LedgerSpec == LedgerInit /\ [][LedgerNext]_ledgerVars

(***************************************************************************)
(* upload_log.py promises that an import's count of loaded rows is its     *)
(* rows less its duplicates and errors.  And the count is true: so many    *)
(* transactions carry the log, as long as the account is there.            *)
(***************************************************************************)
LogsCountRows ==
  \A l \in DOMAIN logs : logs[l].acct # "null" =>
    /\ logs[l].status = "completed" => logs[l].imported = logs[l].rows - logs[l].dups
    /\ Cardinality({i \in DOMAIN rows : rows[i].log = l}) = logs[l].imported

(***************************************************************************)
(* Whatever requests overlap, an upload that ended well has left a         *)
(* transaction of every entry of its file in the account, unless somebody  *)
(* deleted that transaction: no chunk and no duplicate check loses one.    *)
(***************************************************************************)
NothingIsLost ==
  \A l \in DOMAIN logs : (logs[l].status = "completed" /\ logs[l].acct # "null") =>
    LET ds == IF logs[l].op = "confirm" THEN Drafts(logs[l].file) ELSE LegacyRows(logs[l].file)
    IN \A i \in DOMAIN ds : \E j \in DOMAIN rows : /\ rows[j].acct = logs[l].acct
                                                   /\ rows[j].hash = <<logs[l].acct, ds[i].date, ds[i].amount, ds[i].type,
                                                                       ds[i].bal, ds[i].desc>>

(***************************************************************************)
(* Both: the log of an upload and the account it filled tell the same.     *)
(***************************************************************************)
UploadsAreComplete == LogsCountRows /\ NothingIsLost

(***************************************************************************)
(* balance_snapshots.py 110-120: the merge with carry-forward gives for    *)
(* every day what compute_balance_at gives for it, also when rows came or  *)
(* went between the reading of the days and that of the closings.          *)
(***************************************************************************)
MergeIsBalanceAt ==
  [][\A r \in Requests :
       LET new == reqs'[r].put \ reqs[r].put
       IN reqs[r].phase = "dated" /\ reqs'[r].phase = "none" /\ reqs'[r].op = "recompute" =>
            /\ \A x \in new : x[3] \in BalanceAt(x[1], x[2])
            /\ \A d \in reqs[r].dates : BalanceAt(reqs[r].acct, d) # {} => \E x \in new : x[2] = d]_ledgerVars
=============================================================================
