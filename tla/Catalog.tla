------------------------------ MODULE Catalog ------------------------------
(***************************************************************************)
(* The master data of the finance module: the tree of categories, at most  *)
(* three deep, and the counterparts with their aliases, which can be       *)
(* merged and against which a name on a statement is matched.  A request   *)
(* checks first and commits later; overlap remembers whether two requests  *)
(* ever did so at the same time, since nothing in the code orders them.    *)
(***************************************************************************)
EXTENDS Integers, FiniteSets, FiniteSetsExt, Sequences

CONSTANTS Clerks,       \* requests served at the same time
          Categories,   \* ids a category can get
          Parties,      \* ids a counterpart can get
          Names,        \* names and aliases
          Entries,      \* transactions to be linked to a counterpart
          MaxCalls      \* bound: requests started

ASSUME CatalogAssumption == MaxCalls \in Nat /\ IsFiniteSet(Categories) /\ "none" \notin Categories

VARIABLES cats,     \* category -> parent and depth, or NoCategory
          parties,  \* counterpart -> name and aliases, or NoParty
          links,    \* transaction -> counterpart_id
          calls,    \* clerk -> what its request decided and has not committed
          overlap,  \* two requests were under way at once
          merged,   \* names absorbed by a merge, with the counterpart that has them now
          started   \* requests started
catalogVars == <<cats, parties, links, calls, overlap, merged, started>>

MAX_DEPTH == 3
NoCategory == [parent |-> "none", depth |-> 0]
NoParty == [name |-> "none", aliases |-> {}]
NoCall == [op |-> "none", id |-> "none", with |-> "none", depth |-> 0, delta |-> 0, name |-> "none", aliases |-> {}]

Has(c) == cats[c].depth > 0
Known(p) == parties[p].name # "none"
\* parent_id of the k-th ancestor; "none" above a root.
Up(c, k) == LET up[n \in 0 .. k] == IF n = 0 THEN c ELSE IF up[n - 1] = "none" THEN "none" ELSE cats[up[n - 1]].parent
            IN up[k]
Children(c) == {d \in Categories : Has(d) /\ cats[d].parent = c}
Descendants(c) == {d \in Categories : Has(d) /\ \E k \in 1 .. Cardinality(Categories) : Up(d, k) = c}

(* ---- categories ---- *)
\* compute_depth: 0 where it raises.
ComputeDepth(p) == CASE p = "none" -> 1
                     [] p # "none" /\ Has(p) /\ cats[p].depth < MAX_DEPTH -> cats[p].depth + 1
                     [] OTHER -> 0
\* Mutant: nobody looks up.
NotCircular(c, p) == FALSE
\* check_circular walks up at most MAX_DEPTH + 2 parents.
Circular(c, p) == p # "none" /\ (\/ \E k \in 0 .. MAX_DEPTH + 1 : Up(p, k) = c
                                 \/ Up(p, MAX_DEPTH + 2) # "none")
MaxDescendantDepth(c) == Max({cats[d].depth : d \in Descendants(c) \cup {c}})

CatalogInit == /\ cats = [c \in Categories |-> NoCategory]
               /\ parties = [p \in Parties |-> NoParty]
               /\ links = [e \in Entries |-> "none"]
               /\ calls = [k \in Clerks |-> NoCall]
               /\ overlap = FALSE
               /\ merged = {}
               /\ started = 0

Call(k, q) == /\ calls[k].op = "none" /\ started < MaxCalls
              /\ started' = started + 1
              /\ calls' = [calls EXCEPT ![k] = q]
              /\ overlap' = (overlap \/ \E j \in Clerks \ {k} : calls[j].op # "none")
              /\ UNCHANGED <<cats, parties, links, merged>>
Answer(k) == calls' = [calls EXCEPT ![k] = NoCall] /\ UNCHANGED <<overlap, started>>

CreateCategory(k, c, p) == /\ ~Has(c) /\ ComputeDepth(p) > 0
                           /\ Call(k, [NoCall EXCEPT !.op = "create category", !.id = c, !.with = p, !.depth = ComputeDepth(p)])
MoveCategory(k, c, p) ==
  LET depth == ComputeDepth(p)
      delta == depth - cats[c].depth
  IN /\ Has(c) /\ ~Circular(c, p) /\ depth > 0
     /\ MaxDescendantDepth(c) + delta <= MAX_DEPTH
     /\ Call(k, [NoCall EXCEPT !.op = "move category", !.id = c, !.with = p, !.depth = depth, !.delta = delta])
DeleteCategory(k, c) == /\ Has(c) /\ Children(c) = {}
                        /\ Call(k, [NoCall EXCEPT !.op = "delete category", !.id = c])
\* Foreign keys: a parent that went, or a child that came, fails the commit.
CommitCategory(k) ==
  LET q == calls[k]
      c == q.id
  IN /\ q.op \in {"create category", "move category", "delete category"}
     /\ cats' = CASE q.op = "create category" /\ ~Has(c) /\ (q.with # "none" => Has(q.with)) ->
                       [cats EXCEPT ![c] = [parent |-> q.with, depth |-> q.depth]]
                  [] q.op = "move category" /\ Has(c) /\ (q.with # "none" => Has(q.with)) ->
                       [d \in Categories |-> IF d = c THEN [parent |-> q.with, depth |-> q.depth]
                                             ELSE IF d \in Descendants(c) THEN [cats[d] EXCEPT !.depth = @ + q.delta]
                                             ELSE cats[d]]
                  [] q.op = "delete category" /\ Children(c) = {} -> [cats EXCEPT ![c] = NoCategory]
                  [] OTHER -> cats
     /\ Answer(k) /\ UNCHANGED <<parties, links, merged>>

(* ---- counterparts ---- *)
Named(n) == {p \in Parties : parties[p].name = n}
\* match_counterpart: the name first, then the aliases; every counterpart the query finds.
Match(n) == IF Named(n) # {} THEN Named(n) ELSE {p \in Parties : n \in parties[p].aliases}

CreateCounterpart(k, p, n, as) == /\ ~Known(p) /\ Named(n) = {}
                                  /\ Call(k, [NoCall EXCEPT !.op = "create party", !.id = p, !.name = n, !.aliases = as])
UpdateCounterpart(k, p, n, as) == /\ Known(p) /\ Named(n) \subseteq {p}
                                  /\ Call(k, [NoCall EXCEPT !.op = "update party", !.id = p, !.name = n, !.aliases = as])
DeleteCounterpart(k, p) == /\ Known(p)
                           /\ Call(k, [NoCall EXCEPT !.op = "delete party", !.id = p])
\* ON DELETE SET NULL
Orphaned(p) == [e \in Entries |-> IF links[e] = p THEN "none" ELSE links[e]]
CommitCounterpart(k) ==
  LET q == calls[k]
  IN /\ q.op \in {"create party", "update party", "delete party"}
     /\ parties' = CASE q.op = "create party" \/ (q.op = "update party" /\ Known(q.id)) ->
                          [parties EXCEPT ![q.id] = [name |-> q.name, aliases |-> q.aliases]]
                     [] q.op = "delete party" -> [parties EXCEPT ![q.id] = NoParty]
                     [] OTHER -> parties
     /\ links' = IF q.op = "delete party" THEN Orphaned(q.id) ELSE links
     /\ merged' = {m \in merged : m[2] # q.id}
     /\ Answer(k) /\ UNCHANGED cats

\* merge_counterparts: the transactions move first ...
MoveTransactions(k, s, t) ==
  /\ s # t /\ Known(s) /\ Known(t)
  /\ calls[k].op = "none" /\ started < MaxCalls
  /\ started' = started + 1
  /\ calls' = [calls EXCEPT ![k] = [NoCall EXCEPT !.op = "merge", !.id = s, !.with = t,
                                                  !.name = parties[s].name, !.aliases = parties[s].aliases]]
  /\ overlap' = (overlap \/ \E j \in Clerks \ {k} : calls[j].op # "none")
  /\ links' = [e \in Entries |-> IF links[e] = s THEN t ELSE links[e]]
  /\ UNCHANGED <<cats, parties, merged>>
\* ... then the target takes the names of the source, and the source goes.
\* Mutant: the name of the source is forgotten.
MergedAliasesOnly(target, q) == (target.aliases \cup q.aliases) \ {target.name}
MergedAliases(target, q) == (target.aliases \cup {q.name} \cup q.aliases) \ {target.name}
MergeCounterparts(k) ==
  LET q == calls[k]
  IN /\ q.op = "merge"
     /\ IF Known(q.with) /\ Known(q.id)
        THEN /\ parties' = [parties EXCEPT ![q.id] = NoParty, ![q.with].aliases = MergedAliases(parties[q.with], q)]
             /\ links' = Orphaned(q.id)
             /\ merged' = {m \in merged : m[2] \notin {q.id, q.with}}
                          \cup {<<q.name, q.with>>} \cup {<<m[1], q.with>> : m \in {x \in merged : x[2] \in {q.id, q.with}}}
        ELSE UNCHANGED <<parties, links, merged>>
     /\ Answer(k) /\ UNCHANGED cats
\* PATCH /api/transactions/{id} with a counterpart_id.
LinkTransaction(e, p) == /\ Known(p) /\ links[e] # p
                         /\ links' = [links EXCEPT ![e] = p]
                         /\ UNCHANGED <<cats, parties, calls, overlap, merged, started>>

CatalogNext ==
  \/ \E k \in Clerks :
       \/ \E c \in Categories, p \in Categories \cup {"none"} : CreateCategory(k, c, p) \/ MoveCategory(k, c, p)
       \/ \E c \in Categories : DeleteCategory(k, c)
       \/ CommitCategory(k)
       \/ \E p \in Parties, n \in Names, as \in SUBSET Names : CreateCounterpart(k, p, n, as) \/ UpdateCounterpart(k, p, n, as)
       \/ \E p \in Parties : DeleteCounterpart(k, p)
       \/ CommitCounterpart(k)
       \/ \E s, t \in Parties : MoveTransactions(k, s, t)
       \/ MergeCounterparts(k)
  \/ \E e \in Entries, p \in Parties : LinkTransaction(e, p)
CatalogSpec == CatalogInit /\ [][CatalogNext]_catalogVars

(* ---- the answer of GET /api/categories ---- *)
\* build_tree: a category is shown under its parent, and a root on its own.
Shown == {c \in Categories : Has(c) /\ \E k \in 0 .. Cardinality(Categories) :
                                         Up(c, k) # "none" /\ cats[Up(c, k)].parent = "none"}

(***************************************************************************)
(* As long as no two requests overlapped, whatever has been created, moved *)
(* and deleted, the categories are a forest at most three deep, each depth *)
(* is one more than its parent's, and the tree shows every category.       *)
(***************************************************************************)
TreeIsSound ==
  ~overlap => /\ \A c \in Categories : Has(c) =>
                   /\ cats[c].depth <= MAX_DEPTH
                   /\ cats[c].depth = IF cats[c].parent = "none" THEN 1 ELSE cats[cats[c].parent].depth + 1
              /\ Shown = {c \in Categories : Has(c)}

(***************************************************************************)
(* As long as no two requests overlapped, a name absorbed by a merge, or   *)
(* by a chain of merges, still finds the counterpart that absorbed it,     *)
(* unless some other counterpart was given that name or alias too.         *)
(***************************************************************************)
MergedNameFindsTarget ==
  ~overlap => \A m \in merged :
    (\A p \in Parties \ {m[2]} : parties[p].name # m[1] /\ m[1] \notin parties[p].aliases) => Match(m[1]) = {m[2]}

(***************************************************************************)
(* Both: the catalog of categories and counterparts is in order.           *)
(***************************************************************************)
CatalogIsSound == TreeIsSound /\ MergedNameFindsTarget
=============================================================================
