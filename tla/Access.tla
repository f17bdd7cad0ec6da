------------------------------- MODULE Access -------------------------------
(***************************************************************************)
(* Who works here and what they may open (routers/auth.py, users.py,       *)
(* grants.py, modules/registry.py, dependencies.py).  A user has a primary *)
(* department in a column and all departments as rows of their own; a      *)
(* department has the modules granted to it as rows, which the process     *)
(* keeps in a cache.  A request reads, then flushes (UPDATE of the columns *)
(* that differ, DELETE of the rows it sees), then inserts and commits.     *)
(*                                                                         *)
(* Passwords, tokens, quotas and the limit on attempts are not modelled.   *)
(***************************************************************************)
EXTENDS Integers, FiniteSets

CONSTANTS
  Editors,     \* requests
  People, Founders,         \* who may have an account, who is an administrator at first
  Departments, Home,        \* Home: the department of the founders
  Modules, Dashboard,
  GrantSets,   \* what an administrator grants to a department
  Approvals,   \* what an approval or a new account may say: [primary, role, extras]
  Patches,     \* what PATCH may say: [set, listed], listed a set of sets of departments
  MaxEdits     \* bound: requests

ASSUME AccessAssumption == /\ Founders \subseteq People /\ Founders # {}
                           /\ {"admins", "cache"} \cap People = {}   \* names in unguarded
                           /\ Modules # {Dashboard}
                           /\ \A patch \in Patches : DOMAIN patch.set \subseteq {"status", "active", "role", "primary"}

VARIABLES
  staff,
  grants, cache,
  edits, entered,
  unguarded    \* history: which of the promises below something not provided for has touched

accessVars == <<staff, grants, cache, edits, entered, unguarded>>

NoPerson == [status |-> "none"]
NoEdit == [pc |-> "idle"]
Person(status, role, primary, departments) ==
  [status |-> status, active |-> TRUE, role |-> role, primary |-> primary, departments |-> departments]

-----------------------------------------------------------------------------
(* Who is let in, and where *)

Admitted(p) == staff[p] # NoPerson /\ staff[p].active /\ staff[p].status = "active"
IsAdmin(p) == Admitted(p) /\ staff[p].role = "admin"

Granted(d) == IF cache.loaded THEN cache.of[d] ELSE {}
DepartmentsOf(p) == staff[p].departments \cup {staff[p].primary}
ModulesOf(p) ==
  LET mods == UNION {Granted(d) : d \in DepartmentsOf(p)}
  IN  IF staff[p].role = "admin" THEN Modules ELSE IF mods = {} THEN {Dashboard} ELSE mods

\* What the start of the process complains about.
Uncovered == {d \in UNION {DepartmentsOf(p) : p \in {q \in People : staff[q] # NoPerson}} : Granted(d) = {}}

-----------------------------------------------------------------------------
(* Accounts *)

BeginEdit(r, edit) ==
  /\ edits[r] = NoEdit /\ entered < MaxEdits
  /\ entered' = entered + 1
  /\ edits' = [edits EXCEPT ![r] = edit]
  /\ UNCHANGED <<staff, grants, cache>>
EndEdit(r) == edits' = [edits EXCEPT ![r] = NoEdit] /\ UNCHANGED entered
EditsIn(stages) == {o \in Editors : edits[o].pc \in stages}
ChangeStages == {"change", "flushed", "delete"}

\* Two administrators at work, or one who approves or rejects itself.
Watch(r, careless) == unguarded' = unguarded \cup (IF careless \/ (EditsIn(ChangeStages) \ {r}) # {} THEN {"admins"} ELSE {})

\* POST /register
Register(r, p, d) ==
  /\ staff[p] = NoPerson
  /\ BeginEdit(r, [pc |-> "insert", p |-> p, row |-> Person("pending", "member", d, {d})])
  /\ UNCHANGED unguarded
\* POST /users
CreateUser(r, by, p, a) ==
  /\ IsAdmin(by)
  /\ BeginEdit(r, [pc |-> "insert", p |-> p, row |-> Person("active", a.role, a.primary, {a.primary} \cup a.extras)])
  /\ UNCHANGED unguarded
\* One of two with the same address is refused by the unique index.
InsertUser(r) ==
  /\ edits[r].pc = "insert"
  /\ staff' = IF staff[edits[r].p] = NoPerson THEN [staff EXCEPT ![edits[r].p] = edits[r].row] ELSE staff
  /\ EndEdit(r) /\ UNCHANGED <<grants, cache, unguarded>>

\* SQLAlchemy writes the columns that differ from what was read.
ChangeUser(r, p, set, rows) ==
  BeginEdit(r, [pc |-> "change", p |-> p, rows |-> rows,
            set |-> [f \in {g \in DOMAIN set : set[g] # staff[p][g]} |-> set[f]]])

ApproveUser(r, by, p, a) ==
  /\ IsAdmin(by) /\ staff[p] # NoPerson
  /\ ChangeUser(r, p, [status |-> "active", role |-> a.role, primary |-> a.primary, active |-> TRUE], {a.primary} \cup a.extras)
  /\ Watch(r, by = p)
RejectUser(r, by, p) ==
  /\ IsAdmin(by) /\ staff[p] # NoPerson
  /\ ChangeUser(r, p, [status |-> "rejected", active |-> FALSE], {})
  /\ Watch(r, by = p)

\* Mutant: everything may be changed on oneself.
MayPatchAny(by, p, set) == TRUE
\* "관리자 lockout·권한 사고 방지"
MayPatch(by, p, set) == by = p => \A f \in {"role", "active", "status"} \cap DOMAIN set : set[f] = staff[p][f]

\* Mutant: the rows are written again only when they are listed.
RowsAfterListed(old, primary, listed) == UNION {{primary} \cup l : l \in listed}
\* The rows are written again when they are listed or the primary has changed.
RowsAfter(old, primary, listed) ==
  IF listed = {} /\ primary # old THEN {primary} ELSE UNION {{primary} \cup l : l \in listed}

UpdateUser(r, by, p, patch) ==
  LET primary == IF "primary" \in DOMAIN patch.set THEN patch.set.primary ELSE staff[p].primary
  IN  /\ IsAdmin(by) /\ staff[p] # NoPerson /\ MayPatch(by, p, patch.set)
      /\ ChangeUser(r, p, patch.set, RowsAfter(staff[p].primary, primary, patch.listed))
      /\ Watch(r, FALSE)

\* The UPDATE waits for the lock of the row.
FlushChange(r) ==
  LET e == edits[r]
  IN  /\ e.pc = "change"
      /\ DOMAIN e.set # {} => \A o \in EditsIn({"flushed"}) \ {r} : edits[o].p = e.p => DOMAIN edits[o].set = {}
      /\ edits' = [edits EXCEPT ![r] = [pc |-> "flushed", p |-> e.p, set |-> e.set, rows |-> e.rows, seen |-> staff[e.p].departments]]
      /\ UNCHANGED <<staff, grants, cache, entered, unguarded>>

Changed(row, set, departments) ==
  [f \in DOMAIN row |-> IF f = "departments" THEN departments ELSE IF f \in DOMAIN set THEN set[f] ELSE row[f]]

\* Rows of another that this one has not seen stay; one of its own among them
\* breaks the unique constraint, and everything is rolled back.
CommitChange(r) ==
  LET e == edits[r]
      left == IF e.rows = {} THEN staff[e.p].departments ELSE staff[e.p].departments \ e.seen
      late == {o \in EditsIn({"change", "flushed"}) \ {r} : edits[o].p = e.p /\ edits[o].rows # {}}
  IN  /\ e.pc = "flushed"
      /\ IF e.rows \cap left # {}
         THEN UNCHANGED <<staff, unguarded>>
         ELSE /\ staff' = [staff EXCEPT ![e.p] = Changed(@, e.set, left \cup e.rows)]
              /\ unguarded' = unguarded \cup (IF "primary" \in DOMAIN e.set /\ late # {} THEN {e.p} ELSE {})
      /\ EndEdit(r) /\ UNCHANGED <<grants, cache>>

DeleteUser(r, by, p) ==
  /\ IsAdmin(by) /\ staff[p] # NoPerson /\ by # p
  /\ BeginEdit(r, [pc |-> "delete", p |-> p]) /\ Watch(r, FALSE)
\* It waits for the others; jobs or uploads of the user forbid it.  Who has
\* read the user finds it gone.
CommitDelete(r) ==
  LET p == edits[r].p
      same == {o \in EditsIn({"change", "delete"}) : edits[o].p = p}
  IN  /\ edits[r].pc = "delete"
      /\ \A o \in EditsIn({"flushed"}) : edits[o].p # p
      /\ \/ EndEdit(r) /\ UNCHANGED <<staff, unguarded>>
         \/ /\ staff' = [staff EXCEPT ![p] = NoPerson]
            /\ edits' = [o \in Editors |-> IF o \in same THEN NoEdit ELSE edits[o]]
            /\ unguarded' = unguarded \ {p} /\ UNCHANGED entered
      /\ UNCHANGED <<grants, cache>>

-----------------------------------------------------------------------------
(* Grants *)

SetGrants(r, by, d, mods) ==
  /\ IsAdmin(by)
  /\ BeginEdit(r, [pc |-> "grants", d |-> d, mods |-> mods, seen |-> grants[d]])
  /\ UNCHANGED unguarded
CommitGrants(r) ==
  LET e == edits[r]
      left == grants[e.d] \ e.seen
  IN  /\ e.pc = "grants"
      /\ IF e.mods \cap left # {}
         THEN EndEdit(r) /\ UNCHANGED <<grants, unguarded>>
         ELSE /\ grants' = [grants EXCEPT ![e.d] = left \cup e.mods]
              /\ edits' = [edits EXCEPT ![r] = [pc |-> "load"]] /\ UNCHANGED entered
              /\ unguarded' = unguarded \cup (IF (EditsIn({"assign"}) \ {r}) # {} THEN {"cache"} ELSE {})
      /\ UNCHANGED <<staff, cache>>

\* load_grants_cache reads in a session of its own; the read may fail.
ReadGrants(r) ==
  /\ edits[r].pc = "load"
  /\ \/ edits' = [edits EXCEPT ![r] = [pc |-> "assign", of |-> grants]] /\ UNCHANGED <<entered, unguarded>>
     \/ EndEdit(r) /\ unguarded' = unguarded \cup {"cache"}
  /\ UNCHANGED <<staff, grants, cache>>
AssignCache(r) ==
  /\ edits[r].pc = "assign"
  /\ cache' = [loaded |-> TRUE, of |-> edits[r].of]
  /\ EndEdit(r) /\ UNCHANGED <<staff, grants, unguarded>>

\* The process starts again, with or without the grants.
StartAgain ==
  /\ \E r \in Editors : edits[r] # NoEdit
  /\ edits' = [r \in Editors |-> NoEdit]
  /\ cache' \in {[loaded |-> TRUE, of |-> grants], [cache EXCEPT !.loaded = FALSE]}
  /\ unguarded' = unguarded \ {"cache"}
  /\ UNCHANGED <<staff, grants, entered>>

-----------------------------------------------------------------------------

AccessInit ==
  /\ staff = [p \in People |-> IF p \in Founders THEN Person("active", "admin", Home, {Home}) ELSE NoPerson]
  /\ grants = [d \in Departments |-> {Dashboard}]
  /\ cache = [loaded |-> TRUE, of |-> grants]
  /\ edits = [r \in Editors |-> NoEdit] /\ entered = 0 /\ unguarded = {}
AccessNext ==
  \/ \E r \in Editors, p \in People :
       \/ \E d \in Departments : Register(r, p, d)
       \/ \E by \in People : RejectUser(r, by, p) \/ DeleteUser(r, by, p)
       \/ \E by \in People, a \in Approvals : CreateUser(r, by, p, a) \/ ApproveUser(r, by, p, a)
       \/ \E by \in People, patch \in Patches : UpdateUser(r, by, p, patch)
  \/ \E r \in Editors : InsertUser(r) \/ FlushChange(r) \/ CommitChange(r) \/ CommitDelete(r)
  \/ \E r \in Editors, by \in People, d \in Departments, mods \in GrantSets : SetGrants(r, by, d, mods)
  \/ \E r \in Editors : CommitGrants(r) \/ ReadGrants(r) \/ AssignCache(r)
  \/ StartAgain
AccessSpec == AccessInit /\ [][AccessNext]_accessVars

-----------------------------------------------------------------------------

\* The rows of a user hold the primary department ("주 부서(users.department)를
\* 반드시 포함해서 호출할 것", department_sync.py:10), unless it was changed
\* while a request that had read the old one was about to write the rows.
PrimaryIsListed ==
  \A p \in People \ unguarded : staff[p] # NoPerson => staff[p].primary \in staff[p].departments

\* A change of the grants takes effect at once ("즉시 반영", grants.py:3): when
\* none is under way the cache is what the table says, unless a reading failed
\* or another change came between a reading and its use; and whoever is left
\* with nothing but the dashboard is in departments the start complains about.
GrantsTakeEffect ==
  /\ "cache" \notin unguarded /\ cache.loaded /\ EditsIn({"load", "assign"}) = {} => cache.of = grants
  /\ \A p \in People : staff[p] # NoPerson /\ ModulesOf(p) = {Dashboard} =>
       \A d \in DepartmentsOf(p) : d \in Uncovered \/ Granted(d) = {Dashboard}

\* Somebody can still administer ("관리자 lockout·권한 사고 방지", users.py:141),
\* unless two changed accounts at once or an administrator rejected or
\* approved itself, which nothing forbids.
SomebodyAdministers == "admins" \notin unguarded => \E p \in People : IsAdmin(p)

AccessAgrees == PrimaryIsListed /\ GrantsTakeEffect /\ SomebodyAdministers
=============================================================================
