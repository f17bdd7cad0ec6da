---------------------------- MODULE OfficeProofs ----------------------------
(***************************************************************************)
(* What holds of seven components of the office for every number of their  *)
(* requests, people, posts and messages.  They share no state, and each    *)
(* theorem rests on an invariant of its own component.                     *)
(*   Access: AccessAgrees says of the accounts what holds between requests *)
(* only, so AccessInv also keeps what a request has in hand: the row it    *)
(* loaded is still one of an account, the set it flushed is a set an       *)
(* account may have (EditsInOrder); while no guard of the administrators   *)
(* is left open at most one request is changing accounts, and some         *)
(* administrator is not the one it takes away (OneAtATime); while the      *)
(* cache of grants is guarded, what a request is about to put there are    *)
(* the grants as they are (CacheFollows).                                  *)
(*   SnsPosts: a commit writes columns of rows that were read long before, *)
(* so SnsInv keeps how a row that is there differs from the copy that was  *)
(* read of it (Holds), and CollectedOnce is proved of the step that saves. *)
(*   Generation: a bucket remembers the calls of its window at places of   *)
(* their own (LimitsKept); a generation under way holds pairs of personas, *)
(* whether or not they are still there (GenerationInv).                    *)
(*   Chat: a chat nobody crosses is alone in its session, its question the *)
(* last row of it (TalkInv); each chat under way has its price set aside   *)
(* (BudgetHolds), and an answer is charged from it.                        *)
(*   DocGen: what is written of a document and a row of it that was saved  *)
(* agree with the draft and the verdict they came from (WritingFits); no   *)
(* number is written twice (WritingInOrder).                               *)
(*   NasSearch: every list a search makes of another is a part or a new    *)
(* order of it (From), so it keeps what was said of its hits; between its  *)
(* two reads a request holds a vector arm in its scope (NasInv).           *)
(*   TradeBooks: whoever is not crossed is alone, and what it read to tell *)
(* new rows from old ones still stands (TradeInv).                         *)
(***************************************************************************)
EXTENDS Access, SnsPosts, Generation, Chat, DocGen, NasSearch, TradeBooks, FiniteSetTheorems, FunctionTheorems, SequenceTheorems, WellFoundedInduction, TLAPS

-----------------------------------------------------------------------------
(* Accounts and grants *)

IsPerson(x) == x = [status |-> x.status, active |-> x.active, role |-> x.role, primary |-> x.primary, departments |-> x.departments]
IsListed(x) == IsPerson(x) /\ x.primary \in x.departments

StaffInOrder == /\ staff = [p \in People |-> staff[p]]
                /\ \A p \in People : staff[p] # NoPerson => IsPerson(staff[p])
                /\ \A p \in People \ unguarded : staff[p] # NoPerson => IsListed(staff[p])

Decisive == {"role", "active", "status"}

\* A request that changes p to what set says, and the rows of its departments.
Changing(p, set, rows) ==
  /\ p \in People /\ staff[p] # NoPerson
  /\ DOMAIN set \subseteq {"status", "active", "role", "primary"}
  /\ "primary" \in DOMAIN set => set["primary"] \in rows
  /\ rows # {} /\ "primary" \notin DOMAIN set /\ p \notin unguarded => staff[p].primary \in rows

Editing(e) ==
  /\ e.pc \in {"idle", "insert", "change", "flushed", "delete", "grants", "load", "assign"}
  /\ e.pc \in {"change", "flushed"} => Changing(e.p, e.set, e.rows)
  /\ e.pc = "insert" => e.p \in People /\ IsListed(e.row)
  /\ e.pc = "delete" => e.p \in People /\ staff[e.p] # NoPerson

EditsInOrder == /\ edits = [r \in Editors |-> edits[r]]
                /\ \A r \in Editors : Editing(edits[r])

\* Request e takes nothing from administrator by.
Spares(e, by) == IsAdmin(by) /\ (by = e.p => e.pc \in {"change", "flushed"} /\ DOMAIN e.set \cap Decisive = {})

OneAtATime ==
  "admins" \notin unguarded =>
    /\ \E by \in People : IsAdmin(by)
    /\ \A r \in EditsIn(ChangeStages) : /\ EditsIn(ChangeStages) = {r}
                                        /\ \E by \in People : Spares(edits[r], by)

CacheFollows ==
  /\ "loaded" \in DOMAIN cache
  /\ "cache" \notin unguarded =>
       /\ \A r \in EditsIn({"assign"}) : edits[r].of = grants
       /\ cache.loaded /\ EditsIn({"load", "assign"}) = {} => cache.of = grants

AccessInv == StaffInOrder /\ EditsInOrder /\ OneAtATime /\ CacheFollows

LEMMA APerson ==
  ASSUME NEW x, IsPerson(x)
  PROVE  x # NoPerson
  <1>1. "role" \in DOMAIN x
    BY DEF IsPerson
  <1>2. "role" \notin DOMAIN NoPerson
    BY DEF NoPerson
  <1> QED BY <1>1, <1>2

LEMMA PersonIsPerson ==
  ASSUME NEW status, NEW role, NEW primary, NEW departments, NEW x, x = Person(status, role, primary, departments)
  PROVE  /\ IsPerson(x) /\ x.status = status /\ x.role = role /\ x.primary = primary /\ x.departments = departments
         /\ x.active = TRUE
  BY DEF IsPerson, Person

LEMMA AccessStart == AccessInit => AccessInv
  <1> SUFFICES ASSUME AccessInit PROVE AccessInv
    OBVIOUS
  <1>1. StaffInOrder
    <2>1. staff = [p \in People |-> IF p \in Founders THEN Person("active", "admin", Home, {Home}) ELSE NoPerson]
      BY DEF AccessInit
    <2>2. PICK x : x = Person("active", "admin", Home, {Home})
      OBVIOUS
    <2>3. IsListed(x)
      BY <2>2 DEF IsListed, IsPerson, Person
    <2> QED BY <2>1, <2>2, <2>3 DEF StaffInOrder, IsListed
  <1>2. EditsInOrder
    BY DEF AccessInit, EditsInOrder, Editing, NoEdit
  <1>3. OneAtATime
    <2>1. PICK p \in Founders : p \in People
      BY AccessAssumption
    <2>2. PICK x : x = Person("active", "admin", Home, {Home})
      OBVIOUS
    <2>5. staff[p] = x
      BY <2>1, <2>2 DEF AccessInit
    <2>6. IsPerson(x) /\ x.status = "active" /\ x.role = "admin" /\ x.active = TRUE
      BY <2>2 DEF IsPerson, Person
    <2>3. IsAdmin(p)
      BY <2>5, <2>6, APerson DEF IsAdmin, Admitted
    <2>4. EditsIn(ChangeStages) = {}
      BY DEF AccessInit, EditsIn, ChangeStages, NoEdit
    <2> QED BY <2>1, <2>3, <2>4 DEF OneAtATime
  <1>4. CacheFollows
    BY DEF AccessInit, CacheFollows, EditsIn, NoEdit
  <1> QED BY <1>1, <1>2, <1>3, <1>4 DEF AccessInv

\* AccessAgrees says nothing that AccessInv does not.
LEMMA AccessInvSuffices == AccessInv => AccessAgrees
  <1> SUFFICES ASSUME AccessInv PROVE AccessAgrees
    OBVIOUS
  <1>1. PrimaryIsListed
    BY DEF AccessInv, StaffInOrder, IsListed, PrimaryIsListed
  <1>2. ASSUME NEW p \in People, staff[p] # NoPerson, ModulesOf(p) = {Dashboard}, NEW d \in DepartmentsOf(p)
        PROVE  d \in Uncovered \/ Granted(d) = {Dashboard}
    <2>1. staff[p].role # "admin"
      BY <1>2, AccessAssumption DEF ModulesOf
    <2>2. CASE Granted(d) = {}
      BY <1>2, <2>2 DEF Uncovered
    <2>3. CASE Granted(d) # {}
      <3>1. PICK m : m \in Granted(d)
        BY <2>3
      <3>2. m \in UNION {Granted(k) : k \in DepartmentsOf(p)}
        BY <3>1
      <3>3. ModulesOf(p) = UNION {Granted(k) : k \in DepartmentsOf(p)}
        BY <2>1, <3>2 DEF ModulesOf
      <3>4. Granted(d) \subseteq {Dashboard}
        BY <1>2, <3>3
      <3> QED BY <2>3, <3>4
    <2> QED BY <2>2, <2>3
  <1>3. GrantsTakeEffect
    BY <1>2 DEF GrantsTakeEffect, AccessInv, CacheFollows
  <1>4. SomebodyAdministers
    BY DEF SomebodyAdministers, AccessInv, OneAtATime
  <1> QED BY <1>1, <1>3, <1>4 DEF AccessAgrees

-----------------------------------------------------------------------------
(* A request begins *)

\* Whoever starts to change accounts is alone and spares an administrator, or it is known.
LEMMA Enters ==
  ASSUME AccessInv, NEW r \in Editors, NEW e, BeginEdit(r, e), Editing(e),
         e.pc \in {"insert", "grants", "change", "delete"},
         unguarded \subseteq unguarded', unguarded' \subseteq unguarded \cup {"admins"},
         "admins" \notin unguarded' /\ e.pc \in {"change", "delete"} =>
           EditsIn(ChangeStages) = {} /\ \E by \in People : Spares(e, by)
  PROVE  AccessInv'
  <1>1. edits[r] = NoEdit /\ edits' = [edits EXCEPT ![r] = e] /\ staff' = staff /\ grants' = grants /\ cache' = cache
    BY DEF BeginEdit
  <1>2. edits' = [q \in Editors |-> IF q = r THEN e ELSE edits[q]] /\ edits = [q \in Editors |-> edits[q]]
    BY <1>1 DEF AccessInv, EditsInOrder
  <1>3. edits[r].pc = "idle"
    BY <1>1 DEF NoEdit
  <1>4. StaffInOrder'
    BY <1>1 DEF AccessInv, StaffInOrder
  <1>5. ASSUME NEW x, Editing(x) PROVE Editing(x)'
    BY <1>1, <1>5 DEF Editing, Changing
  <1>6. EditsInOrder'
    <2>1. ASSUME NEW q \in Editors PROVE Editing(edits[q])'
      <3>1. PICK x : x = edits'[q] /\ Editing(x)
        BY <1>2 DEF AccessInv, EditsInOrder
      <3>2. Editing(x)'
        BY <1>5, <3>1
      <3> QED BY <3>1, <3>2
    <2> QED BY <1>2, <2>1 DEF EditsInOrder
  <1>7. \A q \in Editors : q # r => edits'[q] = edits[q]
    BY <1>2
  <1>8. edits'[r] = e
    BY <1>2
  <1>9. \A by : IsAdmin(by)' = IsAdmin(by)
    BY <1>1 DEF IsAdmin, Admitted
  <1>10. OneAtATime'
    <2> SUFFICES ASSUME "admins" \notin unguarded' PROVE OneAtATime'
      BY DEF OneAtATime
    <2>1. "admins" \notin unguarded
      OBVIOUS
    <2>2. \E by \in People : IsAdmin(by)'
      BY <1>9, <2>1 DEF AccessInv, OneAtATime
    <2>3. CASE e.pc \in {"change", "delete"}
      <3>1. EditsIn(ChangeStages)' = {r}
        BY <1>7, <1>8, <2>3 DEF EditsIn, ChangeStages
      <3>2. PICK by \in People : Spares(e, by)
        BY <2>3
      <3>3. Spares(e, by)'
        BY <1>9, <3>2 DEF Spares
      <3>4. Spares(edits[r], by)'
        BY <1>8, <3>3
      <3> QED BY <2>2, <3>1, <3>4 DEF OneAtATime
    <2>4. CASE e.pc \notin {"change", "delete"}
      <3>1. EditsIn(ChangeStages)' = EditsIn(ChangeStages) /\ r \notin EditsIn(ChangeStages)
        BY <1>2, <1>3, <1>7, <1>8, <2>4 DEF EditsIn, ChangeStages
      <3>2. ASSUME NEW q \in EditsIn(ChangeStages)
            PROVE  EditsIn(ChangeStages)' = {q} /\ \E by \in People : Spares(edits[q], by)'
        <4>1. PICK by \in People : Spares(edits[q], by)
          BY <2>1 DEF AccessInv, OneAtATime
        <4>2. EditsIn(ChangeStages) = {q}
          BY <2>1 DEF AccessInv, OneAtATime
        <4>3. edits'[q] = edits[q]
          BY <1>7, <3>1 DEF EditsIn
        <4> QED BY <1>9, <3>1, <4>1, <4>2, <4>3 DEF Spares
      <3> QED BY <2>2, <3>1, <3>2 DEF OneAtATime
    <2> QED BY <2>3, <2>4
  <1>11. CacheFollows'
    <2>1. \A S \in {{"assign"}, {"load", "assign"}} : EditsIn(S)' = EditsIn(S) /\ r \notin EditsIn(S)
      BY <1>2, <1>3, <1>7, <1>8 DEF EditsIn
    <2>2. \A q \in EditsIn({"assign"}) : edits'[q] = edits[q]
      BY <1>7, <2>1 DEF EditsIn
    <2>3. "cache" \notin unguarded' => "cache" \notin unguarded
      OBVIOUS
    <2> QED BY <1>1, <2>1, <2>2, <2>3 DEF AccessInv, CacheFollows
  <1> QED BY <1>4, <1>6, <1>10, <1>11 DEF AccessInv

\* What ChangeUser keeps of set.
Differing(p, set) == [f \in {g \in DOMAIN set : set[g] # staff[p][g]} |-> set[f]]

LEMMA ChangeIsRight ==
  ASSUME NEW p \in People, staff[p] # NoPerson, NEW set, NEW rows, NEW primary,
         DOMAIN set \subseteq {"status", "active", "role", "primary"},
         "primary" \in DOMAIN set => primary = set["primary"],
         "primary" \notin DOMAIN set => primary = staff[p].primary,
         rows # {} => primary \in rows, rows = {} => primary = staff[p].primary
  PROVE  Changing(p, Differing(p, set), rows)
  <1>1. "primary" \in DOMAIN set /\ set["primary"] # staff[p]["primary"] => Differing(p, set)["primary"] = primary
    BY DEF Differing
  <1>2. DOMAIN Differing(p, set) = {g \in DOMAIN set : set[g] # staff[p][g]}
    BY DEF Differing
  <1>3. "primary" \in DOMAIN Differing(p, set) => Differing(p, set)["primary"] \in rows
    BY <1>1, <1>2
  <1>4. "primary" \notin DOMAIN Differing(p, set) => staff[p].primary = primary
    BY <1>2
  <1> QED BY <1>2, <1>3, <1>4 DEF Changing

LEMMA ChangeEnters ==
  ASSUME AccessInv, NEW r \in Editors, NEW by \in People, IsAdmin(by), NEW p \in People, NEW set, NEW rows, NEW careless \in BOOLEAN,
         Changing(p, Differing(p, set), rows), ChangeUser(r, p, set, rows), Watch(r, careless),
         careless \/ by # p \/ DOMAIN Differing(p, set) \cap Decisive = {}
  PROVE  AccessInv'
  <1>1. PICK s : s = Differing(p, set)
    OBVIOUS
  <1>2. PICK e : e = [pc |-> "change", p |-> p, rows |-> rows, set |-> s]
    OBVIOUS
  <1>3. e.pc = "change" /\ e.p = p /\ e.rows = rows /\ e.set = s
    BY <1>2
  <1>4. BeginEdit(r, e)
    BY <1>1, <1>2 DEF ChangeUser, Differing
  <1>5. Editing(e)
    BY <1>1, <1>3 DEF Editing
  <1>6. EditsIn(ChangeStages) \ {r} = EditsIn(ChangeStages)
    BY <1>4 DEF BeginEdit, EditsIn, ChangeStages, NoEdit
  <1>7. unguarded' = unguarded \cup (IF careless \/ EditsIn(ChangeStages) # {} THEN {"admins"} ELSE {})
    BY <1>6 DEF Watch
  <1>8. ~careless => Spares(e, by)
    BY <1>1, <1>3 DEF Spares
  <1> QED BY <1>3, <1>4, <1>5, <1>7, <1>8, Enters

LEMMA RequestsEnter ==
  ASSUME AccessInv, NEW r \in Editors, NEW p \in People,
         \/ \E d \in Departments : Register(r, p, d)
         \/ \E by \in People : RejectUser(r, by, p) \/ DeleteUser(r, by, p)
         \/ \E by \in People, a \in Approvals : CreateUser(r, by, p, a) \/ ApproveUser(r, by, p, a)
         \/ \E by \in People, patch \in Patches : UpdateUser(r, by, p, patch)
  PROVE  AccessInv'
  <1>0. ASSUME NEW row, IsListed(row), BeginEdit(r, [pc |-> "insert", p |-> p, row |-> row]), unguarded' = unguarded PROVE AccessInv'
    <2>1. PICK e : e = [pc |-> "insert", p |-> p, row |-> row]
      OBVIOUS
    <2>2. e.pc = "insert" /\ e.p = p /\ e.row = row
      BY <2>1
    <2>3. Editing(e)
      BY <1>0, <2>2 DEF Editing
    <2> QED BY <1>0, <2>1, <2>2, <2>3, Enters
  <1>1. ASSUME NEW d \in Departments, Register(r, p, d) PROVE AccessInv'
    <2>1. PICK row : row = Person("pending", "member", d, {d})
      OBVIOUS
    <2>2. IsListed(row)
      BY <2>1 DEF IsListed, IsPerson, Person
    <2> QED BY <1>0, <1>1, <2>1, <2>2 DEF Register
  <1>2. ASSUME NEW by \in People, NEW a \in Approvals, CreateUser(r, by, p, a) PROVE AccessInv'
    <2>1. PICK row : row = Person("active", a.role, a.primary, {a.primary} \cup a.extras)
      OBVIOUS
    <2>2. IsListed(row)
      BY <2>1 DEF IsListed, IsPerson, Person
    <2> QED BY <1>0, <1>2, <2>1, <2>2 DEF CreateUser
  <1>3. ASSUME NEW by \in People, NEW a \in Approvals, ApproveUser(r, by, p, a) PROVE AccessInv'
    <2>0. PICK careless \in BOOLEAN : careless <=> by = p
      <3>1. CASE by = p
        BY <3>1
      <3>2. CASE by # p
        BY <3>2
      <3> QED BY <3>1, <3>2
    <2>1. PICK set, rows : /\ set = [status |-> "active", role |-> a.role, primary |-> a.primary, active |-> TRUE]
                           /\ rows = {a.primary} \cup a.extras
      OBVIOUS
    <2>2. DOMAIN set = {"status", "active", "role", "primary"} /\ set["primary"] = a.primary
      BY <2>1
    <2>3. IsAdmin(by) /\ staff[p] # NoPerson /\ ChangeUser(r, p, set, rows) /\ Watch(r, careless)
      BY <1>3, <2>0, <2>1 DEF ApproveUser, Watch
    <2>4. Changing(p, Differing(p, set), rows)
      BY <2>1, <2>2, <2>3, ChangeIsRight
    <2> QED BY <2>0, <2>3, <2>4, ChangeEnters
  <1>4. ASSUME NEW by \in People, RejectUser(r, by, p) PROVE AccessInv'
    <2>0. PICK careless \in BOOLEAN : careless <=> by = p
      <3>1. CASE by = p
        BY <3>1
      <3>2. CASE by # p
        BY <3>2
      <3> QED BY <3>1, <3>2
    <2>1. PICK set, rows : set = [status |-> "rejected", active |-> FALSE] /\ rows = {}
      OBVIOUS
    <2>2. DOMAIN set = {"status", "active"}
      BY <2>1
    <2>3. IsAdmin(by) /\ staff[p] # NoPerson /\ ChangeUser(r, p, set, rows) /\ Watch(r, careless)
      BY <1>4, <2>0, <2>1 DEF RejectUser, Watch
    <2>4. Changing(p, Differing(p, set), rows)
      <3>1. PICK primary : primary = staff[p].primary
        OBVIOUS
      <3> QED BY <2>1, <2>2, <2>3, <3>1, ChangeIsRight
    <2> QED BY <2>0, <2>3, <2>4, ChangeEnters
  <1>5. ASSUME NEW by \in People, NEW patch \in Patches, UpdateUser(r, by, p, patch) PROVE AccessInv'
    <2>1. PICK set, primary, rows :
            /\ set = patch.set
            /\ primary = IF "primary" \in DOMAIN set THEN set["primary"] ELSE staff[p].primary
            /\ rows = RowsAfter(staff[p].primary, primary, patch.listed)
      OBVIOUS
    <2>2. DOMAIN set \subseteq {"status", "active", "role", "primary"}
      BY <2>1, AccessAssumption
    <2>3. /\ IsAdmin(by) /\ staff[p] # NoPerson /\ MayPatch(by, p, set)
          /\ ChangeUser(r, p, set, rows) /\ Watch(r, FALSE)
      BY <1>5, <2>1 DEF UpdateUser
    <2>4. (rows # {} => primary \in rows) /\ (rows = {} => primary = staff[p].primary)
      <3>1. CASE patch.listed = {}
        BY <2>1, <3>1 DEF RowsAfter
      <3>2. CASE patch.listed # {}
        <4>1. PICK l : l \in patch.listed
          BY <3>2
        <4>2. rows = UNION {{primary} \cup k : k \in patch.listed}
          BY <2>1, <3>2 DEF RowsAfter
        <4>3. primary \in rows
          BY <4>1, <4>2
        <4> QED BY <4>3
      <3> QED BY <3>1, <3>2
    <2>5. Changing(p, Differing(p, set), rows)
      BY <2>1, <2>2, <2>3, <2>4, ChangeIsRight
    <2>6. by # p \/ DOMAIN Differing(p, set) \cap Decisive = {}
      BY <2>3 DEF MayPatch, Differing, Decisive
    <2>7. PICK careless \in BOOLEAN : careless = FALSE
      OBVIOUS
    <2>8. Watch(r, careless)
      BY <2>3, <2>7
    <2> QED BY <2>3, <2>5, <2>6, <2>8, ChangeEnters
  <1>6. ASSUME NEW by \in People, DeleteUser(r, by, p) PROVE AccessInv'
    <2>1. PICK e : e = [pc |-> "delete", p |-> p]
      OBVIOUS
    <2>2. e.pc = "delete" /\ e.p = p
      BY <2>1
    <2>3. BeginEdit(r, e) /\ IsAdmin(by) /\ staff[p] # NoPerson /\ by # p /\ Watch(r, FALSE)
      BY <1>6, <2>1 DEF DeleteUser
    <2>4. Editing(e)
      BY <2>2, <2>3 DEF Editing
    <2>5. EditsIn(ChangeStages) \ {r} = EditsIn(ChangeStages)
      BY <2>3 DEF BeginEdit, EditsIn, ChangeStages, NoEdit
    <2>6. unguarded' = unguarded \cup (IF EditsIn(ChangeStages) # {} THEN {"admins"} ELSE {})
      BY <2>3, <2>5 DEF Watch
    <2>7. Spares(e, by)
      BY <2>2, <2>3 DEF Spares
    <2> QED BY <2>2, <2>3, <2>4, <2>6, <2>7, Enters
  <1> QED BY <1>1, <1>2, <1>3, <1>4, <1>5, <1>6

LEMMA GrantsEnter ==
  ASSUME AccessInv, NEW r \in Editors, NEW by, NEW d, NEW mods, SetGrants(r, by, d, mods)
  PROVE  AccessInv'
  <1>1. PICK e : e = [pc |-> "grants", d |-> d, mods |-> mods, seen |-> grants[d]]
    OBVIOUS
  <1>2. e.pc = "grants"
    BY <1>1
  <1>3. BeginEdit(r, e) /\ unguarded' = unguarded
    BY <1>1 DEF SetGrants
  <1>4. Editing(e)
    BY <1>2 DEF Editing
  <1> QED BY <1>2, <1>3, <1>4, Enters

-----------------------------------------------------------------------------
(* A request goes on *)

LEMMA OneStays ==
  ASSUME OneAtATime, "admins" \notin unguarded' => "admins" \notin unguarded,
         \A by \in People : IsAdmin(by) => IsAdmin(by)',
         EditsIn(ChangeStages)' \subseteq EditsIn(ChangeStages),
         \A r \in EditsIn(ChangeStages)' : \A by \in People : Spares(edits[r], by) => Spares(edits[r], by)'
  PROVE  OneAtATime'
  BY DEF OneAtATime

\* Nobody's request but r's has moved on.
LEMMA InsertStep ==
  ASSUME AccessInv, NEW r \in Editors, InsertUser(r)
  PROVE  AccessInv'
  <1>1. PICK e : e = edits[r]
    OBVIOUS
  <1>2. e.pc = "insert" /\ e.p \in People /\ IsListed(e.row)
    BY <1>1 DEF InsertUser, AccessInv, EditsInOrder, Editing
  <1>3. /\ edits' = [q \in Editors |-> IF q = r THEN NoEdit ELSE edits[q]]
        /\ staff' = [p \in People |-> IF p = e.p /\ staff[p] = NoPerson THEN e.row ELSE staff[p]]
        /\ grants' = grants /\ cache' = cache /\ unguarded' = unguarded
    BY <1>1, <1>2 DEF InsertUser, EndEdit, AccessInv, EditsInOrder, StaffInOrder
  <1>4. \A p \in People : staff[p] # NoPerson => staff'[p] = staff[p] /\ staff'[p] # NoPerson
    BY <1>3
  <1>5. StaffInOrder'
    <2>1. ASSUME NEW p \in People, staff'[p] # NoPerson
          PROVE  IsPerson(staff'[p]) /\ (p \notin unguarded => IsListed(staff'[p]))
      BY <1>2, <1>3, <2>1 DEF AccessInv, StaffInOrder, IsListed
    <2> QED BY <1>3, <2>1 DEF StaffInOrder
  <1>6. ASSUME NEW x, Editing(x) PROVE Editing(x)'
    BY <1>3, <1>4, <1>6 DEF Editing, Changing
  <1>7. EditsInOrder'
    <2>1. ASSUME NEW q \in Editors PROVE Editing(edits[q])'
      <3>1. CASE q = r
        BY <1>3, <3>1 DEF Editing, NoEdit
      <3>2. CASE q # r
        <4>1. PICK x : x = edits[q] /\ Editing(x)
          BY DEF AccessInv, EditsInOrder
        <4>2. Editing(x)' /\ edits'[q] = x
          BY <1>3, <1>6, <3>2, <4>1
        <4> QED BY <4>2
      <3> QED BY <3>1, <3>2
    <2> QED BY <1>3, <2>1 DEF EditsInOrder
  <1>8. \A by \in People : IsAdmin(by) => IsAdmin(by)'
    BY <1>4 DEF IsAdmin, Admitted
  <1>9. /\ \A S : "idle" \notin S /\ "insert" \notin S => EditsIn(S)' = EditsIn(S)
        /\ r \notin EditsIn(ChangeStages) /\ r \notin EditsIn({"assign"})
    BY <1>1, <1>2, <1>3 DEF EditsIn, NoEdit, ChangeStages
  <1>10. EditsIn(ChangeStages)' = EditsIn(ChangeStages) /\ EditsIn({"assign"})' = EditsIn({"assign"})
         /\ EditsIn({"load", "assign"})' = EditsIn({"load", "assign"})
    BY <1>9 DEF ChangeStages
  <1>11. OneAtATime'
    <2>1. \A q \in EditsIn(ChangeStages)' : \A by \in People : Spares(edits[q], by) => Spares(edits[q], by)'
      BY <1>3, <1>8, <1>9, <1>10 DEF Spares, EditsIn
    <2> QED BY <1>3, <1>8, <1>10, <2>1, OneStays DEF AccessInv
  <1>12. CacheFollows'
    BY <1>3, <1>9, <1>10 DEF AccessInv, CacheFollows, EditsIn
  <1> QED BY <1>5, <1>7, <1>11, <1>12 DEF AccessInv

LEMMA FlushStep ==
  ASSUME AccessInv, NEW r \in Editors, FlushChange(r)
  PROVE  AccessInv'
  <1>1. PICK e : e = edits[r]
    OBVIOUS
  <1>2. e.pc = "change" /\ Changing(e.p, e.set, e.rows)
    BY <1>1 DEF FlushChange, AccessInv, EditsInOrder, Editing
  <1>3. PICK x : x = [pc |-> "flushed", p |-> e.p, set |-> e.set, rows |-> e.rows, seen |-> staff[e.p].departments]
    OBVIOUS
  <1>4. x.pc = "flushed" /\ x.p = e.p /\ x.set = e.set /\ x.rows = e.rows
    BY <1>3
  <1>5. /\ edits' = [q \in Editors |-> IF q = r THEN x ELSE edits[q]]
        /\ staff' = staff /\ grants' = grants /\ cache' = cache /\ unguarded' = unguarded
    BY <1>1, <1>3 DEF FlushChange, AccessInv, EditsInOrder
  <1>6. StaffInOrder'
    BY <1>5 DEF AccessInv, StaffInOrder
  <1>7. EditsInOrder'
    <2>1. ASSUME NEW q \in Editors PROVE Editing(edits'[q])
      BY <1>2, <1>4, <1>5 DEF AccessInv, EditsInOrder, Editing
    <2>2. ASSUME NEW y, Editing(y) PROVE Editing(y)'
      BY <1>5, <2>2 DEF Editing, Changing
    <2>3. ASSUME NEW q \in Editors PROVE Editing(edits[q])'
      <3>1. PICK y : y = edits'[q]
        OBVIOUS
      <3>2. Editing(y)'
        BY <2>1, <2>2, <3>1
      <3> QED BY <3>1, <3>2
    <2> QED BY <1>5, <2>3 DEF EditsInOrder
  <1>8. /\ EditsIn(ChangeStages)' = EditsIn(ChangeStages) /\ EditsIn({"assign"})' = EditsIn({"assign"})
        /\ EditsIn({"load", "assign"})' = EditsIn({"load", "assign"}) /\ r \notin EditsIn({"assign"})
    BY <1>1, <1>2, <1>4, <1>5 DEF EditsIn, ChangeStages
  <1>9. OneAtATime'
    <2>1. ASSUME NEW q \in EditsIn(ChangeStages)', NEW by \in People, Spares(edits[q], by) PROVE Spares(edits[q], by)'
      <3>1. IsAdmin(by)'
        BY <1>5, <2>1 DEF Spares, IsAdmin, Admitted
      <3>2. by = edits'[q].p => edits'[q].pc \in {"change", "flushed"} /\ DOMAIN edits'[q].set \cap Decisive = {}
        BY <1>1, <1>4, <1>5, <2>1 DEF Spares, EditsIn
      <3> QED BY <3>1, <3>2 DEF Spares
    <2>2. \A by \in People : IsAdmin(by) => IsAdmin(by)'
      BY <1>5 DEF IsAdmin, Admitted
    <2> QED BY <1>5, <1>8, <2>1, <2>2, OneStays DEF AccessInv
  <1>10. CacheFollows'
    BY <1>5, <1>8 DEF AccessInv, CacheFollows, EditsIn
  <1> QED BY <1>6, <1>7, <1>9, <1>10 DEF AccessInv

\* Requests that end, without touching a table.
LEMMA LeavesStep ==
  ASSUME AccessInv, NEW gone, "assign" \notin {edits[o].pc : o \in gone}, "load" \notin {edits[o].pc : o \in gone},
         edits' = [o \in Editors |-> IF o \in gone THEN NoEdit ELSE edits[o]],
         staff' = staff, grants' = grants, cache' = cache, unguarded' = unguarded
  PROVE  AccessInv'
  <1>1. StaffInOrder'
    BY DEF AccessInv, StaffInOrder
  <1>2. ASSUME NEW y, Editing(y) PROVE Editing(y)'
    BY <1>2 DEF Editing, Changing
  <1>3. EditsInOrder'
    <2>1. ASSUME NEW q \in Editors PROVE Editing(edits[q])'
      <3>1. Editing(edits'[q])
        BY DEF AccessInv, EditsInOrder, Editing, NoEdit
      <3>2. PICK y : y = edits'[q]
        OBVIOUS
      <3>3. Editing(y)'
        BY <1>2, <3>1, <3>2
      <3> QED BY <3>2, <3>3
    <2> QED BY <2>1 DEF EditsInOrder
  <1>4. \A by : IsAdmin(by)' = IsAdmin(by)
    BY DEF IsAdmin, Admitted
  <1>5. \A q \in Editors : edits'[q].pc # "idle" => q \notin gone /\ edits'[q] = edits[q]
    BY DEF NoEdit
  <1>6. OneAtATime'
    <2>1. EditsIn(ChangeStages)' \subseteq EditsIn(ChangeStages)
      BY <1>5 DEF EditsIn, ChangeStages
    <2>2. \A q \in EditsIn(ChangeStages)' : \A by \in People : Spares(edits[q], by) => Spares(edits[q], by)'
      BY <1>4, <1>5 DEF Spares, EditsIn, ChangeStages
    <2> QED BY <1>4, <2>1, <2>2, OneStays DEF AccessInv
  <1>7. CacheFollows'
    <2>1. \A S \in {{"assign"}, {"load", "assign"}} : EditsIn(S)' = EditsIn(S)
      BY <1>5 DEF EditsIn, NoEdit
    <2>2. \A q \in EditsIn({"assign"})' : edits'[q] = edits[q]
      BY <1>5 DEF EditsIn
    <2> QED BY <2>1, <2>2 DEF AccessInv, CacheFollows
  <1> QED BY <1>1, <1>3, <1>6, <1>7 DEF AccessInv

LEMMA ChangeStep ==
  ASSUME AccessInv, NEW r \in Editors, CommitChange(r)
  PROVE  AccessInv'
  <1>1. PICK e : e = edits[r]
    OBVIOUS
  <1>2. PICK p : p = e.p
    OBVIOUS
  <1> DEFINE left == IF e.rows = {} THEN staff[p].departments ELSE staff[p].departments \ e.seen
             late == {o \in EditsIn({"change", "flushed"}) \ {r} : edits[o].p = p /\ edits[o].rows # {}}
  <1>3. e.pc = "flushed" /\ p \in People /\ Changing(p, e.set, e.rows)
    BY <1>1, <1>2 DEF CommitChange, AccessInv, EditsInOrder, Editing, Changing
  <1>4. /\ edits' = [q \in Editors |-> IF q = r THEN NoEdit ELSE edits[q]]
        /\ grants' = grants /\ cache' = cache
    BY <1>1 DEF CommitChange, EndEdit, AccessInv, EditsInOrder
  <1>5. CASE UNCHANGED <<staff, unguarded>>
    <2>1. PICK gone : gone = {r}
      OBVIOUS
    <2>2. edits' = [q \in Editors |-> IF q \in gone THEN NoEdit ELSE edits[q]]
      BY <1>4, <2>1
    <2>3. "assign" \notin {edits[o].pc : o \in gone} /\ "load" \notin {edits[o].pc : o \in gone}
      BY <1>1, <1>3, <2>1
    <2> QED BY <1>4, <1>5, <2>2, <2>3, LeavesStep
  <1>6. CASE /\ staff' = [staff EXCEPT ![p] = Changed(@, e.set, left \cup e.rows)]
             /\ unguarded' = unguarded \cup (IF "primary" \in DOMAIN e.set /\ late # {} THEN {p} ELSE {})
    <2>1. PICK x, y, departments : x = staff[p] /\ departments = left \cup e.rows /\ y = Changed(x, e.set, departments)
      OBVIOUS
    <2>2. staff' = [q \in People |-> IF q = p THEN y ELSE staff[q]] /\ staff = [q \in People |-> staff[q]]
      BY <1>3, <1>6, <2>1 DEF AccessInv, StaffInOrder
    <2>3. x # NoPerson /\ IsPerson(x)
      BY <1>3, <2>1 DEF Changing, AccessInv, StaffInOrder
    <2>4. /\ DOMAIN y = DOMAIN x /\ DOMAIN x = {"status", "active", "role", "primary", "departments"}
          /\ y = [f \in DOMAIN x |-> IF f = "departments" THEN departments ELSE IF f \in DOMAIN e.set THEN e.set[f] ELSE x[f]]
      BY <2>1, <2>3 DEF IsPerson, Changed
    <2>5. IsPerson(y) /\ y.departments = departments
          /\ y.primary = IF "primary" \in DOMAIN e.set THEN e.set["primary"] ELSE x.primary
      BY <2>4 DEF IsPerson
    <2>6. y # NoPerson
      BY <2>5, APerson
    <2>7. p \notin unguarded' => IsListed(y)
      <3>1. CASE e.rows = {}
        <4>1. "primary" \notin DOMAIN e.set
          BY <1>3, <3>1 DEF Changing
        <4>2. p \notin unguarded' => IsListed(x)
          BY <1>3, <1>6, <2>1, <2>3 DEF AccessInv, StaffInOrder
        <4> QED BY <2>1, <2>5, <3>1, <4>1, <4>2 DEF IsListed
      <3>2. CASE e.rows # {}
        <4>1. p \notin unguarded' => y.primary \in e.rows
          BY <1>3, <1>6, <2>1, <2>5, <3>2 DEF Changing
        <4> QED BY <2>1, <2>5, <4>1 DEF IsListed
      <3> QED BY <3>1, <3>2
    <2>8. StaffInOrder'
      <3>1. ASSUME NEW q \in People, staff'[q] # NoPerson
            PROVE  IsPerson(staff'[q]) /\ (q \notin unguarded' => IsListed(staff'[q]))
        BY <1>6, <2>2, <2>5, <2>7, <3>1 DEF AccessInv, StaffInOrder
      <3> QED BY <2>2, <3>1 DEF StaffInOrder
    <2>9. \A q \in People : staff[q] # NoPerson => staff'[q] # NoPerson
      BY <2>2, <2>6
    <2>10. EditsInOrder'
      <3>1. ASSUME NEW q \in Editors PROVE Editing(edits[q])'
        <4>1. CASE q = r
          BY <1>4, <4>1 DEF Editing, NoEdit
        <4>2. CASE q # r
          <5>1. PICK z : z = edits[q] /\ Editing(z)
            BY DEF AccessInv, EditsInOrder
          <5>2. ASSUME z.pc \in {"change", "flushed"} PROVE Changing(z.p, z.set, z.rows)'
            <6>1. Changing(z.p, z.set, z.rows)
              BY <5>1, <5>2 DEF Editing
            <6>2. CASE z.p # p
              BY <1>6, <2>2, <6>1, <6>2 DEF Changing
            <6>3. CASE z.p = p
              <7>1. z.rows # {} /\ "primary" \in DOMAIN e.set => p \in unguarded'
                <8>1. q \in EditsIn({"change", "flushed"}) \ {r}
                  BY <4>2, <5>1, <5>2 DEF EditsIn
                <8>2. z.rows # {} => q \in late
                  BY <5>1, <6>3, <8>1
                <8> QED BY <1>6, <8>2
              <7>2. "primary" \notin DOMAIN e.set => staff'[p].primary = staff[p].primary
                BY <1>3, <2>1, <2>2, <2>5
              <7> QED BY <1>3, <1>6, <2>2, <2>6, <6>1, <6>3, <7>1, <7>2 DEF Changing
            <6> QED BY <6>2, <6>3
          <5>3. Editing(z)'
            BY <2>9, <5>1, <5>2 DEF Editing
          <5>4. edits'[q] = z
            BY <1>4, <4>2, <5>1
          <5> QED BY <5>3, <5>4
        <4> QED BY <4>1, <4>2
      <3> QED BY <1>4, <3>1 DEF EditsInOrder
    <2>11. \A q \in Editors : edits'[q].pc # "idle" => q # r /\ edits'[q] = edits[q]
      BY <1>4 DEF NoEdit
    <2>12. OneAtATime'
      <3> SUFFICES ASSUME "admins" \notin unguarded' PROVE OneAtATime'
        BY DEF OneAtATime
      <3>1. r \in EditsIn(ChangeStages) /\ "admins" \notin unguarded
        BY <1>1, <1>3, <1>6 DEF EditsIn, ChangeStages
      <3>2. EditsIn(ChangeStages) = {r} /\ \E by \in People : Spares(e, by)
        BY <1>1, <3>1 DEF AccessInv, OneAtATime
      <3>3. EditsIn(ChangeStages)' = {}
        BY <2>11, <3>2 DEF EditsIn, ChangeStages
      <3>4. PICK by \in People : Spares(e, by)
        BY <3>2
      <3>5. IsAdmin(by)'
        <4>1. CASE by # p
          BY <2>2, <3>4, <4>1 DEF Spares, IsAdmin, Admitted
        <4>2. CASE by = p
          <5>1. DOMAIN e.set \cap {"role", "active", "status"} = {} /\ IsAdmin(p)
            BY <1>2, <3>4, <4>2 DEF Spares, Decisive
          <5>2. y.role = x.role /\ y.active = x.active /\ y.status = x.status
            BY <2>4, <5>1
          <5> QED BY <1>3, <2>1, <2>2, <2>6, <4>2, <5>1, <5>2 DEF IsAdmin, Admitted
        <4> QED BY <4>1, <4>2
      <3> QED BY <3>3, <3>5 DEF OneAtATime
    <2>13. CacheFollows'
      <3>1. \A S \in {{"assign"}, {"load", "assign"}} : EditsIn(S)' = EditsIn(S)
        BY <1>1, <1>3, <1>4 DEF EditsIn, NoEdit
      <3>2. \A q \in EditsIn({"assign"})' : edits'[q] = edits[q]
        BY <2>11 DEF EditsIn
      <3>3. "cache" \notin unguarded' => "cache" \notin unguarded
        BY <1>6
      <3> QED BY <1>4, <3>1, <3>2, <3>3 DEF AccessInv, CacheFollows
    <2> QED BY <2>8, <2>10, <2>12, <2>13 DEF AccessInv
  <1> QED BY <1>1, <1>2, <1>5, <1>6 DEF CommitChange

LEMMA DeleteUserStep ==
  ASSUME AccessInv, NEW r \in Editors, CommitDelete(r)
  PROVE  AccessInv'
  <1>1. PICK e, p : e = edits[r] /\ p = e.p
    OBVIOUS
  <1>2. PICK same : same = {o \in EditsIn({"change", "delete"}) : edits[o].p = p}
    OBVIOUS
  <1>3. e.pc = "delete" /\ p \in People /\ r \in same
    BY <1>1, <1>2 DEF CommitDelete, EditsIn, AccessInv, EditsInOrder, Editing
  <1>4. grants' = grants /\ cache' = cache
    BY DEF CommitDelete
  <1>5. CASE EndEdit(r) /\ UNCHANGED <<staff, unguarded>>
    <2>1. PICK gone : gone = {r}
      OBVIOUS
    <2>2. edits' = [q \in Editors |-> IF q \in gone THEN NoEdit ELSE edits[q]]
      BY <1>5, <2>1 DEF EndEdit, AccessInv, EditsInOrder
    <2>3. "assign" \notin {edits[o].pc : o \in gone} /\ "load" \notin {edits[o].pc : o \in gone}
      BY <1>1, <1>3, <2>1
    <2> QED BY <1>4, <1>5, <2>2, <2>3, LeavesStep
  <1>6. CASE /\ staff' = [staff EXCEPT ![p] = NoPerson]
             /\ edits' = [o \in Editors |-> IF o \in same THEN NoEdit ELSE edits[o]]
             /\ unguarded' = unguarded \ {p}
    <2>1. staff' = [q \in People |-> IF q = p THEN NoPerson ELSE staff[q]] /\ staff = [q \in People |-> staff[q]]
      BY <1>3, <1>6 DEF AccessInv, StaffInOrder
    <2>2. StaffInOrder'
      BY <1>6, <2>1 DEF AccessInv, StaffInOrder
    <2>3. \A q \in Editors : edits'[q].pc # "idle" => q \notin same /\ edits'[q] = edits[q]
      BY <1>6 DEF NoEdit
    <2>4. \A q \in Editors : edits[q].pc \in {"change", "flushed", "delete"} /\ q \notin same => edits[q].p # p
      BY <1>1, <1>2 DEF CommitDelete, EditsIn
    <2>5. EditsInOrder'
      <3>1. ASSUME NEW q \in Editors PROVE Editing(edits[q])'
        <4>1. CASE q \in same
          BY <1>6, <4>1 DEF Editing, NoEdit
        <4>2. CASE q \notin same
          <5>1. PICK z : z = edits[q] /\ Editing(z)
            BY DEF AccessInv, EditsInOrder
          <5>2. z.pc \in {"change", "flushed", "delete"} => z.p # p
            BY <2>4, <4>2, <5>1
          <5>3. Editing(z)'
            BY <1>6, <2>1, <5>1, <5>2 DEF Editing, Changing
          <5>4. edits'[q] = z
            BY <1>6, <4>2, <5>1
          <5> QED BY <5>3, <5>4
        <4> QED BY <4>1, <4>2
      <3> QED BY <1>6, <3>1 DEF EditsInOrder
    <2>6. OneAtATime'
      <3> SUFFICES ASSUME "admins" \notin unguarded' PROVE OneAtATime'
        BY DEF OneAtATime
      <3>1. r \in EditsIn(ChangeStages) /\ "admins" \notin unguarded
        BY <1>1, <1>3, <1>6, AccessAssumption DEF EditsIn, ChangeStages
      <3>2. EditsIn(ChangeStages) = {r} /\ \E by \in People : Spares(e, by)
        BY <1>1, <3>1 DEF AccessInv, OneAtATime
      <3>3. EditsIn(ChangeStages)' = {}
        BY <1>3, <2>3, <3>2 DEF EditsIn, ChangeStages
      <3>4. PICK by \in People : Spares(e, by)
        BY <3>2
      <3>5. by # p
        BY <1>1, <1>3, <3>4 DEF Spares
      <3>6. IsAdmin(by)'
        BY <2>1, <3>4, <3>5 DEF Spares, IsAdmin, Admitted
      <3> QED BY <3>3, <3>6 DEF OneAtATime
    <2>7. CacheFollows'
      <3>1. \A S \in {{"assign"}, {"load", "assign"}} : EditsIn(S)' = EditsIn(S)
        BY <1>2, <1>6, <2>3 DEF EditsIn, NoEdit
      <3>2. \A q \in EditsIn({"assign"})' : edits'[q] = edits[q]
        BY <2>3 DEF EditsIn
      <3>3. "cache" \notin unguarded' => "cache" \notin unguarded
        BY <1>3, <1>6, AccessAssumption
      <3> QED BY <1>4, <3>1, <3>2, <3>3 DEF AccessInv, CacheFollows
    <2> QED BY <2>2, <2>5, <2>6, <2>7 DEF AccessInv
  <1> QED BY <1>1, <1>2, <1>5, <1>6 DEF CommitDelete

OfGrants(e) == e.pc \in {"idle", "grants", "load", "assign"}

\* A change of the grants leaves the accounts alone.
LEMMA AccountsRest ==
  ASSUME AccessInv, NEW r \in Editors, OfGrants(edits[r]),
         NEW x, OfGrants(x), edits' = [edits EXCEPT ![r] = x], staff' = staff,
         unguarded \subseteq unguarded'
  PROVE  StaffInOrder' /\ EditsInOrder' /\ OneAtATime'
  <1>1. edits' = [q \in Editors |-> IF q = r THEN x ELSE edits[q]]
    BY DEF AccessInv, EditsInOrder
  <1>2. StaffInOrder'
    BY DEF AccessInv, StaffInOrder
  <1>3. ASSUME NEW y, Editing(y) PROVE Editing(y)'
    BY <1>3 DEF Editing, Changing
  <1>4. EditsInOrder'
    <2>1. ASSUME NEW q \in Editors PROVE Editing(edits[q])'
      <3>1. Editing(edits'[q])
        BY <1>1 DEF AccessInv, EditsInOrder, Editing, OfGrants
      <3>2. PICK y : y = edits'[q]
        OBVIOUS
      <3>3. Editing(y)'
        BY <1>3, <3>1, <3>2
      <3> QED BY <3>2, <3>3
    <2> QED BY <1>1, <2>1 DEF EditsInOrder
  <1>5. OneAtATime'
    <2>1. \A by : IsAdmin(by)' = IsAdmin(by)
      BY DEF IsAdmin, Admitted
    <2>2. EditsIn(ChangeStages)' = EditsIn(ChangeStages) /\ \A q \in EditsIn(ChangeStages) : edits'[q] = edits[q]
      BY <1>1 DEF EditsIn, ChangeStages, OfGrants
    <2> QED BY <2>1, <2>2, OneStays DEF AccessInv, Spares
  <1> QED BY <1>2, <1>4, <1>5

LEMMA GrantsStep ==
  ASSUME AccessInv, NEW r \in Editors, CommitGrants(r) \/ ReadGrants(r) \/ AssignCache(r)
  PROVE  AccessInv'
  <1>1. PICK e : e = edits[r]
    OBVIOUS
  <1>2. edits = [q \in Editors |-> edits[q]]
    BY DEF AccessInv, EditsInOrder
  <1>3. CASE CommitGrants(r)
    <2>1. e.pc = "grants" /\ staff' = staff /\ cache' = cache
      BY <1>1, <1>3 DEF CommitGrants
    <2>2. CASE EndEdit(r) /\ UNCHANGED <<grants, unguarded>>
      <3>1. PICK gone : gone = {r}
        OBVIOUS
      <3>2. edits' = [q \in Editors |-> IF q \in gone THEN NoEdit ELSE edits[q]]
        BY <1>2, <2>2, <3>1 DEF EndEdit
      <3>3. "assign" \notin {edits[o].pc : o \in gone} /\ "load" \notin {edits[o].pc : o \in gone}
        BY <1>1, <2>1, <3>1
      <3> QED BY <2>1, <2>2, <3>2, <3>3, LeavesStep
    <2>3. CASE /\ edits' = [edits EXCEPT ![r] = [pc |-> "load"]]
               /\ unguarded' = unguarded \cup (IF (EditsIn({"assign"}) \ {r}) # {} THEN {"cache"} ELSE {})
      <3>1. PICK x : x = [pc |-> "load"]
        OBVIOUS
      <3>2. x.pc = "load" /\ edits' = [edits EXCEPT ![r] = x]
        BY <2>3, <3>1
      <3>3. StaffInOrder' /\ EditsInOrder' /\ OneAtATime'
        <4>1. OfGrants(edits[r])
          BY <1>1, <2>1 DEF OfGrants
        <4>2. unguarded \subseteq unguarded'
          BY <2>1, <2>3
        <4>3. OfGrants(x)
          BY <3>2 DEF OfGrants
        <4>4. edits' = [edits EXCEPT ![r] = x] /\ staff' = staff
          BY <2>1, <3>2
        <4> QED BY ONLY AccessInv, r \in Editors, <4>1, <4>2, <4>3, <4>4, AccountsRest
      <3>4. edits' = [q \in Editors |-> IF q = r THEN x ELSE edits[q]]
        BY <1>2, <3>2
      <3>5. r \in EditsIn({"load", "assign"})' /\ EditsIn({"assign"})' = EditsIn({"assign"}) \ {r}
        BY <3>2, <3>4 DEF EditsIn
      <3>6. CacheFollows'
        BY <2>1, <2>3, <3>5 DEF AccessInv, CacheFollows
      <3> QED BY <3>3, <3>6 DEF AccessInv
    <2> QED BY <1>1, <1>3, <2>2, <2>3 DEF CommitGrants
  <1>4. CASE ReadGrants(r)
    <2>1. e.pc = "load" /\ staff' = staff /\ cache' = cache /\ grants' = grants
      BY <1>1, <1>4 DEF ReadGrants
    <2>2. CASE edits' = [edits EXCEPT ![r] = [pc |-> "assign", of |-> grants]] /\ unguarded' = unguarded
      <3>1. PICK x : x = [pc |-> "assign", of |-> grants]
        OBVIOUS
      <3>2. x.pc = "assign" /\ x.of = grants /\ edits' = [edits EXCEPT ![r] = x]
        BY <2>2, <3>1
      <3>3. StaffInOrder' /\ EditsInOrder' /\ OneAtATime'
        <4>1. OfGrants(edits[r])
          BY <1>1, <2>1 DEF OfGrants
        <4>2. unguarded \subseteq unguarded'
          BY <2>2
        <4>3. OfGrants(x)
          BY <3>2 DEF OfGrants
        <4>4. edits' = [edits EXCEPT ![r] = x] /\ staff' = staff
          BY <2>1, <3>2
        <4> QED BY ONLY AccessInv, r \in Editors, <4>1, <4>2, <4>3, <4>4, AccountsRest
      <3>4. edits' = [q \in Editors |-> IF q = r THEN x ELSE edits[q]]
        BY <1>2, <3>2
      <3>5. r \in EditsIn({"load", "assign"})' /\ \A q \in EditsIn({"assign"})' : q = r \/ q \in EditsIn({"assign"})
        BY <3>2, <3>4 DEF EditsIn
      <3>6. CacheFollows'
        BY <2>1, <2>2, <3>2, <3>4, <3>5 DEF CacheFollows, AccessInv, EditsIn
      <3> QED BY <3>3, <3>6 DEF AccessInv
    <2>3. CASE edits' = [edits EXCEPT ![r] = NoEdit] /\ unguarded' = unguarded \cup {"cache"}
      <3>1. PICK x : x = NoEdit
        OBVIOUS
      <3>2. x.pc = "idle" /\ edits' = [edits EXCEPT ![r] = x]
        BY <2>3, <3>1 DEF NoEdit
      <3>3. StaffInOrder' /\ EditsInOrder' /\ OneAtATime'
        <4>1. OfGrants(edits[r])
          BY <1>1, <2>1 DEF OfGrants
        <4>2. unguarded \subseteq unguarded'
          BY <2>1, <2>3
        <4>3. OfGrants(x)
          BY <3>2 DEF OfGrants
        <4>4. edits' = [edits EXCEPT ![r] = x] /\ staff' = staff
          BY <2>1, <3>2
        <4> QED BY ONLY AccessInv, r \in Editors, <4>1, <4>2, <4>3, <4>4, AccountsRest
      <3>4. CacheFollows'
        BY <2>1, <2>3 DEF AccessInv, CacheFollows
      <3> QED BY <3>3, <3>4 DEF AccessInv
    <2> QED BY <1>4, <2>2, <2>3 DEF ReadGrants, EndEdit
  <1>5. CASE AssignCache(r)
    <2>1. e.pc = "assign" /\ staff' = staff /\ grants' = grants /\ unguarded' = unguarded /\ cache' = [loaded |-> TRUE, of |-> e.of]
          /\ edits' = [edits EXCEPT ![r] = NoEdit]
      BY <1>1, <1>5 DEF AssignCache, EndEdit
    <2>2. PICK x : x = NoEdit
      OBVIOUS
    <2>3. x.pc = "idle" /\ edits' = [edits EXCEPT ![r] = x]
      BY <2>1, <2>2 DEF NoEdit
    <2>4. StaffInOrder' /\ EditsInOrder' /\ OneAtATime'
      <3>1. OfGrants(edits[r])
        BY <1>1, <2>1 DEF OfGrants
      <3>2. unguarded \subseteq unguarded'
        BY <2>1
      <3>3. OfGrants(x)
        BY <2>3 DEF OfGrants
      <3>4. edits' = [edits EXCEPT ![r] = x] /\ staff' = staff
        BY <2>1, <2>3
      <3> QED BY ONLY AccessInv, r \in Editors, <3>1, <3>2, <3>3, <3>4, AccountsRest
    <2>5. edits' = [q \in Editors |-> IF q = r THEN x ELSE edits[q]]
      BY <1>2, <2>3
    <2>6. r \in EditsIn({"assign"}) /\ \A q \in EditsIn({"assign"})' : q \in EditsIn({"assign"}) /\ edits'[q] = edits[q]
      BY <1>1, <2>1, <2>3, <2>5 DEF EditsIn
    <2>7. "cache" \notin unguarded => e.of = grants
      BY <1>1, <2>6 DEF AccessInv, CacheFollows
    <2>8. CacheFollows'
      BY <2>1, <2>6, <2>7 DEF AccessInv, CacheFollows
    <2> QED BY <2>4, <2>8 DEF AccessInv
  <1> QED BY <1>3, <1>4, <1>5

LEMMA RestartStep ==
  ASSUME AccessInv, StartAgain
  PROVE  AccessInv'
  <1>1. /\ edits' = [q \in Editors |-> NoEdit] /\ staff' = staff /\ grants' = grants /\ unguarded' = unguarded \ {"cache"}
        /\ cache' \in {[loaded |-> TRUE, of |-> grants], [cache EXCEPT !.loaded = FALSE]}
    BY DEF StartAgain
  <1>2. StaffInOrder'
    BY <1>1, AccessAssumption DEF AccessInv, StaffInOrder
  <1>3. EditsInOrder'
    BY <1>1 DEF EditsInOrder, Editing, NoEdit
  <1>4. \A S : "idle" \notin S => EditsIn(S)' = {}
    BY <1>1 DEF EditsIn, NoEdit
  <1>5. OneAtATime'
    <2>1. EditsIn(ChangeStages)' = {}
      BY <1>4 DEF ChangeStages
    <2>2. "admins" \notin unguarded' => \E by \in People : IsAdmin(by)'
      BY <1>1 DEF AccessInv, OneAtATime, IsAdmin, Admitted
    <2> QED BY <2>1, <2>2 DEF OneAtATime
  <1>6. CacheFollows'
    <2>1. EditsIn({"assign"})' = {}
      BY <1>4
    <2>2. "loaded" \in DOMAIN cache' /\ (cache'.loaded => cache'.of = grants)
      BY <1>1 DEF AccessInv, CacheFollows
    <2> QED BY <1>1, <2>1, <2>2 DEF CacheFollows
  <1> QED BY <1>2, <1>3, <1>5, <1>6 DEF AccessInv

LEMMA AccessStep == AccessInv /\ [AccessNext]_accessVars => AccessInv'
  <1> SUFFICES ASSUME AccessInv, [AccessNext]_accessVars PROVE AccessInv'
    OBVIOUS
  <1>1. CASE UNCHANGED accessVars
    <2>1. PICK gone : gone = {}
      OBVIOUS
    <2>2. edits' = [o \in Editors |-> IF o \in gone THEN NoEdit ELSE edits[o]]
      BY <1>1, <2>1 DEF accessVars, AccessInv, EditsInOrder
    <2> QED BY <1>1, <2>1, <2>2, LeavesStep DEF accessVars
  <1>2. ASSUME NEW r \in Editors, NEW p \in People,
               \/ \E d \in Departments : Register(r, p, d)
               \/ \E by \in People : RejectUser(r, by, p) \/ DeleteUser(r, by, p)
               \/ \E by \in People, a \in Approvals : CreateUser(r, by, p, a) \/ ApproveUser(r, by, p, a)
               \/ \E by \in People, patch \in Patches : UpdateUser(r, by, p, patch)
        PROVE  AccessInv'
    BY <1>2, RequestsEnter
  <1>3. ASSUME NEW r \in Editors, InsertUser(r) \/ FlushChange(r) \/ CommitChange(r) \/ CommitDelete(r) PROVE AccessInv'
    BY <1>3, InsertStep, FlushStep, ChangeStep, DeleteUserStep
  <1>4. ASSUME NEW r \in Editors, NEW by \in People, NEW d \in Departments, NEW mods \in GrantSets, SetGrants(r, by, d, mods) PROVE AccessInv'
    BY <1>4, GrantsEnter
  <1>5. ASSUME NEW r \in Editors, CommitGrants(r) \/ ReadGrants(r) \/ AssignCache(r) PROVE AccessInv'
    BY <1>5, GrantsStep
  <1> QED BY <1>1, <1>2, <1>3, <1>4, <1>5, RestartStep DEF AccessNext

LEMMA AccessHolds == AccessSpec => []AccessInv
  BY AccessStart, AccessStep, PTL DEF AccessSpec

(***************************************************************************)
(* However many administrators and users are at work: the rows of a user   *)
(* hold its primary department, a change of the grants takes effect, and   *)
(* somebody can still administer, each unless what the code does not       *)
(* provide for has touched it (users.py, department_sync.py, grants.py).   *)
(***************************************************************************)
THEOREM AccessAlwaysAgrees == AccessSpec => []AccessAgrees
  BY AccessHolds, AccessInvSuffices, PTL

-----------------------------------------------------------------------------
(* Posts and comments *)

IsPost(x) == /\ x = [ext |-> x.ext, url |-> x.url, tag |-> x.tag, views |-> x.views, count |-> x.count, summary |-> x.summary, live |-> x.live]
             /\ x.live \in BOOLEAN
Refers(x) == x.live => (x.ext = 0 \/ x.ext = x.url) /\ x.url \in Published \cup {0}

\* rows is a list of posts that refer to items.
Listing(rows) == /\ Len(rows) \in Nat /\ rows = [i \in 1 .. Len(rows) |-> rows[i]]
                 /\ \A i \in 1 .. Len(rows) : IsPost(rows[i]) /\ Refers(rows[i])

PlatformInOrder == /\ IsFiniteSet(Published)
                   /\ remote = [m \in Published |-> remote[m]]
                   /\ \A m \in Published : m \in Media /\ remote[m] \subseteq Comments(m)

NotesInOrder == \A k \in DOMAIN notes : k[1] \in DOMAIN posts /\ posts[k[1]].live /\ k[2][1] = posts[k[1]].url

\* What a request read of row i and what it makes of it.
Holds(read, new, i) ==
  /\ i \in DOMAIN posts /\ IsPost(read) /\ IsPost(new) /\ read.live /\ new.live
  /\ read.url = new.url /\ new.url \in Published \cup {0} /\ new.ext \in {read.ext, read.url}
  /\ posts[i].live => posts[i].url = read.url
  /\ read.ext # 0 => new.ext = read.ext /\ posts[i].ext = read.ext

Collects(j) == j.op \in {"collect", "metrics"}
IsJob(j) == j = [op |-> j.op, got |-> j.got, adds |-> j.adds, read |-> j.read, new |-> j.new, post |-> j.post]
JobFits(j) ==
  /\ IsJob(j)
  /\ Collects(j) => IsFiniteSet(j.got) /\ \A g \in j.got : g[1] \in Published
  /\ j.op = "comments" \/ (Collects(j) /\ j.post = 1) =>
       DOMAIN j.read = DOMAIN j.new /\ \A i \in DOMAIN j.new : Holds(j.read[i], j.new[i], i)
  /\ Collects(j) /\ j.post = 1 =>
       /\ j.adds \subseteq j.got
       /\ \A g \in j.got : g \in j.adds \/ \E i \in DOMAIN j.read : j.read[i].ext = g[1]

JobsInOrder == /\ jobs = [r \in Collectors |-> jobs[r]]
               /\ \A r \in Collectors : JobFits(jobs[r])

SnsInv == PlatformInOrder /\ Listing(posts) /\ NotesInOrder /\ JobsInOrder

LEMMA ListOf ==
  ASSUME NEW n \in Nat, NEW f, f = [i \in 1 .. n |-> f[i]]
  PROVE  Len(f) = n /\ f \in Seq({f[i] : i \in 1 .. n})
  <1> DEFINE S == {f[i] : i \in 1 .. n}
  <1>1. f \in [1 .. n -> S]
    OBVIOUS
  <1> QED BY <1>1, IsASeq

LEMMA SnsStart == SnsInit => SnsInv
  <1> SUFFICES ASSUME SnsInit PROVE SnsInv
    OBVIOUS
  <1>1. PlatformInOrder
    BY FS_EmptySet DEF SnsInit, PlatformInOrder, Published
  <1>2. Listing(posts)
    BY DEF SnsInit, Listing
  <1>3. NotesInOrder
    BY DEF SnsInit, NotesInOrder
  <1>4. JobFits(NoJob)
    BY DEF JobFits, NoJob, IsJob, Collects
  <1> QED BY <1>1, <1>2, <1>3, <1>4 DEF SnsInv, SnsInit, JobsInOrder

LEMMA SnsInvSuffices == SnsInv => CommentsOnTheirPost
  BY DEF SnsInv, NotesInOrder, CommentsOnTheirPost

\* What every step does to the rows.
Onward ==
  /\ Published \subseteq Published' /\ DOMAIN posts \subseteq DOMAIN posts'
  /\ \A i \in DOMAIN posts : /\ posts'[i].live => posts[i].live /\ posts'[i].url = posts[i].url
                             /\ posts[i].ext # 0 => posts'[i].ext = posts[i].ext

LEMMA RowsRest ==
  ASSUME posts' = posts, Published \subseteq Published'
  PROVE  Onward
  BY DEF Onward

LEMMA FitStays ==
  ASSUME NEW j, JobFits(j), Onward
  PROVE  JobFits(j)'
  <1>1. ASSUME NEW i, NEW read, NEW new, Holds(read, new, i) PROVE Holds(read, new, i)'
    BY <1>1 DEF Onward, Holds
  <1>2. Collects(j)' <=> Collects(j)
    BY DEF Collects
  <1> QED BY <1>1, <1>2 DEF JobFits, Onward

LEMMA OthersFit ==
  ASSUME JobsInOrder, Onward, NEW r \in Collectors, NEW j, JobFits(j)', jobs' = [jobs EXCEPT ![r] = j]
  PROVE  JobsInOrder'
  <1>1. ASSUME NEW q \in Collectors PROVE JobFits(jobs[q])'
    <2>1. CASE q = r
      BY <2>1 DEF JobsInOrder
    <2>2. CASE q # r
      <3>1. PICK k : k = jobs[q]
        OBVIOUS
      <3>2. jobs'[q] = k
        BY <2>2, <3>1 DEF JobsInOrder
      <3>3. JobFits(k)'
        BY <3>1, FitStays DEF JobsInOrder
      <3> QED BY <3>2, <3>3
    <2> QED BY <2>1, <2>2
  <1> QED BY <1>1 DEF JobsInOrder

LEMMA AllFit ==
  ASSUME JobsInOrder, Onward, jobs' = jobs
  PROVE  JobsInOrder'
  <1>1. ASSUME NEW q \in Collectors PROVE JobFits(jobs[q])'
    <2>1. PICK k : k = jobs[q]
      OBVIOUS
    <2>2. JobFits(k)'
      BY <2>1, FitStays DEF JobsInOrder
    <2> QED BY <2>1, <2>2
  <1> QED BY <1>1 DEF JobsInOrder

LEMMA NoJobFits == JobFits(NoJob) /\ JobFits(NoJob)'
  BY DEF JobFits, NoJob, IsJob, Collects

LEMMA RequestEnds ==
  ASSUME JobsInOrder, Onward, NEW r \in Collectors, NEW a, Answers(r, a)
  PROVE  JobsInOrder'
  <1>1. PICK k : k = NoJob
    OBVIOUS
  <1> QED BY <1>1, NoJobFits, OthersFit DEF Answers

\* Posts that stay what they are, and the comments on them.
LEMMA NotesStay ==
  ASSUME NotesInOrder, Onward, DOMAIN notes' \subseteq DOMAIN notes,
         \A k \in DOMAIN notes' : posts'[k[1]].live
  PROVE  NotesInOrder'
  BY DEF NotesInOrder, Onward

LEMMA PlatformRests ==
  ASSUME PlatformInOrder, remote' = remote
  PROVE  PlatformInOrder' /\ Published' = Published
  BY DEF PlatformInOrder, Published

LEMMA RequestFails ==
  ASSUME SnsInv, NEW r \in Collectors, Fails(r)
  PROVE  SnsInv'
  <1>1. /\ UNCHANGED <<posts, notes, remote>> /\ Answers(r, "failed")
    BY DEF Fails, Answers
  <1>2. PlatformInOrder' /\ Published' = Published
    BY <1>1, PlatformRests DEF SnsInv
  <1>3. Listing(posts)' /\ NotesInOrder'
    BY <1>1, <1>2 DEF SnsInv, Listing, NotesInOrder, Refers
  <1>4. Onward
    BY <1>1, <1>2, RowsRest
  <1> QED BY <1>1, <1>2, <1>3, <1>4, RequestEnds DEF SnsInv

LEMMA PlatformStep ==
  ASSUME SnsInv, NEW m \in Media, Publish(m) \/ CommentOn(m)
  PROVE  SnsInv'
  <1>1. UNCHANGED <<posts, notes, jobs>>
    BY DEF Publish, CommentOn
  <1>2. PlatformInOrder' /\ Published \subseteq Published'
    <2>1. CASE Publish(m)
      <3>1. remote' = [n \in Published \cup {m} |-> IF n = m THEN {} ELSE remote[n]] /\ m \notin Published
        BY <2>1 DEF Publish
      <3>2. Published' = Published \cup {m}
        BY <3>1 DEF Published
      <3>3. \A n \in Published' : remote'[n] \subseteq Comments(n)
        BY <3>1, <3>2 DEF SnsInv, PlatformInOrder
      <3>4. IsFiniteSet(Published')
        BY <3>2, FS_AddElement DEF SnsInv, PlatformInOrder
      <3> QED BY <3>1, <3>2, <3>3, <3>4 DEF SnsInv, PlatformInOrder, Comments
    <2>2. CASE CommentOn(m)
      <3>1. PICK c \in Comments(m) \ remote[m] : remote' = [remote EXCEPT ![m] = @ \cup {c}]
        BY <2>2 DEF CommentOn
      <3>2. Published' = Published
        BY <3>1 DEF Published
      <3> QED BY <3>1, <3>2 DEF SnsInv, PlatformInOrder, Comments
    <2> QED BY <2>1, <2>2
  <1>3. Onward
    BY <1>1, <1>2, RowsRest
  <1>4. Listing(posts)' /\ NotesInOrder'
    BY <1>1, <1>2 DEF SnsInv, Listing, NotesInOrder, Refers
  <1> QED BY <1>1, <1>2, <1>3, <1>4, AllFit DEF SnsInv

LEMMA Appended ==
  ASSUME SnsInv, NEW p, IsPost(p), p.ext = 0 \/ p.ext = p.url, p.url \in Published \cup {0},
         remote' = remote, posts' = Append(posts, p)
  PROVE  Listing(posts)' /\ Onward
  <1>1. Published' = Published
    BY DEF Published
  <1>2. PICK n \in Nat : n = Len(posts) /\ posts = [i \in 1 .. n |-> posts[i]]
    BY DEF SnsInv, Listing
  <1>3. posts' = [i \in 1 .. n + 1 |-> IF i = n + 1 THEN p ELSE posts[i]]
    <2>1. posts \in Seq({posts[i] : i \in 1 .. n})
      BY <1>2, ListOf
    <2> QED BY <1>2, <2>1
  <1>4. Len(posts') = n + 1
    BY <1>3, <1>2, ListOf
  <1>5. ASSUME NEW i \in 1 .. n + 1 PROVE IsPost(posts'[i]) /\ Refers(posts[i])'
    <2>1. CASE i = n + 1
      <3>1. posts'[i] = p
        BY <1>3, <2>1
      <3> QED BY <3>1, <1>1 DEF Refers
    <2>2. CASE i # n + 1
      <3>1. i \in 1 .. n /\ posts'[i] = posts[i]
        BY <1>2, <1>3, <2>2
      <3> QED BY <3>1, <1>1, <1>2 DEF SnsInv, Listing, Refers
    <2> QED BY <2>1, <2>2
  <1>6. posts' = [i \in 1 .. n + 1 |-> posts'[i]]
    BY <1>3
  <1>7. Listing(posts)'
    BY <1>4, <1>5, <1>6 DEF Listing
  <1>8. \A i \in DOMAIN posts : posts'[i] = posts[i]
    BY <1>2, <1>3
  <1>9. DOMAIN posts \subseteq DOMAIN posts'
    BY <1>2, <1>3
  <1> QED BY <1>1, <1>7, <1>8, <1>9 DEF Onward

LEMMA PostIsPost ==
  ASSUME NEW e, NEW u, NEW t, NEW v, NEW n, NEW p, p = Post(e, u, t, v, n)
  PROVE  IsPost(p) /\ p.ext = e /\ p.url = u /\ p.live /\ p.summary = {}
  BY DEF Post, IsPost

LEMMA EditedPost ==
  ASSUME NEW p, NEW q, IsPost(p), NEW v, q = [p EXCEPT !.views = v] \/ q = [p EXCEPT !.tag = v] \/ q = [p EXCEPT !.summary = v]
  PROVE  IsPost(q) /\ q.ext = p.ext /\ q.url = p.url /\ q.live = p.live
  BY DEF IsPost

LEMMA ByHandStep ==
  ASSUME SnsInv,
         \/ \E m \in Published \cup {0} : CreateManualContent(m)
         \/ \E m \in Published, v \in {0, 2} : ImportPost(m, v)
         \/ ResetAccountPosts
         \/ \E i \in DOMAIN posts : UpdatePost(i)
  PROVE  SnsInv'
  <1>1. UNCHANGED <<remote, jobs>>
    BY DEF CreateManualContent, ImportPost, ResetAccountPosts, UpdatePost, ByHand
  <1>2. PlatformInOrder' /\ Published' = Published
    BY <1>1, PlatformRests DEF SnsInv
  <1>3. PICK n \in Nat : n = Len(posts) /\ posts = [i \in 1 .. n |-> posts[i]] /\ DOMAIN posts = 1 .. n
    BY DEF SnsInv, Listing
  <1>4. Listing(posts)' /\ Onward /\ NotesInOrder'
    <2>1. ASSUME NEW p, IsPost(p), p.ext = 0 \/ p.ext = p.url, p.url \in Published \cup {0}, AddRow(p), UNCHANGED notes
          PROVE  Listing(posts)' /\ Onward /\ NotesInOrder'
      <3>1. Listing(posts)' /\ Onward
        BY <1>1, <2>1, Appended DEF AddRow
      <3>2. \A i \in DOMAIN posts : posts'[i] = posts[i]
        <4>1. posts \in Seq({posts[i] : i \in 1 .. n})
          BY <1>3, ListOf
        <4> QED BY <1>3, <2>1, <4>1 DEF AddRow
      <3>3. NotesInOrder'
        BY <2>1, <3>1, <3>2 DEF SnsInv, NotesInOrder, Onward
      <3> QED BY <3>1, <3>3
    <2>2. ASSUME NEW m \in Published \cup {0}, CreateManualContent(m) PROVE Listing(posts)' /\ Onward /\ NotesInOrder'
      <3>1. PICK p : p = Post(0, m, "tag", 0, 0)
        OBVIOUS
      <3> QED BY <2>1, <2>2, <3>1, PostIsPost DEF CreateManualContent
    <2>3. ASSUME NEW S, NEW f, S \subseteq DOMAIN posts, posts' = [i \in DOMAIN posts |-> IF i \in S THEN f[i] ELSE posts[i]], UNCHANGED notes,
                 \A i \in S : IsPost(f[i]) /\ f[i].ext = posts[i].ext /\ f[i].url = posts[i].url /\ f[i].live = posts[i].live
          PROVE  Listing(posts)' /\ Onward /\ NotesInOrder'
      <3>1. Len(posts') = n
        BY <1>3, <2>3, ListOf
      <3>2. \A i \in 1 .. n : IsPost(posts'[i]) /\ posts'[i].ext = posts[i].ext /\ posts'[i].url = posts[i].url /\ posts'[i].live = posts[i].live
        BY <1>3, <2>3 DEF SnsInv, Listing
      <3>3. Listing(posts)' /\ Onward
        <4>1. DOMAIN posts' = DOMAIN posts /\ posts' = [i \in 1 .. n |-> posts'[i]]
          BY <1>3, <2>3
        <4>2. \A i \in 1 .. n : IsPost(posts'[i]) /\ Refers(posts[i])'
          BY <1>2, <1>3, <3>2 DEF SnsInv, Listing, Refers
        <4>3. Listing(posts)'
          BY <3>1, <4>1, <4>2 DEF Listing
        <4> QED BY <1>2, <1>3, <3>2, <4>1, <4>3 DEF Onward
      <3> QED BY <1>3, <2>3, <3>2, <3>3, NotesStay DEF SnsInv, NotesInOrder
    <2>4. ASSUME NEW m \in Published, NEW v \in {0, 2}, ImportPost(m, v) PROVE Listing(posts)' /\ Onward /\ NotesInOrder'
      <3>1. UNCHANGED notes
        BY <2>4 DEF ImportPost
      <3>2. CASE {i \in LiveRows : posts[i].url = m} = {}
        <4>1. PICK p : p = Post(0, m, "none", v, 0)
          OBVIOUS
        <4>2. AddRow(p)
          BY <2>4, <3>2, <4>1 DEF ImportPost
        <4> QED BY <2>1, <3>1, <4>1, <4>2, PostIsPost
      <3>3. CASE {i \in LiveRows : posts[i].url = m} # {}
        <4>1. PICK S : S = {i \in LiveRows : posts[i].url = m}
          OBVIOUS
        <4>2. PICK f : f = [i \in S |-> [posts[i] EXCEPT !.views = v]]
          OBVIOUS
        <4>3. S \subseteq DOMAIN posts
          BY <4>1 DEF LiveRows
        <4>4. posts' = [i \in DOMAIN posts |-> IF i \in S THEN f[i] ELSE posts[i]]
          <5>1. posts' = [i \in DOMAIN posts |-> IF i \in S THEN [posts[i] EXCEPT !.views = v] ELSE posts[i]]
            BY <2>4, <3>3, <4>1 DEF ImportPost
          <5> QED BY <5>1, <4>2
        <4>5. ASSUME NEW i \in S PROVE IsPost(f[i]) /\ f[i].ext = posts[i].ext /\ f[i].url = posts[i].url /\ f[i].live = posts[i].live
          <5>1. PICK p : p = posts[i]
            OBVIOUS
          <5>2. f[i] = [p EXCEPT !.views = v] /\ IsPost(p)
            BY <1>3, <4>2, <4>3, <5>1 DEF SnsInv, Listing
          <5> QED BY <5>1, <5>2, EditedPost
        <4> QED BY <2>3, <3>1, <4>3, <4>4, <4>5
      <3> QED BY <3>2, <3>3
    <2>5. ASSUME NEW k \in DOMAIN posts, UpdatePost(k) PROVE Listing(posts)' /\ Onward /\ NotesInOrder'
      <3>1. PICK f : f = [i \in {k} |-> [posts[i] EXCEPT !.tag = "tag"]]
        OBVIOUS
      <3>2. posts' = [i \in DOMAIN posts |-> IF i \in {k} THEN f[i] ELSE posts[i]]
        BY <2>5, <3>1, <1>3 DEF UpdatePost
      <3>3. IsPost(f[k]) /\ f[k].ext = posts[k].ext /\ f[k].url = posts[k].url /\ f[k].live = posts[k].live
        <4>1. PICK p, v : p = posts[k] /\ v = "tag"
          OBVIOUS
        <4>2. f[k] = [p EXCEPT !.tag = v] /\ IsPost(p)
          BY <1>3, <3>1, <4>1 DEF SnsInv, Listing
        <4> QED BY <4>1, <4>2, EditedPost
      <3>4. PICK S : S = {k}
        OBVIOUS
      <3>5. posts' = [i \in DOMAIN posts |-> IF i \in S THEN f[i] ELSE posts[i]]
        BY <3>2, <3>4
      <3>6. UNCHANGED notes
        BY <2>5 DEF UpdatePost
      <3> QED BY <2>3, <2>5, <3>5, <3>3, <3>4, <3>6
    <2>6. CASE ResetAccountPosts
      <3>1. notes' = <<>> /\ posts' = [i \in DOMAIN posts |-> [Post(posts[i].ext, 0, "none", 0, 0) EXCEPT !.live = FALSE]]
        BY <2>6 DEF ResetAccountPosts
      <3>2. Len(posts') = n
        BY <1>3, <3>1, ListOf
      <3>3. \A i \in 1 .. n : IsPost(posts'[i]) /\ posts'[i].ext = posts[i].ext /\ ~posts'[i].live
        BY <1>3, <3>1 DEF Post, IsPost
      <3>4. Listing(posts)' /\ Onward
        BY <1>2, <1>3, <3>1, <3>2, <3>3 DEF Listing, Onward, Refers
      <3> QED BY <3>1, <3>4 DEF NotesInOrder
    <2> QED BY <2>2, <2>4, <2>5, <2>6
  <1> QED BY <1>1, <1>2, <1>4, AllFit DEF SnsInv

LEMMA RequestGoesOn ==
  ASSUME SnsInv, UNCHANGED <<remote, posts, notes>>, NEW r \in Collectors, NEW j, JobFits(j), jobs' = [jobs EXCEPT ![r] = j]
  PROVE  SnsInv'
  <1>1. PlatformInOrder' /\ Published' = Published
    BY PlatformRests DEF SnsInv
  <1>2. Listing(posts)' /\ NotesInOrder'
    BY <1>1 DEF SnsInv, Listing, NotesInOrder, Refers
  <1>3. Onward
    BY <1>1, RowsRest
  <1>4. JobFits(j)'
    BY <1>3, FitStays
  <1> QED BY <1>1, <1>2, <1>3, <1>4, OthersFit DEF SnsInv

LEMMA BeginStep ==
  ASSUME SnsInv, NEW r \in Collectors,
         \/ \E full \in BOOLEAN, op \in {"collect", "metrics"} : BeginCollect(r, full, op)
         \/ BeginComments(r)
         \/ \E i \in DOMAIN posts, force \in BOOLEAN : BeginAnalyze(r, i, force) \/ BeginTranslate(r, i, force)
  PROVE  SnsInv'
  <1>1. ASSUME NEW j, JobFits(j), Begins(r, j) PROVE SnsInv'
    BY <1>1, RequestGoesOn DEF Begins
  <1>2. ASSUME NEW full \in BOOLEAN, NEW op \in {"collect", "metrics"}, BeginCollect(r, full, op) PROVE SnsInv'
    <2>1. PICK j : j = [NoJob EXCEPT !.op = op, !.got = FetchPosts(full)]
      OBVIOUS
    <2>2. Begins(r, j)
      BY <1>2, <2>1 DEF BeginCollect
    <2>3. IsJob(j) /\ j.got = FetchPosts(full) /\ j.op = op /\ j.post = 0
      BY <2>1 DEF NoJob, IsJob
    <2>4. ASSUME NEW g \in FetchPosts(full) PROVE g[1] \in Published
      <3>1. PICK m \in Published : g = <<m, Cardinality(remote[m])>>
        BY DEF FetchPosts
      <3> QED BY <3>1
    <2>5. JobFits(j)
      <3>1. PICK f : f = [g \in FetchPosts(full) |-> g[1]]
        OBVIOUS
      <3>2. ASSUME NEW g \in FetchPosts(full), NEW h \in FetchPosts(full), g[1] = h[1] PROVE g = h
        <4>1. PICK m \in Published : g = <<m, Cardinality(remote[m])>>
          BY DEF FetchPosts
        <4>2. PICK n \in Published : h = <<n, Cardinality(remote[n])>>
          BY DEF FetchPosts
        <4> QED BY <3>2, <4>1, <4>2
      <3>3. f \in Injection(FetchPosts(full), Published)
        BY <2>4, <3>1, <3>2 DEF Injection, IsInjective
      <3>4. IsFiniteSet(FetchPosts(full))
        BY <3>3, FS_Injection DEF SnsInv, PlatformInOrder
      <3> QED BY <2>3, <2>4, <3>4 DEF JobFits, Collects
    <2> QED BY <1>1, <2>2, <2>5
  <1>3. CASE BeginComments(r)
    <2>1. PICK solved \in SUBSET {i \in LiveRows : platform = "instagram" /\ posts[i].ext = 0 /\ posts[i].url \in Published} :
            Begins(r, [NoJob EXCEPT !.op = "comments", !.read = [i \in LiveRows |-> posts[i]],
                       !.new = [i \in LiveRows |-> IF i \in solved THEN [posts[i] EXCEPT !.ext = posts[i].url] ELSE posts[i]]])
      BY <1>3 DEF BeginComments
    <2>2. PICK new : new = [i \in LiveRows |-> IF i \in solved THEN [posts[i] EXCEPT !.ext = posts[i].url] ELSE posts[i]]
      OBVIOUS
    <2>3. PICK read : read = [i \in LiveRows |-> posts[i]]
      OBVIOUS
    <2>4. PICK j : j = [NoJob EXCEPT !.op = "comments", !.read = read, !.new = new]
      OBVIOUS
    <2>5. IsJob(j) /\ j.op = "comments" /\ j.read = read /\ j.new = new
      BY <2>4 DEF NoJob, IsJob
    <2>6. ASSUME NEW i \in LiveRows PROVE Holds(read[i], new[i], i)
      <3>1. i \in DOMAIN posts /\ IsPost(posts[i]) /\ Refers(posts[i]) /\ posts[i].live
        BY DEF SnsInv, Listing, LiveRows
      <3>2. CASE i \in solved
        <4>1. PICK p, u : p = posts[i] /\ u = posts[i].url /\ p.ext = 0
          BY <3>2
        <4>2. new[i] = [p EXCEPT !.ext = u] /\ read[i] = p /\ IsPost(p)
          BY <2>2, <2>3, <3>1, <3>2, <4>1
        <4>3. IsPost(new[i]) /\ new[i].ext = u /\ new[i].url = p.url /\ new[i].live = p.live
          BY <4>2 DEF IsPost
        <4> QED BY <3>1, <4>1, <4>2, <4>3 DEF Holds, Refers
      <3>3. CASE i \notin solved
        BY <2>2, <2>3, <3>1, <3>3 DEF Holds, Refers
      <3> QED BY <3>2, <3>3
    <2>7. JobFits(j)
      BY <2>2, <2>3, <2>5, <2>6 DEF JobFits, Collects
    <2> QED BY <1>1, <2>1, <2>2, <2>3, <2>4, <2>7
  <1>4. ASSUME NEW i \in DOMAIN posts, NEW force \in BOOLEAN, BeginAnalyze(r, i, force) \/ BeginTranslate(r, i, force) PROVE SnsInv'
    <2>1. PICK j : /\ Begins(r, j)
                   /\ \/ j = [NoJob EXCEPT !.op = "analyze", !.post = i, !.got = {k[2] : k \in NotesOf(i)}]
                      \/ j = [NoJob EXCEPT !.op = "translate", !.got = {k \in NotesOf(i) : force \/ ~notes[k]}]
      BY <1>4 DEF BeginAnalyze, BeginTranslate
    <2>2. IsJob(j) /\ j.op \in {"analyze", "translate"}
      BY <2>1 DEF NoJob, IsJob
    <2>3. JobFits(j)
      BY <2>2 DEF JobFits, Collects
    <2> QED BY <1>1, <2>1, <2>3
  <1> QED BY <1>2, <1>3, <1>4

LEMMA SelectStep ==
  ASSUME SnsInv, NEW r \in Collectors, SelectPosts(r)
  PROVE  SnsInv'
  <1>1. PICK k : k = jobs[r] /\ JobFits(k)
    BY DEF SnsInv, JobsInOrder
  <1> DEFINE found == {i \in LiveRows : \E g \in k.got : posts[i].ext = g[1]}
             itemOf(i) == CHOOSE g \in k.got : posts[i].ext = g[1]
             kept == IF k.op = "metrics" THEN LiveRows ELSE found
  <1>2. PICK adds, read, new : /\ adds = {g \in k.got : RowsOf(g[1]) = {}}
                               /\ read = [i \in kept |-> posts[i]]
                               /\ new = [i \in kept |-> IF i \in found THEN Collected(posts[i], itemOf(i)) ELSE posts[i]]
    OBVIOUS
  <1>3. /\ k.op \in {"collect", "metrics"}
        /\ jobs' = [jobs EXCEPT ![r].post = 1, ![r].adds = adds, ![r].read = read, ![r].new = new]
        /\ UNCHANGED <<remote, posts, notes>>
    BY <1>1, <1>2, ZenonT(40) DEF SelectPosts
  <1>4. PICK j : j = [k EXCEPT !.post = 1, !.adds = adds, !.read = read, !.new = new]
    OBVIOUS
  <1>5. jobs' = [jobs EXCEPT ![r] = j]
    BY <1>1, <1>3, <1>4 DEF SnsInv, JobsInOrder
  <1>6. IsJob(j) /\ j.op = k.op /\ j.got = k.got /\ j.post = 1 /\ j.adds = adds /\ j.read = read /\ j.new = new
    BY <1>1, <1>4 DEF JobFits, IsJob
  <1>7. kept \subseteq LiveRows
    OBVIOUS
  <1>8. ASSUME NEW i \in kept PROVE Holds(read[i], new[i], i)
    <2>1. i \in DOMAIN posts /\ IsPost(posts[i]) /\ Refers(posts[i]) /\ posts[i].live
      BY <1>7 DEF SnsInv, Listing, LiveRows
    <2>2. CASE i \in found
      <3>1. PICK p, g : p = posts[i] /\ g = itemOf(i)
        OBVIOUS
      <3>2. g \in k.got /\ p.ext = g[1]
        BY <2>2, <3>1
      <3>3. g[1] \in Published /\ g[1] # 0
        BY <1>1, <1>3, <3>2, SnsAssumption DEF JobFits, Collects, SnsInv, PlatformInOrder
      <3>4. new[i] = [Post(g[1], g[1], "none", Views, g[2]) EXCEPT !.summary = p.summary] /\ read[i] = p
        BY <1>2, <2>2, <3>1 DEF Collected
      <3>5. IsPost(new[i]) /\ new[i].ext = g[1] /\ new[i].url = g[1] /\ new[i].live
        BY <3>4 DEF Post, IsPost
      <3>6. p.url = g[1]
        BY <2>1, <3>1, <3>2, <3>3 DEF Refers
      <3> QED BY <2>1, <3>1, <3>2, <3>3, <3>4, <3>5, <3>6 DEF Holds
    <2>3. CASE i \notin found
      BY <1>2, <2>1, <2>3 DEF Holds, Refers
    <2> QED BY <2>2, <2>3
  <1>9. ASSUME NEW g \in k.got PROVE g \in adds \/ \E i \in DOMAIN read : read[i].ext = g[1]
    <2>1. CASE g \notin adds
      <3>1. PICK i : i \in LiveRows /\ posts[i].ext = g[1]
        BY <1>2, <2>1 DEF RowsOf
      <3>2. i \in kept
        BY <3>1
      <3> QED BY <1>2, <3>1, <3>2
    <2> QED BY <2>1
  <1>10. JobFits(j)
    <2>1. DOMAIN read = kept /\ DOMAIN new = kept
      BY <1>2
    <2>2. IsFiniteSet(k.got) /\ \A g \in k.got : g[1] \in Published
      BY <1>1, <1>3 DEF JobFits, Collects
    <2>3. adds \subseteq k.got
      BY <1>2
    <2> HIDE DEF kept, found, itemOf
    <2> QED BY <1>3, <1>6, <1>8, <1>9, <2>1, <2>2, <2>3 DEF JobFits, Collects
  <1> QED BY <1>3, <1>5, <1>10, RequestGoesOn

\* The columns a request has changed, written to the row as it is now.
LEMMA WrittenRow ==
  ASSUME NEW i, NEW read, NEW new, Holds(read, new, i), IsPost(posts[i]), Refers(posts[i]), new = read \/ posts[i].live
  PROVE  LET w == Written(posts[i], read, new)
         IN  /\ IsPost(w) /\ Refers(w) /\ w.live = posts[i].live /\ w.url = posts[i].url
             /\ posts[i].ext # 0 => w.ext = posts[i].ext
             /\ read.ext # 0 => w.ext = read.ext
  <1> DEFINE w == Written(posts[i], read, new)
  <1>1. PICK p : p = posts[i]
    OBVIOUS
  <1>2. w = [ext |-> IF read.ext = new.ext THEN p.ext ELSE new.ext, url |-> IF read.url = new.url THEN p.url ELSE new.url,
             tag |-> IF read.tag = new.tag THEN p.tag ELSE new.tag, views |-> IF read.views = new.views THEN p.views ELSE new.views,
             count |-> IF read.count = new.count THEN p.count ELSE new.count,
             summary |-> IF read.summary = new.summary THEN p.summary ELSE new.summary,
             live |-> IF read.live = new.live THEN p.live ELSE new.live]
    <2>1. p = [ext |-> p.ext, url |-> p.url, tag |-> p.tag, views |-> p.views, count |-> p.count, summary |-> p.summary, live |-> p.live]
      BY <1>1 DEF IsPost
    <2> QED BY <1>1, <2>1 DEF Written
  <1>3. read.url = new.url /\ read.live = new.live
    BY DEF Holds, IsPost
  <1>4. IsPost(w) /\ w.live = p.live /\ w.url = p.url /\ w.ext = IF read.ext = new.ext THEN p.ext ELSE new.ext
    BY <1>1, <1>2, <1>3 DEF IsPost
  <1>5. CASE read.ext = new.ext
    BY <1>1, <1>4, <1>5 DEF Holds, Refers
  <1>6. CASE read.ext # new.ext
    <2>1. new.ext = read.url /\ read.ext = 0 /\ posts[i].live /\ posts[i].url = read.url
      BY <1>6 DEF Holds
    <2> QED BY <1>1, <1>4, <1>6, <2>1 DEF Holds, Refers
  <1> QED BY <1>1, <1>4, <1>5, <1>6

LEMMA SavedRows ==
  ASSUME SnsInv, NEW j, JobFits(j), j.op = "comments" \/ (Collects(j) /\ j.post = 1), ~Stale(j)
  PROVE  /\ Listing(Saved(j)) /\ DOMAIN Saved(j) = DOMAIN posts /\ Len(Saved(j)) = Len(posts)
         /\ \A i \in DOMAIN posts : /\ Saved(j)[i].live = posts[i].live /\ Saved(j)[i].url = posts[i].url
                                    /\ posts[i].ext # 0 => Saved(j)[i].ext = posts[i].ext
         /\ \A i \in DOMAIN j.read : i \in DOMAIN posts /\ (j.read[i].ext # 0 => Saved(j)[i].ext = j.read[i].ext)
  <1>1. PICK n \in Nat : n = Len(posts) /\ posts = [i \in 1 .. n |-> posts[i]] /\ DOMAIN posts = 1 .. n
    BY DEF SnsInv, Listing
  <1>2. DOMAIN j.read = DOMAIN j.new /\ \A i \in DOMAIN j.new : Holds(j.read[i], j.new[i], i)
    BY DEF JobFits
  <1>3. PICK w : w = Saved(j)
    OBVIOUS
  <1>4. w = [i \in 1 .. n |-> IF i \in DOMAIN j.new THEN Written(posts[i], j.read[i], j.new[i]) ELSE posts[i]]
    BY <1>1, <1>3 DEF Saved
  <1>5. Len(w) = n /\ DOMAIN w = 1 .. n /\ w = [i \in 1 .. n |-> w[i]]
    BY <1>4, ListOf
  <1>6. ASSUME NEW i \in 1 .. n
        PROVE  /\ IsPost(w[i]) /\ Refers(w[i]) /\ w[i].live = posts[i].live /\ w[i].url = posts[i].url
               /\ posts[i].ext # 0 => w[i].ext = posts[i].ext
               /\ i \in DOMAIN j.read /\ j.read[i].ext # 0 => w[i].ext = j.read[i].ext
    <2>1. IsPost(posts[i]) /\ Refers(posts[i])
      BY <1>1 DEF SnsInv, Listing
    <2>2. CASE i \in DOMAIN j.new
      <3>1. Holds(j.read[i], j.new[i], i) /\ (j.new[i] = j.read[i] \/ posts[i].live)
        BY <1>2, <2>2 DEF Stale
      <3>2. PICK read, new : read = j.read[i] /\ new = j.new[i]
        OBVIOUS
      <3>3. w[i] = Written(posts[i], read, new)
        BY <1>4, <2>2, <3>2
      <3> QED BY <2>1, <3>1, <3>2, <3>3, WrittenRow
    <2>3. CASE i \notin DOMAIN j.new
      BY <1>2, <1>4, <2>1, <2>3
    <2> QED BY <2>2, <2>3
  <1>7. Listing(w)
    BY <1>5, <1>6 DEF Listing
  <1>8. \A i \in DOMAIN j.read : i \in 1 .. n
    BY <1>1, <1>2 DEF Holds
  <1> QED BY <1>1, <1>3, <1>5, <1>6, <1>7, <1>8

\* The list a set is put in holds its elements and no others.
LEMMA SetInOrder ==
  ASSUME NEW S, IsFiniteSet(S)
  PROVE  /\ SetToSeq(S) \in [1 .. Cardinality(S) -> S] /\ Cardinality(S) \in Nat
         /\ \A x \in S : \E i \in 1 .. Cardinality(S) : SetToSeq(S)[i] = x
  <1> DEFINE n == Cardinality(S)
  <1>1. n \in Nat /\ ExistsBijection(1 .. n, S)
    BY FS_CardinalityType
  <1>2. \E f \in [1 .. n -> S] : IsInjective(f)
    BY <1>1 DEF ExistsBijection, Bijection, Injection
  <1>3. SetToSeq(S) \in [1 .. n -> S] /\ IsInjective(SetToSeq(S))
    BY <1>2 DEF SetToSeq
  <1>4. SetToSeq(S) \in Injection(1 .. n, S)
    BY <1>3 DEF Injection
  <1>5. IsFiniteSet(1 .. n) /\ Cardinality(1 .. n) = n
    BY <1>1, FS_Interval
  <1>6. SetToSeq(S) \in Surjection(1 .. n, S)
    BY <1>4, <1>5, FS_Injection
  <1> QED BY <1>1, <1>3, <1>6 DEF Surjection

\* What a collection is about to commit.
LEMMA ResultRows ==
  ASSUME SnsInv, NEW j, JobFits(j), Collects(j), j.post = 1, ~Stale(j)
  PROVE  LET rows == Result(j)
         IN  /\ Listing(rows) /\ DOMAIN posts \subseteq DOMAIN rows /\ DOMAIN rows = 1 .. Len(rows)
             /\ \A i \in DOMAIN posts : /\ rows[i].live = posts[i].live /\ rows[i].url = posts[i].url
                                        /\ posts[i].ext # 0 => rows[i].ext = posts[i].ext
             /\ \A g \in j.got : \E i \in DOMAIN rows : rows[i].ext = g[1] /\ (rows[i].live \/ i \in DOMAIN j.read)
  <1>1. PICK n \in Nat : n = Len(posts) /\ posts = [i \in 1 .. n |-> posts[i]] /\ DOMAIN posts = 1 .. n
    BY DEF SnsInv, Listing
  <1>2. PICK w : w = Saved(j)
    OBVIOUS
  <1>3. /\ Listing(w) /\ Len(w) = n
        /\ \A i \in DOMAIN posts : /\ w[i].live = posts[i].live /\ w[i].url = posts[i].url
                                   /\ posts[i].ext # 0 => w[i].ext = posts[i].ext
        /\ \A i \in DOMAIN j.read : i \in DOMAIN posts /\ (j.read[i].ext # 0 => w[i].ext = j.read[i].ext)
    BY <1>1, <1>2, SavedRows
  <1>4. /\ IsFiniteSet(j.got) /\ \A g \in j.got : g[1] \in Published /\ g[1] # 0
        /\ j.adds \subseteq j.got
        /\ \A g \in j.got : g \in j.adds \/ \E i \in DOMAIN j.read : j.read[i].ext = g[1]
    BY SnsAssumption DEF JobFits, SnsInv, PlatformInOrder
  <1>5. PICK row : row = [g \in j.adds |-> Post(g[1], g[1], "none", Views, g[2])]
    OBVIOUS
  <1>6. PICK S : S = {Post(g[1], g[1], "none", Views, g[2]) : g \in j.adds}
    OBVIOUS
  <1>7. IsFiniteSet(S)
    <2>1. row \in Surjection(j.adds, S)
      BY <1>5, <1>6 DEF Surjection
    <2>2. IsFiniteSet(j.adds)
      BY <1>4, FS_Subset
    <2> QED BY <2>1, <2>2, FS_Surjection
  <1>8. PICK m, t : m = Cardinality(S) /\ t = SetToSeq(S)
    OBVIOUS
  <1>9. m \in Nat /\ t \in [1 .. m -> S] /\ \A x \in S : \E i \in 1 .. m : t[i] = x
    BY <1>7, <1>8, SetInOrder
  <1>10. ASSUME NEW x \in S PROVE IsPost(x) /\ Refers(x) /\ x.live
    <2>1. PICK g \in j.adds : x = Post(g[1], g[1], "none", Views, g[2])
      BY <1>6
    <2> QED BY <1>4, <2>1, PostIsPost DEF Refers
  <1>11. PICK rows : rows = Result(j)
    OBVIOUS
  <1>12. rows = [i \in 1 .. n + m |-> IF i <= n THEN w[i] ELSE t[i - n]]
    <2>1. w = [i \in 1 .. n |-> w[i]]
      BY <1>3 DEF Listing
    <2>2. w \in Seq({w[i] : i \in 1 .. n})
      BY <2>1, ListOf
    <2>3. t \in Seq(S) /\ Len(t) = m
      BY <1>9, IsASeq
    <2>4. rows = w \o t
      BY <1>2, <1>6, <1>8, <1>11 DEF Result, Inserts
    <2> QED BY <1>3, <1>9, <2>1, <2>2, <2>3, <2>4
  <1>13. Len(rows) = n + m /\ DOMAIN rows = 1 .. n + m /\ rows = [i \in 1 .. n + m |-> rows[i]]
    BY <1>9, <1>12, ListOf
  <1>14. ASSUME NEW i \in 1 .. n + m PROVE IsPost(rows[i]) /\ Refers(rows[i]) /\ (i <= n => rows[i] = w[i]) /\ (i > n => rows[i].live)
    <2>1. CASE i <= n
      BY <1>3, <1>12, <1>13, <2>1 DEF Listing
    <2>2. CASE i > n
      <3>1. i - n \in 1 .. m /\ rows[i] = t[i - n]
        BY <1>9, <1>12, <2>2
      <3>2. t[i - n] \in S
        BY <1>9, <3>1
      <3> QED BY <1>10, <2>2, <3>1, <3>2
    <2> QED BY <1>9, <2>1, <2>2
  <1>15. Listing(rows)
    BY <1>9, <1>13, <1>14 DEF Listing
  <1>16. ASSUME NEW i \in DOMAIN posts PROVE i \in DOMAIN rows /\ rows[i] = w[i]
    <2>1. i \in 1 .. n + m /\ i <= n
      BY <1>1, <1>9
    <2> QED BY <1>13, <1>14, <2>1
  <1>17. ASSUME NEW g \in j.got PROVE \E i \in DOMAIN rows : rows[i].ext = g[1] /\ (rows[i].live \/ i \in DOMAIN j.read)
    <2>1. CASE g \in j.adds
      <3>1. row[g] \in S /\ row[g].ext = g[1]
        BY <1>5, <1>6, <2>1, PostIsPost
      <3>2. PICK i \in 1 .. m : t[i] = row[g]
        BY <1>9, <3>1
      <3>3. n + i \in 1 .. n + m /\ rows[n + i] = t[i] /\ n + i > n
        BY <1>9, <1>12, <3>2
      <3> QED BY <1>13, <1>14, <3>1, <3>2, <3>3
    <2>2. CASE \E i \in DOMAIN j.read : j.read[i].ext = g[1]
      BY <1>3, <1>4, <1>16, <2>2
    <2> QED BY <1>4, <2>1, <2>2
  <1> QED BY <1>3, <1>11, <1>13, <1>15, <1>16, <1>17

\* Rows that a commit puts in the place of those there.
LEMMA RowsCommitted ==
  ASSUME SnsInv, NEW rows, Listing(rows), DOMAIN posts \subseteq DOMAIN rows, posts' = rows, remote' = remote,
         \A i \in DOMAIN posts : /\ rows[i].live = posts[i].live /\ rows[i].url = posts[i].url
                                 /\ posts[i].ext # 0 => rows[i].ext = posts[i].ext
  PROVE  Listing(posts)' /\ Onward /\ (notes' = notes => NotesInOrder')
  <1>1. Published' = Published
    BY DEF Published
  <1>2. Listing(posts)'
    BY <1>1 DEF Listing, Refers
  <1>3. Onward
    BY <1>1 DEF Onward
  <1> QED BY <1>2, <1>3 DEF SnsInv, NotesInOrder

LEMMA CommitCollectStep ==
  ASSUME SnsInv, NEW r \in Collectors, CommitCollect(r)
  PROVE  SnsInv'
  <1>1. CASE Fails(r)
    BY <1>1, RequestFails
  <1>2. CASE ~Fails(r)
    <2>1. PICK j : j = jobs[r] /\ JobFits(j)
      BY DEF SnsInv, JobsInOrder
    <2>2. /\ j.op = "collect" /\ j.post = 1 /\ ~Stale(j) /\ posts' = Result(j) /\ Answers(r, "ok") /\ notes' = notes
      BY <1>2, <2>1 DEF CommitCollect
    <2>3. PICK rows : rows = Result(j)
      OBVIOUS
    <2>4. /\ Listing(rows) /\ DOMAIN posts \subseteq DOMAIN rows
          /\ \A i \in DOMAIN posts : /\ rows[i].live = posts[i].live /\ rows[i].url = posts[i].url
                                     /\ posts[i].ext # 0 => rows[i].ext = posts[i].ext
      BY <2>1, <2>2, <2>3, ResultRows DEF Collects
    <2>5. remote' = remote
      BY <2>2 DEF Answers
    <2>6. Listing(posts)' /\ Onward /\ NotesInOrder'
      BY <2>2, <2>3, <2>4, <2>5, RowsCommitted
    <2>7. PlatformInOrder'
      BY <2>5, PlatformRests DEF SnsInv
    <2> QED BY <2>2, <2>6, <2>7, RequestEnds DEF SnsInv
  <1> QED BY <1>1, <1>2

LEMMA BackRow ==
  ASSUME NEW p, IsPost(p)
  PROVE  LET q == WrittenBack(p) IN IsPost(q) /\ q.ext = p.ext /\ q.url = p.url /\ q.live = p.live
  <1>1. PICK m : m = IF p.ext # 0 THEN p.ext ELSE p.url
    OBVIOUS
  <1>2. PICK v, c : v = (IF Views = 0 THEN p.views ELSE Views) /\ c = Cardinality(remote[m])
    OBVIOUS
  <1>3. WrittenBack(p) = [p EXCEPT !.views = v, !.count = c]
    BY <1>1, <1>2 DEF WrittenBack
  <1> QED BY <1>3 DEF IsPost

\* The metrics change neither what a row refers to nor whether it is there.
WithMetrics(rows, good) == [i \in DOMAIN rows |-> IF i \in good THEN WrittenBack(rows[i]) ELSE rows[i]]
LEMMA RowsWithMetrics ==
  ASSUME NEW rows, Listing(rows), NEW good, NEW out, out = WithMetrics(rows, good)
  PROVE  /\ Listing(out) /\ DOMAIN out = DOMAIN rows
         /\ \A i \in DOMAIN rows : out[i].live = rows[i].live /\ out[i].url = rows[i].url /\ out[i].ext = rows[i].ext
  <1>1. PICK n \in Nat : n = Len(rows) /\ rows = [i \in 1 .. n |-> rows[i]] /\ DOMAIN rows = 1 .. n
    BY DEF Listing
  <1>2. Len(out) = n /\ out = [i \in 1 .. n |-> out[i]]
    BY <1>1, ListOf DEF WithMetrics
  <1>3. ASSUME NEW i \in 1 .. n
        PROVE  IsPost(out[i]) /\ Refers(out[i]) /\ out[i].live = rows[i].live /\ out[i].url = rows[i].url /\ out[i].ext = rows[i].ext
    <2>1. IsPost(rows[i]) /\ Refers(rows[i])
      BY <1>1 DEF Listing
    <2>2. PICK p : p = rows[i]
      OBVIOUS
    <2>3. out[i] = p \/ out[i] = WrittenBack(p)
      BY <1>1, <2>2 DEF WithMetrics
    <2>4. IsPost(out[i]) /\ out[i].live = p.live /\ out[i].url = p.url /\ out[i].ext = p.ext
      BY <2>1, <2>2, <2>3, BackRow
    <2> QED BY <2>1, <2>2, <2>4 DEF Refers
  <1> QED BY <1>1, <1>2, <1>3 DEF Listing, WithMetrics

LEMMA CommitMetricsMeans ==
  ASSUME NEW r \in Collectors, CommitMetrics(r), ~Fails(r), NEW j, j = jobs[r]
  PROVE  /\ j.op = "metrics" /\ j.post = 1 /\ ~Stale(j) /\ ~Twice(Result(j)) /\ Answers(r, "ok") /\ notes' = notes
         /\ \E good : posts' = WithMetrics(Result(j), good)
  <1> DEFINE rows == Result(jobs[r])
             mine == DOMAIN jobs[r].new \cup (Len(posts) + 1 .. Len(rows))
             known == {i \in mine : rows[i].live /\ HasRef(rows[i]) /\ (rows[i].ext \in Published \/ rows[i].url \in Published)}
  <1>1. \E bad \in SUBSET known :
          LET good == known \ bad
              out == [i \in DOMAIN rows |-> IF i \in good THEN WrittenBack(rows[i]) ELSE rows[i]]
          IN IF Twice(rows) \/ Stale(jobs[r]) THEN Fails(r)
             ELSE /\ posts' = out
                  /\ series' = [i \in DOMAIN series \cup good |-> IF i \in good THEN Views ELSE series[i]]
                  /\ Answers(r, "ok") /\ UNCHANGED notes
    BY DEF CommitMetrics
  <1>2. PICK bad \in SUBSET known :
          IF Twice(rows) \/ Stale(jobs[r]) THEN Fails(r)
          ELSE posts' = WithMetrics(rows, known \ bad) /\ Answers(r, "ok") /\ UNCHANGED notes
    <2> HIDE DEF rows, known
    <2> QED BY <1>1 DEF WithMetrics
  <1>3. j.op = "metrics" /\ j.post = 1
    BY DEF CommitMetrics
  <1>4. PICK good : good = known \ bad
    OBVIOUS
  <1> HIDE DEF known
  <1> QED BY <1>2, <1>3, <1>4

LEMMA CommitMetricsStep ==
  ASSUME SnsInv, NEW r \in Collectors, CommitMetrics(r)
  PROVE  SnsInv'
  <1>1. CASE Fails(r)
    BY <1>1, RequestFails
  <1>2. CASE ~Fails(r)
    <2>1. PICK j : j = jobs[r] /\ JobFits(j)
      BY DEF SnsInv, JobsInOrder
    <2>2. PICK rows : rows = Result(j)
      OBVIOUS
    <2>3. PICK good : /\ j.op = "metrics" /\ j.post = 1 /\ ~Stale(j) /\ Answers(r, "ok") /\ notes' = notes
                      /\ posts' = WithMetrics(rows, good)
      BY <1>2, <2>1, <2>2, CommitMetricsMeans
    <2>4. /\ Listing(rows) /\ DOMAIN posts \subseteq DOMAIN rows
          /\ \A i \in DOMAIN posts : /\ rows[i].live = posts[i].live /\ rows[i].url = posts[i].url
                                     /\ posts[i].ext # 0 => rows[i].ext = posts[i].ext
      BY <2>1, <2>2, <2>3, ResultRows DEF Collects
    <2>5. PICK out : out = WithMetrics(rows, good)
      OBVIOUS
    <2>6. /\ Listing(out) /\ DOMAIN out = DOMAIN rows
          /\ \A i \in DOMAIN rows : out[i].live = rows[i].live /\ out[i].url = rows[i].url /\ out[i].ext = rows[i].ext
      BY <2>4, <2>5, RowsWithMetrics
    <2>7. remote' = remote
      BY <2>3 DEF Answers
    <2>8. \A i \in DOMAIN posts : /\ out[i].live = posts[i].live /\ out[i].url = posts[i].url
                                  /\ posts[i].ext # 0 => out[i].ext = posts[i].ext
      BY <2>4, <2>6
    <2>9. posts' = out /\ DOMAIN posts \subseteq DOMAIN out
      BY <2>3, <2>4, <2>5, <2>6
    <2>10. Listing(posts)' /\ Onward /\ NotesInOrder'
      BY <2>3, <2>6, <2>7, <2>8, <2>9, RowsCommitted
    <2>11. PlatformInOrder'
      BY <2>7, PlatformRests DEF SnsInv
    <2> QED BY <2>3, <2>10, <2>11, RequestEnds DEF SnsInv
  <1> QED BY <1>1, <1>2

LEMMA CommitCommentsMeans ==
  ASSUME NEW r \in Collectors, CommitComments(r), ~Fails(r)
  PROVE  /\ jobs[r].op = "comments" /\ ~Stale(jobs[r]) /\ posts' = Saved(jobs[r]) /\ Answers(r, "ok")
         /\ \A k \in DOMAIN notes' : k \in DOMAIN notes \/ \E i \in DOMAIN jobs[r].new :
              /\ k[1] = i /\ jobs[r].new[i].url \in Published
              /\ k[2] \in CommentsFor(Saved(jobs[r]), i)
  <1> DEFINE rows == Saved(jobs[r])
             polled == {i \in DOMAIN jobs[r].new : HasRef(jobs[r].new[i]) /\ jobs[r].new[i].count > 0 /\ jobs[r].new[i].url \in Published}
             put(bad) == UNION {{<<i, c>> : c \in CommentsFor(rows, i)} : i \in polled \ bad}
  <1>1. jobs[r].op = "comments"
    BY DEF CommitComments
  <1>2. \E bad \in SUBSET polled :
          LET gone == \E i \in polled \ bad : ~posts[i].live /\ remote[jobs[r].new[i].url] # {}
          IN IF Twice(rows) \/ Stale(jobs[r]) \/ gone THEN Fails(r)
             ELSE /\ posts' = rows
                  /\ notes' = [k \in DOMAIN notes \cup put(bad) |-> IF k \in DOMAIN notes THEN notes[k] ELSE FALSE]
                  /\ Answers(r, "ok") /\ UNCHANGED series
    BY DEF CommitComments
  <1>3. PICK bad \in SUBSET polled :
          /\ ~Stale(jobs[r]) /\ posts' = rows /\ Answers(r, "ok")
          /\ notes' = [k \in DOMAIN notes \cup put(bad) |-> IF k \in DOMAIN notes THEN notes[k] ELSE FALSE]
    <2> HIDE DEF rows, polled, put
    <2> QED BY <1>2
  <1>4. ASSUME NEW k \in put(bad)
        PROVE  \E i \in DOMAIN jobs[r].new : k[1] = i /\ jobs[r].new[i].url \in Published /\ k[2] \in CommentsFor(rows, i)
    <2>1. PICK i \in polled \ bad : k \in {<<i, c>> : c \in CommentsFor(rows, i)}
      OBVIOUS
    <2>2. PICK c \in CommentsFor(rows, i) : k = <<i, c>>
      BY <2>1
    <2> QED BY <2>1, <2>2
  <1>5. DOMAIN notes' = DOMAIN notes \cup put(bad)
    BY <1>3
  <1> HIDE DEF polled, put
  <1> QED BY <1>1, <1>3, <1>4, <1>5

LEMMA CommitCommentsStep ==
  ASSUME SnsInv, NEW r \in Collectors, CommitComments(r)
  PROVE  SnsInv'
  <1>1. CASE Fails(r)
    BY <1>1, RequestFails
  <1>2. CASE ~Fails(r)
    <2>1. PICK j : j = jobs[r] /\ JobFits(j)
      BY DEF SnsInv, JobsInOrder
    <2>2. PICK rows : rows = Saved(j)
      OBVIOUS
    <2>3. /\ j.op = "comments" /\ ~Stale(j) /\ posts' = rows /\ Answers(r, "ok")
          /\ \A k \in DOMAIN notes' : k \in DOMAIN notes \/ \E i \in DOMAIN j.new :
               k[1] = i /\ j.new[i].url \in Published /\ k[2] \in CommentsFor(rows, i)
      BY <1>2, <2>1, <2>2, CommitCommentsMeans
    <2>4. /\ Listing(rows) /\ DOMAIN rows = DOMAIN posts /\ Len(rows) = Len(posts)
          /\ \A i \in DOMAIN posts : /\ rows[i].live = posts[i].live /\ rows[i].url = posts[i].url
                                     /\ posts[i].ext # 0 => rows[i].ext = posts[i].ext
      BY <2>1, <2>2, <2>3, SavedRows
    <2>5. remote' = remote
      BY <2>3 DEF Answers
    <2>6. Listing(posts)' /\ Onward
      BY <2>3, <2>4, <2>5, RowsCommitted
    <2>7. ASSUME NEW k \in DOMAIN notes' PROVE k[1] \in DOMAIN rows /\ rows[k[1]].live /\ k[2][1] = rows[k[1]].url
      <3>1. CASE k \in DOMAIN notes
        BY <3>1, <2>4 DEF SnsInv, NotesInOrder
      <3>2. CASE \E i \in DOMAIN j.new : k[1] = i /\ j.new[i].url \in Published /\ k[2] \in CommentsFor(rows, i)
        <4>1. PICK i \in DOMAIN j.new : k[1] = i /\ j.new[i].url \in Published /\ k[2] \in CommentsFor(rows, i)
          BY <3>2
        <4>2. PICK m : m = IF rows[i].ext # 0 THEN rows[i].ext ELSE rows[i].url
          OBVIOUS
        <4>3. rows[i].live /\ k[2] \in remote[m]
          BY <4>1, <4>2 DEF CommentsFor
        <4>4. Holds(j.read[i], j.new[i], i)
          BY <2>1, <2>3, <4>1 DEF JobFits
        <4>5. i \in DOMAIN posts /\ i \in 1 .. Len(rows) /\ rows[i].url = j.new[i].url
          BY <2>4, <4>3, <4>4 DEF Holds, Listing
        <4>6. m = rows[i].url
          BY <2>4, <4>2, <4>3, <4>5 DEF Listing, Refers
        <4>7. remote[m] \subseteq Comments(m)
          BY <4>1, <4>5, <4>6 DEF SnsInv, PlatformInOrder
        <4>8. k[2] = <<m, 1>>
          BY <4>3, <4>7 DEF Comments
        <4> QED BY <2>4, <4>1, <4>3, <4>5, <4>6, <4>8
      <3> QED BY <2>3, <3>1, <3>2
    <2>8. NotesInOrder'
      BY <2>3, <2>7 DEF NotesInOrder
    <2>9. PlatformInOrder'
      BY <2>5, PlatformRests DEF SnsInv
    <2> QED BY <2>3, <2>6, <2>8, <2>9, RequestEnds DEF SnsInv
  <1> QED BY <1>1, <1>2

LEMMA EndStep ==
  ASSUME SnsInv, NEW r \in Collectors, EndAnalyze(r) \/ EndTranslate(r)
  PROVE  SnsInv'
  <1>1. CASE Fails(r)
    BY <1>1, RequestFails
  <1>2. CASE ~Fails(r) /\ EndTranslate(r)
    <2>1. posts' = posts /\ Answers(r, "ok") /\ remote' = remote /\ DOMAIN notes' = DOMAIN notes
      BY <1>2 DEF EndTranslate, Answers
    <2>2. PlatformInOrder' /\ Published' = Published
      BY <2>1, PlatformRests DEF SnsInv
    <2>3. Listing(posts)' /\ NotesInOrder'
      BY <2>1, <2>2 DEF SnsInv, Listing, NotesInOrder, Refers
    <2>4. Onward
      BY <2>1, <2>2, RowsRest
    <2> QED BY <2>1, <2>2, <2>3, <2>4, RequestEnds DEF SnsInv
  <1>3. CASE ~Fails(r) /\ EndAnalyze(r)
    <2>1. PICK i, v : i = jobs[r].post /\ v = jobs[r].got
      OBVIOUS
    <2>2. posts' = [posts EXCEPT ![i].summary = v] /\ Answers(r, "ok") /\ remote' = remote /\ notes' = notes
      BY <1>3, <2>1 DEF EndAnalyze, Answers
    <2>3. PICK n \in Nat : n = Len(posts) /\ posts = [k \in 1 .. n |-> posts[k]] /\ DOMAIN posts = 1 .. n
      BY DEF SnsInv, Listing
    <2>4. PICK rows : rows = [k \in 1 .. n |-> IF k = i THEN [posts[k] EXCEPT !.summary = v] ELSE posts[k]]
      OBVIOUS
    <2>5. posts' = rows
      BY <2>2, <2>3, <2>4
    <2>6. Len(rows) = n /\ rows = [k \in 1 .. n |-> rows[k]] /\ DOMAIN rows = 1 .. n
      BY <2>4, ListOf
    <2>7. ASSUME NEW k \in 1 .. n
          PROVE  IsPost(rows[k]) /\ Refers(rows[k]) /\ rows[k].ext = posts[k].ext /\ rows[k].url = posts[k].url /\ rows[k].live = posts[k].live
      <3>1. PICK p : p = posts[k] /\ IsPost(p) /\ Refers(p)
        BY <2>3 DEF SnsInv, Listing
      <3>2. rows[k] = p \/ rows[k] = [p EXCEPT !.summary = v]
        BY <2>4, <3>1
      <3>3. IsPost(rows[k]) /\ rows[k].ext = p.ext /\ rows[k].url = p.url /\ rows[k].live = p.live
        BY <3>1, <3>2, EditedPost
      <3> QED BY <3>1, <3>3 DEF Refers
    <2>8. Listing(rows)
      BY <2>6, <2>7 DEF Listing
    <2>9. Listing(posts)' /\ Onward /\ NotesInOrder'
      BY <2>2, <2>3, <2>5, <2>6, <2>7, <2>8, RowsCommitted
    <2>10. PlatformInOrder'
      BY <2>2, PlatformRests DEF SnsInv
    <2> QED BY <2>2, <2>9, <2>10, RequestEnds DEF SnsInv
  <1> QED BY <1>1, <1>2, <1>3

LEMMA SnsStep == SnsInv /\ [SnsNext]_snsVars => SnsInv'
  <1> SUFFICES ASSUME SnsInv, [SnsNext]_snsVars PROVE SnsInv'
    OBVIOUS
  <1>1. CASE UNCHANGED snsVars
    <2>1. UNCHANGED <<remote, posts, notes, jobs>>
      BY <1>1 DEF snsVars
    <2>2. PlatformInOrder' /\ Published' = Published
      BY <2>1, PlatformRests DEF SnsInv
    <2>3. Onward
      BY <2>1, <2>2, RowsRest
    <2>4. Listing(posts)' /\ NotesInOrder'
      BY <2>1, <2>2 DEF SnsInv, Listing, NotesInOrder, Refers
    <2> QED BY <2>1, <2>2, <2>3, <2>4, AllFit DEF SnsInv
  <1>2. ASSUME NEW r \in Collectors, PlatformFails(r) PROVE SnsInv'
    BY <1>2, RequestFails DEF PlatformFails
  <1> QED BY <1>1, <1>2, PlatformStep, ByHandStep, BeginStep, SelectStep, CommitCollectStep, CommitMetricsStep,
             CommitCommentsStep, EndStep DEF SnsNext

LEMMA SnsHolds == SnsSpec => []SnsInv
  BY SnsStart, SnsStep, PTL DEF SnsSpec

(***************************************************************************)
(* For any number of requests and posts, however late a platform or a      *)
(* language model answers: a comment hangs on a row that is there, of the  *)
(* item it was written on (sns_collection.py, sns/comments.py).            *)
(***************************************************************************)
THEOREM CommentsStayOnTheirPost == SnsSpec => []CommentsOnTheirPost
  BY SnsHolds, SnsInvSuffices, PTL

\* A list without two live rows of one item has one at most.
LEMMA OneOfAnItem ==
  ASSUME NEW rows, NEW m, ~Twice(rows), m # 0
  PROVE  Cardinality({i \in {k \in DOMAIN rows : rows[k].ext = m} : rows[i].live}) <= 1
  <1> DEFINE S == {i \in {k \in DOMAIN rows : rows[k].ext = m} : rows[i].live}
  <1>1. \A i, k \in S : i = k
    BY DEF Twice
  <1>2. CASE S = {}
    BY <1>2, FS_EmptySet
  <1>3. CASE S # {}
    <2>1. PICK i : S = {i}
      BY <1>1, <1>3
    <2>2. Cardinality({i}) = 1
      BY FS_Singleton
    <2>3. Cardinality(S) = 1
      BY <2>1, <2>2
    <2> QED BY <2>3
  <1> QED BY <1>2, <1>3

CollectedIn(rows, j) ==
  \A g \in j.got :
    LET mine == {i \in DOMAIN rows : rows[i].ext = g[1]}
    IN /\ Cardinality({i \in mine : rows[i].live}) <= 1
       /\ \E i \in mine : rows[i].live \/ i \in DOMAIN j.read

LEMMA CollectionSaved ==
  ASSUME SnsInv, NEW r \in Collectors, CommitCollect(r) \/ CommitMetrics(r), ~Fails(r)
  PROVE  CollectedIn(posts', jobs[r])
  <1>1. PICK j : j = jobs[r] /\ JobFits(j)
    BY DEF SnsInv, JobsInOrder
  <1>2. PICK rows : rows = Result(j)
    OBVIOUS
  <1>3. /\ Collects(j) /\ j.post = 1 /\ ~Stale(j) /\ ~Twice(rows)
        /\ posts' = rows \/ \E good : posts' = WithMetrics(rows, good)
    <2>1. CASE CommitCollect(r)
      BY <1>1, <1>2, <2>1 DEF CommitCollect, Collects
    <2>2. CASE CommitMetrics(r)
      BY <1>1, <1>2, <2>2, CommitMetricsMeans DEF Collects
    <2> QED BY <2>1, <2>2
  <1>4. /\ Listing(rows)
        /\ \A g \in j.got : \E i \in DOMAIN rows : rows[i].ext = g[1] /\ (rows[i].live \/ i \in DOMAIN j.read)
    BY <1>1, <1>2, <1>3, ResultRows
  <1>5. PICK out : /\ posts' = out /\ DOMAIN out = DOMAIN rows
                   /\ \A i \in DOMAIN rows : out[i].live = rows[i].live /\ out[i].ext = rows[i].ext
    <2>1. CASE posts' = rows
      BY <2>1
    <2>2. CASE \E good : posts' = WithMetrics(rows, good)
      <3>1. PICK good : posts' = WithMetrics(rows, good)
        BY <2>2
      <3>2. PICK o : o = WithMetrics(rows, good)
        OBVIOUS
      <3> QED BY <1>4, <3>1, <3>2, RowsWithMetrics
    <2> QED BY <1>3, <2>1, <2>2
  <1>6. ~Twice(out)
    BY <1>3, <1>5 DEF Twice
  <1>7. \A g \in j.got : g[1] # 0
    BY <1>1, <1>3, SnsAssumption DEF JobFits, SnsInv, PlatformInOrder
  <1>8. CollectedIn(out, j)
    BY <1>4, <1>5, <1>6, <1>7, OneOfAnItem DEF CollectedIn
  <1> QED BY <1>1, <1>5, <1>8

LEMMA WhoCollected ==
  ASSUME SnsInv, SnsNext, NEW r \in Collectors, jobs[r].op \in {"collect", "metrics"}, jobs'[r].op = "none", reply' = "ok"
  PROVE  (CommitCollect(r) \/ CommitMetrics(r)) /\ ~Fails(r)
  <1>1. \A q \in Collectors : ~Fails(q)
    BY DEF Fails, Answers
  <1>2. PICK q \in Collectors : /\ Answers(q, "ok")
                                /\ \/ CommitCollect(q) \/ CommitMetrics(q)
                                   \/ jobs[q].op \in {"comments", "analyze", "translate"}
    <2>1. PICK q \in Collectors : CommitCollect(q) \/ CommitMetrics(q) \/ CommitComments(q) \/ EndAnalyze(q) \/ EndTranslate(q)
      BY <1>1 DEF SnsNext, PlatformFails
    <2>2. CASE CommitCollect(q)
      BY <1>1, <2>2 DEF CommitCollect
    <2>3. CASE CommitMetrics(q)
      BY <1>1, <2>3, CommitMetricsMeans
    <2>4. CASE CommitComments(q)
      BY <1>1, <2>4, CommitCommentsMeans
    <2>5. CASE EndAnalyze(q) \/ EndTranslate(q)
      BY <1>1, <2>5 DEF EndAnalyze, EndTranslate
    <2> QED BY <2>1, <2>2, <2>3, <2>4, <2>5
  <1>3. q = r
    BY <1>2 DEF Answers, SnsInv, JobsInOrder
  <1> QED BY <1>1, <1>2, <1>3

(***************************************************************************)
(* For any number of requests, items and posts: a collection answered with *)
(* success leaves one row of every item it fetched, whatever others saved  *)
(* or reset since it looked (upsert_post, sync_account_posts).             *)
(***************************************************************************)
THEOREM CollectionsSaveOnce == SnsSpec => CollectedOnce
  <1>1. SnsInv /\ [SnsNext]_snsVars =>
          [\A r \in Collectors :
             (jobs[r].op \in {"collect", "metrics"} /\ jobs'[r].op = "none" /\ reply' = "ok") =>
                \A g \in jobs[r].got :
                  LET rows == {i \in DOMAIN posts' : posts'[i].ext = g[1]}
                  IN /\ Cardinality({i \in rows : posts'[i].live}) <= 1
                     /\ \E i \in rows : posts'[i].live \/ i \in DOMAIN jobs[r].read]_snsVars
    <2> SUFFICES ASSUME SnsInv, SnsNext, NEW r \in Collectors,
                        jobs[r].op \in {"collect", "metrics"}, jobs'[r].op = "none", reply' = "ok"
                 PROVE  CollectedIn(posts', jobs[r])
      BY DEF CollectedIn
    <2> QED BY WhoCollected, CollectionSaved
  <1> QED BY <1>1, SnsHolds, PTL DEF SnsSpec, CollectedOnce

-----------------------------------------------------------------------------
(* Lists *)

IsList(s) == Len(s) \in Nat /\ s = [i \in 1 .. Len(s) |-> s[i]]

LEMMA ListIs ==
  ASSUME NEW n \in Nat, NEW f, f = [i \in 1 .. n |-> f[i]]
  PROVE  Len(f) = n /\ IsList(f) /\ DOMAIN f = 1 .. n /\ f \in Seq({f[i] : i \in 1 .. n})
  <1> DEFINE S == {f[i] : i \in 1 .. n}
  <1>1. f \in [1 .. n -> S]
    OBVIOUS
  <1>2. Len(f) = n /\ f \in Seq(S)
    BY <1>1, IsASeq
  <1> QED BY <1>2 DEF IsList

LEMMA ListAppended ==
  ASSUME NEW s, IsList(s), NEW e
  PROVE  LET t == Append(s, e)
         IN IsList(t) /\ Len(t) = Len(s) + 1 /\ t[Len(s) + 1] = e /\ (\A i \in 1 .. Len(s) : t[i] = s[i]) /\ DOMAIN t = 1 .. Len(s) + 1
  <1>1. PICK n \in Nat : n = Len(s) /\ s = [i \in 1 .. n |-> s[i]]
    BY DEF IsList
  <1>2. s \in Seq({s[i] : i \in 1 .. n})
    BY <1>1, ListIs
  <1>3. Append(s, e) = [i \in 1 .. n + 1 |-> IF i = n + 1 THEN e ELSE s[i]]
    BY <1>1, <1>2
  <1>4. PICK t : t = Append(s, e)
    OBVIOUS
  <1>5. n + 1 \in Nat /\ t = [i \in 1 .. n + 1 |-> t[i]] /\ t[n + 1] = e /\ \A i \in 1 .. n : t[i] = s[i]
    BY <1>3, <1>4
  <1>6. IsList(t) /\ Len(t) = n + 1 /\ DOMAIN t = 1 .. n + 1
    BY <1>5, ListIs
  <1> QED BY <1>1, <1>4, <1>5, <1>6

LEMMA ListsJoined ==
  ASSUME NEW s, NEW t, IsList(s), IsList(t)
  PROVE  IsList(s \o t) /\ s \o <<>> = s
  <1>1. PICK n \in Nat, m \in Nat : n = Len(s) /\ m = Len(t) /\ s = [i \in 1 .. n |-> s[i]] /\ t = [i \in 1 .. m |-> t[i]]
    BY DEF IsList
  <1>2. s \in Seq({s[i] : i \in 1 .. n}) /\ t \in Seq({t[i] : i \in 1 .. m})
    BY <1>1, ListIs
  <1>3. s \o t = [i \in 1 .. n + m |-> IF i <= n THEN s[i] ELSE t[i - n]]
    BY <1>1, <1>2
  <1>4. s \o <<>> = s
    BY <1>2, ConcatEmptySeq
  <1>5. PICK u : u = s \o t
    OBVIOUS
  <1>6. n + m \in Nat /\ u = [i \in 1 .. n + m |-> u[i]]
    BY <1>3, <1>5
  <1>7. IsList(u)
    BY <1>6, ListIs
  <1> QED BY <1>4, <1>5, <1>7

LEMMA EmptyList == IsList(<<>>) /\ DOMAIN <<>> = {}
  <1>1. PICK e : e = <<>>
    OBVIOUS
  <1>2. Len(e) = 0 /\ e = [i \in 1 .. 0 |-> e[i]] /\ DOMAIN e = {}
    BY <1>1
  <1> QED BY <1>1, <1>2 DEF IsList

-----------------------------------------------------------------------------
(* Generation *)

LEMMA LeastNumber ==
  ASSUME NEW S, S \subseteq Nat, S # {}
  PROVE  \E k \in S : \A n \in S : k <= n
  <1> DEFINE R == OpToRel(<, Nat)
  <1>1. IsWellFoundedOn(R, Nat)
    BY Zenon, NatLessThanWellFounded
  <1>2. \A x, y \in Nat : x < y => <<x, y>> \in R
    BY DEF OpToRel
  <1> HIDE DEF R
  <1>3. PICK k \in S : \A n \in S : ~ (<<n, k>> \in R)
    BY <1>1, WFMin
  <1>4. \A n \in S : ~ (n < k)
    BY <1>2, <1>3
  <1>5. \A n \in S : n \in Nat /\ k \in Nat
    OBVIOUS
  <1> QED BY <1>4, <1>5

LEMMA FirstIsIn ==
  ASSUME NEW S, S \subseteq Persona, S # {}
  PROVE  First(S) \in S
  <1>1. S \subseteq Nat
    BY GenerationAssumption DEF Persona
  <1>2. \E k \in S : \A n \in S : k <= n
    BY <1>1, LeastNumber
  <1> QED BY <1>2 DEF First

\* times holds every call of the last W units at a place of its own.
Remembers(times, W, calls, t) ==
  \E f \in [DOMAIN calls -> Nat] :
    /\ \A i \in DOMAIN calls : calls[i] >= t - W => f[i] \in 1 .. Len(times) /\ times[f[i]] = calls[i]
    /\ \A i, k \in DOMAIN calls : calls[i] >= t - W /\ calls[k] >= t - W /\ f[i] = f[k] => i = k

Calls(calls, t) == IsList(calls) /\ \A i \in DOMAIN calls : calls[i] \in 0 .. t

LEMMA PrunedList ==
  ASSUME now \in Nat, NEW W \in Nat, NEW times, IsList(times)
  PROVE  \E c \in Nat : /\ c <= Len(times) /\ IsList(Pruned(times, W)) /\ Len(Pruned(times, W)) = Len(times) - c
                        /\ \A i \in 1 .. Len(times) - c : Pruned(times, W)[i] = times[i + c]
                        /\ \A i \in 1 .. Len(times) : ~(times[i] < now - W) => i > c
  <1>1. PICK n \in Nat : n = Len(times) /\ times = [i \in 1 .. n |-> times[i]]
    BY DEF IsList
  <1>2. times \in Seq({times[i] : i \in 1 .. n}) /\ DOMAIN times = 1 .. n
    BY <1>1, ListIs
  <1>3. PICK S : S = Outdated(times, W) /\ S \subseteq 1 .. n
    BY <1>2 DEF Outdated
  <1>4. IsFiniteSet(1 .. n) /\ Cardinality(1 .. n) = n
    BY FS_Interval
  <1>5. PICK c \in Nat : c = Cardinality(S) /\ c <= n
    BY <1>3, <1>4, FS_Subset, FS_CardinalityType
  <1>6. ASSUME NEW i \in 1 .. n, ~(times[i] < now - W) PROVE i > c
    <2>1. S \subseteq 1 .. i - 1
      BY <1>2, <1>3, <1>6 DEF Outdated
    <2>2. IsFiniteSet(1 .. i - 1) /\ Cardinality(1 .. i - 1) = i - 1
      BY FS_Interval
    <2>3. c <= i - 1
      BY <1>5, <2>1, <2>2, FS_Subset, ZenonT(40)
    <2> QED BY <2>3
  <1>7. PICK q : q = SubSeq(times, c + 1, n) /\ q = Pruned(times, W)
    BY <1>1, <1>3, <1>5 DEF Pruned
  <1>8. q = [i \in 1 .. n - c |-> times[i + c]]
    BY <1>1, <1>2, <1>5, <1>7
  <1>9. IsList(q) /\ Len(q) = n - c
    <2>1. n - c \in Nat /\ q = [i \in 1 .. n - c |-> q[i]]
      BY <1>5, <1>8
    <2> QED BY <2>1, ListIs
  <1> QED BY <1>1, <1>5, <1>6, <1>7, <1>8, <1>9

LEMMA PrunedRemembers ==
  ASSUME now \in Nat, NEW W \in Nat, NEW times, IsList(times), NEW calls, Calls(calls, now), Remembers(times, W, calls, now)
  PROVE  Remembers(Pruned(times, W), W, calls, now)
  <1>1. PICK p : p = Pruned(times, W)
    OBVIOUS
  <1>2. PICK c \in Nat : /\ c <= Len(times) /\ IsList(p) /\ Len(p) = Len(times) - c
                         /\ \A i \in 1 .. Len(times) - c : p[i] = times[i + c]
                         /\ \A i \in 1 .. Len(times) : ~(times[i] < now - W) => i > c
    BY <1>1, PrunedList
  <1>3. PICK f \in [DOMAIN calls -> Nat] :
          /\ \A i \in DOMAIN calls : calls[i] >= now - W => f[i] \in 1 .. Len(times) /\ times[f[i]] = calls[i]
          /\ \A i, k \in DOMAIN calls : calls[i] >= now - W /\ calls[k] >= now - W /\ f[i] = f[k] => i = k
    BY DEF Remembers
  <1>4. PICK g : g = [i \in DOMAIN calls |-> IF f[i] > c THEN f[i] - c ELSE 0]
    OBVIOUS
  <1>5. g \in [DOMAIN calls -> Nat]
    BY <1>4
  <1>6. ASSUME NEW i \in DOMAIN calls, calls[i] >= now - W
        PROVE  g[i] \in 1 .. Len(p) /\ p[g[i]] = calls[i] /\ g[i] = f[i] - c
    <2>1. f[i] \in 1 .. Len(times) /\ times[f[i]] = calls[i] /\ calls[i] \in Nat
      BY <1>3, <1>6 DEF Calls
    <2>2. f[i] > c
      BY <1>2, <1>6, <2>1
    <2>3. f[i] - c \in 1 .. Len(times) - c
      BY <2>1, <2>2 DEF IsList
    <2> QED BY <1>2, <1>4, <2>1, <2>2, <2>3
  <1>7. ASSUME NEW i \in DOMAIN calls, NEW k \in DOMAIN calls, calls[i] >= now - W, calls[k] >= now - W, g[i] = g[k] PROVE i = k
    <2>1. g[i] = f[i] - c /\ g[k] = f[k] - c
      BY <1>6, <1>7
    <2>2. f[i] \in Nat /\ f[k] \in Nat
      OBVIOUS
    <2>3. f[i] - c = f[k] - c
      BY <1>7, <2>1
    <2>4. f[i] = f[k]
      BY <2>2, <2>3
    <2> QED BY <1>3, <1>7, <2>4
  <1> QED BY <1>1, <1>5, <1>6, <1>7 DEF Remembers

LEMMA SlotRemembers ==
  ASSUME NEW t \in Nat, NEW W \in Nat, NEW times, IsList(times), NEW calls, Calls(calls, t), Remembers(times, W, calls, t)
  PROVE  /\ Remembers(Append(times, t), W, calls, t)
         /\ Remembers(Append(times, t), W, Append(calls, t), t) /\ Calls(Append(calls, t), t)
  <1>1. PICK n \in Nat, m \in Nat : n = Len(times) /\ m = Len(calls) /\ DOMAIN calls = 1 .. m
    BY DEF IsList, Calls
  <1>2. PICK u, d : u = Append(times, t) /\ d = Append(calls, t)
    OBVIOUS
  <1>3. Len(u) = n + 1 /\ u[n + 1] = t /\ \A i \in 1 .. n : u[i] = times[i]
    BY <1>1, <1>2, ListAppended
  <1>4. IsList(d) /\ DOMAIN d = 1 .. m + 1 /\ d[m + 1] = t /\ \A i \in 1 .. m : d[i] = calls[i]
    BY <1>1, <1>2, ListAppended DEF Calls
  <1>5. PICK f \in [DOMAIN calls -> Nat] :
          /\ \A i \in DOMAIN calls : calls[i] >= t - W => f[i] \in 1 .. n /\ times[f[i]] = calls[i]
          /\ \A i, k \in DOMAIN calls : calls[i] >= t - W /\ calls[k] >= t - W /\ f[i] = f[k] => i = k
    BY <1>1 DEF Remembers
  <1>6. Remembers(u, W, calls, t)
    <2>1. \A i \in DOMAIN calls : calls[i] >= t - W => f[i] \in 1 .. Len(u) /\ u[f[i]] = calls[i]
      BY <1>3, <1>5
    <2> QED BY <1>5, <2>1 DEF Remembers
  <1>7. Calls(d, t)
    <2>1. \A i \in 1 .. m : calls[i] \in 0 .. t
      BY <1>1 DEF Calls
    <2> QED BY <1>4, <2>1 DEF Calls
  <1>8. Remembers(u, W, d, t)
    <2>1. PICK g : g = [i \in 1 .. m + 1 |-> IF i = m + 1 THEN n + 1 ELSE f[i]]
      OBVIOUS
    <2>2. g \in [DOMAIN d -> Nat]
      BY <1>1, <1>4, <2>1
    <2>3. ASSUME NEW i \in DOMAIN d, d[i] >= t - W PROVE g[i] \in 1 .. Len(u) /\ u[g[i]] = d[i]
      BY <1>1, <1>3, <1>4, <1>5, <2>1, <2>3
    <2>4. ASSUME NEW i \in DOMAIN d, NEW k \in DOMAIN d, d[i] >= t - W, d[k] >= t - W, g[i] = g[k] PROVE i = k
      <3>1. ASSUME NEW h \in 1 .. m, d[h] >= t - W PROVE g[h] = f[h] /\ f[h] \in 1 .. n
        <4>1. h \in DOMAIN calls /\ d[h] = calls[h] /\ h \in 1 .. m + 1 /\ h # m + 1
          BY <1>1, <1>4
        <4> QED BY <1>5, <2>1, <3>1, <4>1
      <3>2. g[m + 1] = n + 1
        BY <2>1
      <3>3. CASE i \in 1 .. m /\ k \in 1 .. m
        BY <1>1, <1>4, <1>5, <2>4, <3>1, <3>3
      <3>4. CASE i = m + 1 \/ k = m + 1
        BY <1>4, <2>4, <3>1, <3>2, <3>4
      <3> QED BY <1>4, <3>3, <3>4
    <2> QED BY <2>2, <2>3, <2>4 DEF Remembers
  <1> QED BY <1>2, <1>6, <1>7, <1>8

Recent(calls, W, u) == {i \in DOMAIN calls : calls[i] \in u - W .. u}

\* times holds what the window needs, and no window of the calls so far has more than max.
Keeps(times, W, max, calls, t) == /\ IsList(times)
                                  /\ Remembers(times, W, calls, t)
                                  /\ \A u \in 0 .. t : Cardinality(Recent(calls, W, u)) <= max

LimitsKept == /\ now \in Nat
              /\ Calls(admitted, now)
              /\ buckets = [k \in {"minute", "day"} |-> buckets[k]]
              /\ Keeps(buckets["minute"], MinuteWindow, MinuteMax, admitted, now)
              /\ Keeps(buckets["day"], DayWindow, DayMax, admitted, now)

LEMMA RecentAreFinite ==
  ASSUME NEW t \in Nat, NEW W \in Nat, NEW calls, Calls(calls, t), NEW u
  PROVE  IsFiniteSet(Recent(calls, W, u)) /\ Recent(calls, W, u) \subseteq DOMAIN calls
  <1>1. PICK m \in Nat : m = Len(calls) /\ DOMAIN calls = 1 .. m
    BY DEF IsList, Calls
  <1>2. IsFiniteSet(1 .. m)
    BY FS_Interval
  <1>3. Recent(calls, W, u) \subseteq DOMAIN calls
    BY DEF Recent
  <1> QED BY <1>1, <1>2, <1>3, FS_Subset

\* The calls a list remembers are no more than it is long.
LEMMA RememberedFit ==
  ASSUME NEW t \in Nat, NEW W \in Nat, NEW times, IsList(times), NEW calls, Calls(calls, t), Remembers(times, W, calls, t)
  PROVE  Cardinality(Recent(calls, W, t)) <= Len(times)
  <1>1. PICK n \in Nat : n = Len(times)
    BY DEF IsList
  <1>2. PICK f \in [DOMAIN calls -> Nat] :
          /\ \A i \in DOMAIN calls : calls[i] >= t - W => f[i] \in 1 .. n /\ times[f[i]] = calls[i]
          /\ \A i, k \in DOMAIN calls : calls[i] >= t - W /\ calls[k] >= t - W /\ f[i] = f[k] => i = k
    BY <1>1 DEF Remembers
  <1>3. PICK S : S = Recent(calls, W, t)
    OBVIOUS
  <1>4. IsFiniteSet(S) /\ S \subseteq DOMAIN calls
    BY <1>3, RecentAreFinite
  <1>5. \A i \in S : calls[i] >= t - W
    BY <1>3 DEF Recent, Calls
  <1>6. PICK g : g = [i \in S |-> f[i]]
    OBVIOUS
  <1>7. g \in Injection(S, 1 .. n)
    <2>1. g \in [S -> 1 .. n]
      BY <1>2, <1>4, <1>5, <1>6
    <2>2. \A i, k \in S : g[i] = g[k] => i = k
      BY <1>2, <1>4, <1>5, <1>6
    <2> QED BY <2>1, <2>2 DEF Injection, IsInjective
  <1>8. IsFiniteSet(1 .. n) /\ Cardinality(1 .. n) = n
    BY FS_Interval
  <1>9. Cardinality(S) <= Cardinality(1 .. n)
    BY <1>7, <1>8, FS_Injection
  <1> QED BY <1>1, <1>3, <1>8, <1>9

LEMMA SlotKeeps ==
  ASSUME now \in Nat, NEW W \in Nat, NEW max \in Nat, Calls(admitted, now), NEW times, Keeps(times, W, max, admitted, now)
  PROVE  /\ Keeps(Taken(times, max, W), W, max, admitted, now)
         /\ Admits(times, max, W) => Keeps(Taken(times, max, W), W, max, Append(admitted, now), now)
  <1>1. PICK p : p = Pruned(times, W)
    OBVIOUS
  <1>2. IsList(p) /\ Remembers(p, W, admitted, now)
    BY <1>1, PrunedList, PrunedRemembers DEF Keeps
  <1>3. IsList(Append(p, now)) /\ Remembers(Append(p, now), W, admitted, now)
    BY <1>2, ListAppended, SlotRemembers
  <1>4. Keeps(Taken(times, max, W), W, max, admitted, now)
    BY <1>1, <1>2, <1>3 DEF Keeps, Taken
  <1>5. ASSUME Admits(times, max, W) PROVE Keeps(Taken(times, max, W), W, max, Append(admitted, now), now)
    <2>1. PICK d : d = Append(admitted, now)
      OBVIOUS
    <2>2. Remembers(Append(p, now), W, d, now) /\ Calls(d, now)
      BY <1>2, <2>1, SlotRemembers
    <2>3. PICK m \in Nat : /\ DOMAIN admitted = 1 .. m /\ DOMAIN d = 1 .. m + 1 /\ d[m + 1] = now
                           /\ \A i \in 1 .. m : d[i] = admitted[i]
      <3>1. IsList(admitted) /\ Len(admitted) \in Nat /\ DOMAIN admitted = 1 .. Len(admitted)
        BY DEF Calls, IsList
      <3>2. PICK m \in Nat : m = Len(admitted)
        BY <3>1
      <3>3. DOMAIN d = 1 .. m + 1 /\ d[m + 1] = now /\ \A i \in 1 .. m : d[i] = admitted[i]
        BY <2>1, <3>1, <3>2, ListAppended
      <3> QED BY <3>1, <3>2, <3>3
    <2>4. ASSUME NEW u \in 0 .. now, u # now PROVE Cardinality(Recent(d, W, u)) <= max
      <3>1. Recent(d, W, u) = Recent(admitted, W, u)
        BY <2>3, <2>4 DEF Recent
      <3> QED BY <3>1 DEF Keeps
    <2>5. Cardinality(Recent(d, W, now)) <= max
      <3>1. PICK S : S = Recent(admitted, W, now)
        OBVIOUS
      <3>2. IsFiniteSet(S) /\ S \subseteq DOMAIN admitted /\ Cardinality(S) \in Nat
        BY <3>1, RecentAreFinite, FS_CardinalityType
      <3>3. Cardinality(S) <= Len(p) /\ Len(p) \in Nat /\ Len(p) < max
        BY <1>1, <1>2, <1>5, <3>1, RememberedFit DEF Admits, IsList
      <3>4. Recent(d, W, now) = S \cup {m + 1}
        <4>1. now - W \in Int /\ now \in now - W .. now
          OBVIOUS
        <4> QED BY <2>3, <3>1, <4>1 DEF Recent
      <3>5. m + 1 \notin S
        BY <2>3, <3>2
      <3>6. Cardinality(S \cup {m + 1}) = Cardinality(S) + 1
        BY <3>2, <3>5, FS_AddElement
      <3> QED BY <3>2, <3>3, <3>4, <3>6
    <2>6. \A u \in 0 .. now : Cardinality(Recent(d, W, u)) <= max
      BY <2>4, <2>5
    <2> QED BY <1>1, <1>3, <1>5, <2>1, <2>2, <2>6 DEF Keeps, Taken
  <1> QED BY <1>4, <1>5

LEMMA TimeKeeps ==
  ASSUME NEW t \in Nat, NEW W \in Nat, NEW max \in Nat, NEW calls, Calls(calls, t), NEW times, Keeps(times, W, max, calls, t)
  PROVE  Keeps(times, W, max, calls, t + 1) /\ Calls(calls, t + 1)
  <1>1. Calls(calls, t + 1)
    BY DEF Calls
  <1>2. \A i \in DOMAIN calls : calls[i] \in Nat /\ calls[i] <= t /\ (calls[i] >= t + 1 - W => calls[i] >= t - W)
    BY DEF Calls
  <1>3. Remembers(times, W, calls, t + 1)
    <2>1. PICK f \in [DOMAIN calls -> Nat] :
            /\ \A i \in DOMAIN calls : calls[i] >= t - W => f[i] \in 1 .. Len(times) /\ times[f[i]] = calls[i]
            /\ \A i, k \in DOMAIN calls : calls[i] >= t - W /\ calls[k] >= t - W /\ f[i] = f[k] => i = k
      BY DEF Keeps, Remembers
    <2> QED BY <1>2, <2>1 DEF Remembers
  <1>4. Cardinality(Recent(calls, W, t + 1)) <= max
    <2>1. Recent(calls, W, t + 1) \subseteq Recent(calls, W, t)
      BY <1>2 DEF Recent
    <2>2. IsFiniteSet(Recent(calls, W, t)) /\ Cardinality(Recent(calls, W, t)) <= max /\ Cardinality(Recent(calls, W, t)) \in Nat
      BY RecentAreFinite, FS_CardinalityType DEF Keeps
    <2>3. Cardinality(Recent(calls, W, t + 1)) \in Nat /\ Cardinality(Recent(calls, W, t + 1)) <= Cardinality(Recent(calls, W, t))
      BY <2>1, <2>2, FS_Subset, FS_CardinalityType
    <2> QED BY <2>2, <2>3
  <1>5. \A u \in 0 .. t + 1 : Cardinality(Recent(calls, W, u)) <= max
    BY <1>4 DEF Keeps
  <1> QED BY <1>1, <1>3, <1>5 DEF Keeps

LEMMA LimitsKeptByStep == LimitsKept /\ [GenerationNext]_genVars => LimitsKept'
  <1> SUFFICES ASSUME LimitsKept, [GenerationNext]_genVars PROVE LimitsKept'
    OBVIOUS
  <1> USE GenerationAssumption
  <1>1. MinuteWindow \in Nat /\ DayWindow \in Nat /\ MinuteMax \in Nat /\ DayMax \in Nat
    OBVIOUS
  <1>2. CASE EnforceGenerationLimit /\ WithinLimit /\ admitted' = Append(admitted, now) /\ now' = now
    <2>1. buckets' = [k \in {"minute", "day"} |-> IF k = "minute" THEN Taken(buckets["minute"], MinuteMax, MinuteWindow)
                                                  ELSE Taken(buckets["day"], DayMax, DayWindow)]
      BY <1>2 DEF LimitsKept, EnforceGenerationLimit, WithinLimit
    <2>2. /\ Keeps(Taken(buckets["minute"], MinuteMax, MinuteWindow), MinuteWindow, MinuteMax, Append(admitted, now), now)
          /\ Keeps(Taken(buckets["day"], DayMax, DayWindow), DayWindow, DayMax, Append(admitted, now), now)
      BY <1>1, <1>2, SlotKeeps DEF LimitsKept, WithinLimit
    <2>3. Calls(Append(admitted, now), now)
      BY <1>1, SlotRemembers DEF LimitsKept, Keeps
    <2> QED BY <1>2, <2>1, <2>2, <2>3 DEF LimitsKept
  <1>3. CASE EnforceGenerationLimit /\ UNCHANGED <<admitted, now>>
    <2>1. PICK m, d : /\ buckets' = [k \in {"minute", "day"} |-> IF k = "minute" THEN m ELSE d]
                      /\ m = Taken(buckets["minute"], MinuteMax, MinuteWindow)
                      /\ d \in {buckets["day"], Taken(buckets["day"], DayMax, DayWindow)}
      BY <1>3 DEF LimitsKept, EnforceGenerationLimit
    <2>2. Keeps(m, MinuteWindow, MinuteMax, admitted, now) /\ Keeps(d, DayWindow, DayMax, admitted, now)
      BY <1>1, <2>1, SlotKeeps DEF LimitsKept
    <2> QED BY <1>3, <2>1, <2>2 DEF LimitsKept
  <1>4. CASE UNCHANGED <<buckets, admitted>> /\ now' = now + 1
    BY <1>1, <1>4, TimeKeeps DEF LimitsKept
  <1>5. CASE UNCHANGED <<buckets, admitted, now>>
    BY <1>5 DEF LimitsKept
  <1>6. ASSUME NEW r \in Makers, NEW q, Start(r, q) PROVE LimitsKept'
    BY <1>2, <1>6 DEF Start
  <1>7. ASSUME NEW r \in Makers, BeginWeekly(r) PROVE LimitsKept'
    BY <1>6, <1>7 DEF BeginWeekly
  <1>8. ASSUME NEW r \in Makers, NEW ids, BeginCustom(r, ids) PROVE LimitsKept'
    BY <1>6, <1>8 DEF BeginCustom
  <1>9. ASSUME NEW r \in Makers, Pair(r) \/ BadAnswer(r) \/ CallFails(r) \/ GoodAnswer(r) \/ Commit(r) PROVE LimitsKept'
    BY <1>5, <1>9 DEF Pair, BadAnswer, CallFails, GoodAnswer, Commit
  <1>10. ASSUME NEW p \in Persona, UpdatePersona(p) \/ CredentialsChange(p) \/ PersonaGoes(p) PROVE LimitsKept'
    <2>1. Change
      <3>1. CASE UpdatePersona(p)
        BY <3>1 DEF UpdatePersona
      <3>2. CASE CredentialsChange(p)
        BY <3>2 DEF CredentialsChange
      <3>3. CASE PersonaGoes(p)
        BY <3>3 DEF PersonaGoes
      <3> QED BY <1>10, <3>1, <3>2, <3>3
    <2> QED BY <1>5, <2>1 DEF Change
  <1>11. CASE Refused
    BY <1>3, <1>11 DEF Refused
  <1>12. CASE Pass
    BY <1>4, <1>12 DEF Pass
  <1>13. CASE UNCHANGED genVars
    BY <1>5, <1>13 DEF genVars
  <1> QED BY <1>7, <1>8, <1>9, <1>10, <1>11, <1>12, <1>13 DEF GenerationNext

LEMMA LimitsKeptAtStart == GenerationInit => LimitsKept
  <1> SUFFICES ASSUME GenerationInit PROVE LimitsKept
    OBVIOUS
  <1>1. MinuteMax \in Nat /\ DayMax \in Nat
    BY GenerationAssumption
  <1>2. PICK e : e = <<>>
    OBVIOUS
  <1>3. Len(e) = 0 /\ e = [i \in 1 .. 0 |-> e[i]] /\ DOMAIN e = {}
    BY <1>2
  <1>4. IsList(e)
    BY <1>3 DEF IsList
  <1>5. \A W, u : Recent(e, W, u) = {} /\ Remembers(e, W, e, 0)
    BY <1>3 DEF Recent, Remembers
  <1>6. Cardinality({}) = 0
    BY FS_EmptySet
  <1>7. Calls(e, 0) /\ \A W : Keeps(e, W, MinuteMax, e, 0) /\ Keeps(e, W, DayMax, e, 0)
    <2>1. Calls(e, 0)
      BY <1>3, <1>4 DEF Calls
    <2>2. ASSUME NEW W PROVE Keeps(e, W, MinuteMax, e, 0) /\ Keeps(e, W, DayMax, e, 0)
      <3>1. \A u \in 0 .. 0 : Cardinality(Recent(e, W, u)) = 0
        BY <1>5, <1>6
      <3> QED BY <1>1, <1>4, <1>5, <3>1 DEF Keeps
    <2> QED BY <2>1, <2>2
  <1>8. buckets = [k \in {"minute", "day"} |-> e] /\ admitted = e /\ now = 0
    BY <1>2 DEF GenerationInit
  <1>9. buckets = [k \in {"minute", "day"} |-> buckets[k]] /\ buckets["minute"] = e /\ buckets["day"] = e
    BY <1>8
  <1> QED BY <1>7, <1>8, <1>9 DEF LimitsKept

(***************************************************************************)
(* WindowHolds is an invariant: no window ever holds more generations than *)
(* its limit, whatever the limits, the windows and the order of the calls. *)
(***************************************************************************)
THEOREM WindowsHold == GenerationSpec => []WindowHolds
  <1>1. LimitsKept => WindowHolds
    <2> SUFFICES ASSUME LimitsKept PROVE WindowHolds
      OBVIOUS
    <2>1. \A u \in 0 .. now : Cardinality(Recent(admitted, MinuteWindow, u)) <= MinuteMax /\ Cardinality(Recent(admitted, DayWindow, u)) <= DayMax
      BY DEF LimitsKept, Keeps
    <2> QED BY <2>1 DEF WindowHolds, Recent
  <1> QED BY <1>1, LimitsKeptAtStart, LimitsKeptByStep, PTL DEF GenerationSpec

KnownPersonas == /\ people = [p \in Persona |-> people[p]]
                 /\ \A p \in Persona : people[p] = [there |-> people[p].there, active |-> people[p].active,
                                                    cred |-> people[p].cred, login |-> people[p].login]

IsSession(s, todo) == s.sender \in Persona \ todo /\ s.receiver \in Persona \ {s.sender} /\ s.cost \in 1 .. RetryMax
\* One session per sender, and none of a sender whose turn has still to come.
Batch(list, todo) == /\ IsList(list)
                     /\ \A i \in DOMAIN list : IsSession(list[i], todo)
                     /\ \A i, j \in DOMAIN list : i # j => list[i].sender # list[j].sender
BothThere(list) == \A i \in DOMAIN list : people[list[i].sender].there /\ people[list[i].receiver].there

IsMaker(q) == q = [op |-> q.op, todo |-> q.todo, with |-> q.with, seen |-> q.seen, tries |-> q.tries,
                   poisoned |-> q.poisoned, flushed |-> q.flushed]
\* Nobody is asked to write to himself: weekly, the receiver is no sender; else it is not the sender whose turn it is.
Addressed(q) == /\ q.with \in Persona \cup {0}
                /\ q.op = "weekly" => q.with \notin q.todo
                /\ q.op # "weekly" /\ q.with # 0 /\ q.todo # {} => q.with # First(q.todo)
MakerFits(q) == /\ IsMaker(q)
                /\ q.todo \subseteq Persona
                /\ q.tries \in 0 .. RetryMax - 1
                /\ Addressed(q)
                /\ Batch(q.flushed, q.todo)

GenerationInv == /\ KnownPersonas
                 /\ IsList(made)
                 /\ makers = [r \in Makers |-> makers[r]]
                 /\ \A r \in Makers : MakerFits(makers[r]) /\ BothThere(makers[r].flushed)

LEMMA NobodyIsPersona == 0 \notin Persona
  BY GenerationAssumption DEF Persona

LEMMA FreshMaker ==
  ASSUME NEW q, IsMaker(q), q.todo \subseteq Persona, q.tries = 0, Addressed(q), q.flushed = <<>>
  PROVE  MakerFits(q) /\ BothThere(q.flushed)
  <1>1. Batch(q.flushed, q.todo) /\ BothThere(q.flushed)
    BY EmptyList DEF Batch, BothThere
  <1>2. 0 \in 0 .. RetryMax - 1
    BY GenerationAssumption
  <1> QED BY <1>1, <1>2 DEF MakerFits

LEMMA NextFits ==
  ASSUME NEW q, MakerFits(q), q.todo # {}
  PROVE  MakerFits(NextPair(q)) /\ NextPair(q).flushed = q.flushed /\ IsMaker(NextPair(q)) /\ NextPair(q).todo = q.todo \ {First(q.todo)}
  <1>1. PICK n : n = NextPair(q)
    OBVIOUS
  <1>2. /\ IsMaker(n) /\ n.op = q.op /\ n.todo = q.todo \ {First(q.todo)} /\ n.tries = 0
        /\ n.with = (IF q.op = "weekly" THEN q.with ELSE 0) /\ n.flushed = q.flushed
    BY <1>1 DEF MakerFits, IsMaker, NextPair
  <1>3. Addressed(n)
    BY <1>2, NobodyIsPersona DEF MakerFits, Addressed
  <1>4. Batch(n.flushed, n.todo)
    BY <1>2 DEF MakerFits, Batch, IsSession
  <1>5. 0 \in 0 .. RetryMax - 1
    BY GenerationAssumption
  <1> QED BY <1>1, <1>2, <1>3, <1>4, <1>5 DEF MakerFits

LEMMA MakerSteps ==
  ASSUME GenerationInv, NEW r \in Makers, NEW q, MakerFits(q), BothThere(q.flushed),
         makers' = [makers EXCEPT ![r] = q], UNCHANGED <<people, made>>
  PROVE  GenerationInv'
  <1>1. makers' = [o \in Makers |-> makers'[o]] /\ \A o \in Makers : makers'[o] \in {q, makers[o]}
    BY DEF GenerationInv
  <1>2. ASSUME NEW o \in Makers PROVE MakerFits(makers'[o]) /\ BothThere(makers[o].flushed)'
    <2>1. MakerFits(makers'[o])
      BY <1>1 DEF GenerationInv
    <2>2. BothThere(makers'[o].flushed)
      BY <1>1 DEF GenerationInv
    <2> QED BY <2>1, <2>2 DEF BothThere
  <1> QED BY <1>1, <1>2 DEF GenerationInv, KnownPersonas, MakerFits

LEMMA PersonaSteps ==
  ASSUME GenerationInv, NEW p \in Persona, UpdatePersona(p) \/ CredentialsChange(p) \/ PersonaGoes(p)
  PROVE  GenerationInv'
  <1>1. UNCHANGED <<made, makers>>
    <2>1. Change
      <3>1. CASE UpdatePersona(p)
        BY <3>1 DEF UpdatePersona
      <3>2. CASE CredentialsChange(p)
        BY <3>2 DEF CredentialsChange
      <3>3. CASE PersonaGoes(p)
        BY <3>3 DEF PersonaGoes
      <3> QED BY <3>1, <3>2, <3>3
    <2> QED BY <2>1 DEF Change
  <1>2. /\ KnownPersonas'
        /\ \A o \in Persona : people'[o].there = people[o].there \/ (o = p /\ PersonaGoes(p))
    <2>1. CASE UpdatePersona(p)
      BY <2>1 DEF UpdatePersona, GenerationInv, KnownPersonas
    <2>2. CASE CredentialsChange(p)
      <3>1. people' = [people EXCEPT ![p].login = FALSE]
        BY <2>2 DEF CredentialsChange
      <3>a. PICK no : people' = [people EXCEPT ![p].login = no]
        BY <3>1
      <3>2. PICK x : x = people[p] /\ x = [there |-> x.there, active |-> x.active, cred |-> x.cred, login |-> x.login]
        BY DEF GenerationInv, KnownPersonas
      <3>3. people' = [o \in Persona |-> IF o = p THEN [there |-> x.there, active |-> x.active, cred |-> x.cred, login |-> no]
                                         ELSE people[o]]
        <4>1. people' = [o \in Persona |-> IF o = p THEN [people[p] EXCEPT !.login = no] ELSE people[o]]
          BY <3>a DEF GenerationInv, KnownPersonas
        <4>2. [x EXCEPT !.login = no] = [there |-> x.there, active |-> x.active, cred |-> x.cred, login |-> no]
          BY <3>2
        <4> QED BY <3>2, <4>1, <4>2
      <3>4. \A o \in Persona : people'[o] = [there |-> people'[o].there, active |-> people'[o].active,
                                             cred |-> people'[o].cred, login |-> people'[o].login]
        BY <3>3 DEF GenerationInv, KnownPersonas
      <3> QED BY <3>2, <3>3, <3>4 DEF KnownPersonas
    <2>3. CASE PersonaGoes(p)
      BY <2>3 DEF PersonaGoes, GenerationInv, KnownPersonas
    <2> QED BY <2>1, <2>2, <2>3
  <1>3. ASSUME NEW r \in Makers PROVE BothThere(makers[r].flushed)'
    <2>1. PICK f : f = makers[r].flushed
      OBVIOUS
    <2>2. \A i \in DOMAIN f : f[i].sender \in Persona /\ f[i].receiver \in Persona /\ people[f[i].sender].there /\ people[f[i].receiver].there
      BY <2>1 DEF GenerationInv, MakerFits, Batch, IsSession, BothThere
    <2>3. PersonaGoes(p) => \A i \in DOMAIN f : f[i].sender # p /\ f[i].receiver # p
      BY <2>1 DEF PersonaGoes, Uses
    <2>4. \A i \in DOMAIN f : people'[f[i].sender].there /\ people'[f[i].receiver].there
      BY <1>2, <2>2, <2>3
    <2> QED BY <1>1, <2>1, <2>4 DEF BothThere
  <1> QED BY <1>1, <1>2, <1>3 DEF GenerationInv

LEMMA MakersMade ==
  ASSUME NEW o, NEW S, NEW w, NEW seen
  PROVE  /\ IsMaker(Maker(o, S, w, seen)) /\ Maker(o, S, w, seen).op = o /\ Maker(o, S, w, seen).todo = S
         /\ Maker(o, S, w, seen).with = w /\ Maker(o, S, w, seen).tries = 0 /\ Maker(o, S, w, seen).flushed = <<>>
  BY DEF Maker, IsMaker

LEMMA GenerationStart == GenerationInit => GenerationInv
  <1> SUFFICES ASSUME GenerationInit PROVE GenerationInv
    OBVIOUS
  <1>1. KnownPersonas
    BY DEF GenerationInit, KnownPersonas
  <1>2. makers = [r \in Makers |-> makers[r]] /\ \A r \in Makers : makers[r] = NoMaker
    BY DEF GenerationInit
  <1>3. IsMaker(NoMaker) /\ NoMaker.todo = {} /\ NoMaker.tries = 0 /\ NoMaker.with = 0 /\ NoMaker.flushed = <<>>
    BY MakersMade DEF NoMaker
  <1>4. MakerFits(NoMaker) /\ BothThere(NoMaker.flushed)
    BY <1>3, FreshMaker DEF Addressed
  <1>5. IsList(made)
    BY EmptyList DEF GenerationInit
  <1> QED BY <1>1, <1>2, <1>4, <1>5 DEF GenerationInv

LEMMA StartSteps ==
  ASSUME GenerationInv, NEW r \in Makers, NEW q, Start(r, q),
         IsMaker(q), q.todo \subseteq Persona, q.tries = 0, Addressed(q), q.flushed = <<>>
  PROVE  GenerationInv'
  <1>1. MakerFits(q) /\ BothThere(q.flushed)
    BY FreshMaker
  <1> QED BY <1>1, MakerSteps DEF Start

LEMMA WeeklyBegins ==
  ASSUME GenerationInv, NEW r \in Makers, BeginWeekly(r)
  PROVE  GenerationInv'
  <1> DEFINE kr == ActiveByRole("domestic_admin")
             vn == ActiveByRole("vietnam_admin")
             none == Maker("weekly", {}, 0, <<>>)
             some == Maker("weekly", {p \in kr : people[First(vn)].cred /\ people[p].cred}, First(vn), <<>>)
  <1>1. Start(r, IF kr = {} \/ vn = {} THEN none ELSE some)
    BY DEF BeginWeekly
  <1>2. /\ IsMaker(none) /\ none.todo = {} /\ none.tries = 0 /\ none.with = 0 /\ none.flushed = <<>> /\ none.op = "weekly"
        /\ IsMaker(some) /\ some.todo \subseteq kr /\ some.tries = 0 /\ some.with = First(vn) /\ some.flushed = <<>> /\ some.op = "weekly"
    BY MakersMade
  <1>3. /\ kr \subseteq Persona /\ vn \subseteq Persona
        /\ \A p \in kr : RoleOf[p] = "domestic_admin"
        /\ \A p \in vn : RoleOf[p] = "vietnam_admin"
    BY DEF ActiveByRole
  <1> HIDE DEF kr, vn, none, some
  <1>4. CASE kr = {} \/ vn = {}
    <2>1. Start(r, none) /\ Addressed(none)
      BY <1>1, <1>2, <1>4 DEF Addressed
    <2> QED BY <1>2, <2>1, StartSteps
  <1>5. CASE ~(kr = {} \/ vn = {})
    <2>1. First(vn) \in vn
      BY <1>3, <1>5, FirstIsIn
    <2>2. First(vn) \notin kr
      BY <1>3, <2>1
    <2>3. Start(r, some) /\ Addressed(some)
      BY <1>1, <1>2, <1>3, <1>5, <2>1, <2>2 DEF Addressed
    <2>4. some.todo \subseteq Persona
      BY <1>2, <1>3
    <2> QED BY <1>2, <2>3, <2>4, StartSteps
  <1> QED BY <1>4, <1>5

LEMMA CustomBegins ==
  ASSUME GenerationInv, NEW r \in Makers, NEW ids, BeginCustom(r, ids)
  PROVE  GenerationInv'
  <1> DEFINE found == {p \in ids \cap Persona : people[p].there}
             q == Maker("custom", found, 0, [p \in found |-> people[p]])
  <1>1. Start(r, q)
    BY DEF BeginCustom
  <1>2. /\ IsMaker(q) /\ q.todo = found /\ q.tries = 0 /\ q.with = 0 /\ q.flushed = <<>> /\ q.op = "custom"
        /\ found \subseteq Persona
    BY MakersMade
  <1> HIDE DEF found, q
  <1>3. Addressed(q)
    BY <1>2 DEF Addressed
  <1> QED BY <1>1, <1>2, <1>3, StartSteps

LEMMA CounterpartIsOther ==
  ASSUME NEW q, NEW s
  PROVE  PickCounterpart(q, s) = 0 \/ PickCounterpart(q, s) \in Persona \ {s}
  <1> DEFINE all == Counterparts(q, s)
             opposite == {p \in all : RoleOf[p] # RoleOf[s]}
             best == IF opposite = {} THEN all ELSE opposite
  <1>1. PickCounterpart(q, s) = IF all = {} THEN 0 ELSE First(best)
    BY DEF PickCounterpart
  <1>2. all \subseteq Persona \ {s}
    BY DEF Counterparts
  <1>3. best \subseteq all /\ (all # {} => best # {})
    OBVIOUS
  <1> HIDE DEF all, best
  <1>4. all # {} => First(best) \in best
    BY <1>2, <1>3, FirstIsIn
  <1> QED BY <1>1, <1>2, <1>3, <1>4

LEMMA PairSteps ==
  ASSUME GenerationInv, NEW r \in Makers, Pair(r)
  PROVE  GenerationInv'
  <1> DEFINE q == makers[r]
             s == First(q.todo)
             with == IF q.seen[s].active /\ Ready(q, s) THEN PickCounterpart(q, s) ELSE 0
             read == {p \in Persona \ DOMAIN q.seen : people[p].there /\ people[p].active /\ q.seen[s].active /\ Ready(q, s)}
             seen == [p \in DOMAIN q.seen \cup read |-> IF p \in DOMAIN q.seen THEN q.seen[p] ELSE people[p]]
             then == [q EXCEPT !.with = with, !.seen = [p \in DOMAIN @ \cup read |-> IF p \in DOMAIN @ THEN @[p] ELSE people[p]]]
  <1>1. /\ q.op = "custom" /\ q.todo # {}
        /\ makers' = [makers EXCEPT ![r] = IF with = 0 THEN NextPair(then) ELSE then]
        /\ UNCHANGED <<people, made>>
    BY DEF Pair
  <1>2. with = 0 \/ with \in Persona \ {s}
    BY CounterpartIsOther
  <1>3. MakerFits(q) /\ BothThere(q.flushed)
    BY DEF GenerationInv
  <1>4. PICK w, n : w = with /\ n = seen /\ then = [q EXCEPT !.with = w, !.seen = n]
    OBVIOUS
  <1> HIDE DEF with, read, seen
  <1>5. /\ IsMaker(then) /\ then.op = "custom" /\ then.todo = q.todo /\ then.with = w /\ then.tries = q.tries /\ then.flushed = q.flushed
    <2>1. PICK x, m : x = q /\ IsMaker(x) /\ x.op = "custom" /\ m = [x EXCEPT !.with = w, !.seen = n] /\ m = then
      BY <1>1, <1>3, <1>4 DEF MakerFits
    <2>2. IsMaker(m) /\ m.op = x.op /\ m.todo = x.todo /\ m.with = w /\ m.tries = x.tries /\ m.flushed = x.flushed
      BY <2>1 DEF IsMaker
    <2> HIDE DEF then, q
    <2> QED BY <2>1, <2>2
  <1> HIDE DEF then, q
  <1>6. MakerFits(then) /\ BothThere(then.flushed) /\ then.todo # {}
    <2>1. Addressed(then)
      BY <1>2, <1>4, <1>5 DEF Addressed, s
    <2> QED BY <1>1, <1>3, <1>5, <2>1 DEF MakerFits, BothThere
  <1>7. MakerFits(NextPair(then)) /\ BothThere(NextPair(then).flushed)
    BY <1>6, NextFits
  <1>8. PICK m : m = (IF with = 0 THEN NextPair(then) ELSE then) /\ MakerFits(m) /\ BothThere(m.flushed)
    BY <1>6, <1>7
  <1> QED BY <1>1, <1>8, MakerSteps

LEMMA BadAnswerSteps ==
  ASSUME GenerationInv, NEW r \in Makers, BadAnswer(r) \/ CallFails(r)
  PROVE  GenerationInv'
  <1>1. PICK q : q = makers[r] /\ MakerFits(q) /\ BothThere(q.flushed)
    BY DEF GenerationInv
  <1>2. q.todo # {}
    BY <1>1 DEF BadAnswer, CallFails
  <1>3. MakerFits(NextPair(q)) /\ BothThere(NextPair(q).flushed)
    BY <1>1, <1>2, NextFits
  <1>4. ASSUME q.tries + 1 < RetryMax
        PROVE  MakerFits([q EXCEPT !.tries = q.tries + 1]) /\ BothThere([q EXCEPT !.tries = q.tries + 1].flushed)
    <2>1. PICK k, n : k = q.tries + 1 /\ n = [q EXCEPT !.tries = k]
      OBVIOUS
    <2>2. IsMaker(n) /\ n.op = q.op /\ n.todo = q.todo /\ n.with = q.with /\ n.tries = k /\ n.flushed = q.flushed
      BY <1>1, <2>1 DEF MakerFits, IsMaker
    <2>3. k \in 0 .. RetryMax - 1
      BY <1>1, <1>4, <2>1, GenerationAssumption DEF MakerFits
    <2>4. MakerFits(n)
      BY <1>1, <2>2, <2>3 DEF MakerFits, Addressed
    <2> QED BY <1>1, <2>1, <2>2, <2>4
  <1>5. PICK m : makers' = [makers EXCEPT ![r] = m] /\ MakerFits(m) /\ BothThere(m.flushed) /\ UNCHANGED <<people, made>>
    BY <1>1, <1>3, <1>4 DEF BadAnswer, CallFails
  <1> QED BY <1>5, MakerSteps

LEMMA GoodAnswerSteps ==
  ASSUME GenerationInv, NEW r \in Makers, GoodAnswer(r)
  PROVE  GenerationInv'
  <1>1. PICK q, s : q = makers[r] /\ s = Session(q) /\ MakerFits(q) /\ BothThere(q.flushed)
    BY DEF GenerationInv
  <1>2. q.todo # {} /\ q.with # 0
    BY <1>1 DEF GoodAnswer
  <1>3. PICK n : n = NextPair(q) /\ MakerFits(n) /\ n.flushed = q.flushed /\ n.todo = q.todo \ {First(q.todo)}
    BY <1>1, <1>2, NextFits
  <1>4. s.sender = First(q.todo) /\ s.receiver = q.with /\ s.cost = q.tries + 1
    BY <1>1 DEF Session
  <1>5. First(q.todo) \in q.todo /\ First(q.todo) \in Persona
    BY <1>1, <1>2, FirstIsIn DEF MakerFits
  <1>6. s.receiver \in Persona \ {s.sender}
    BY <1>1, <1>2, <1>4, <1>5 DEF MakerFits, Addressed
  <1>7. s.cost \in 1 .. RetryMax
    BY <1>1, <1>4, GenerationAssumption DEF MakerFits
  <1>8. ASSUME people[s.sender].there, people[s.receiver].there
        PROVE  MakerFits([n EXCEPT !.flushed = Append(@, s)]) /\ BothThere([n EXCEPT !.flushed = Append(@, s)].flushed)
    <2>1. PICK f, m : f = Append(q.flushed, s) /\ m = [n EXCEPT !.flushed = f]
      OBVIOUS
    <2>2. /\ IsMaker(m) /\ m.op = n.op /\ m.todo = n.todo /\ m.with = n.with /\ m.tries = n.tries /\ m.flushed = f
          /\ m = [n EXCEPT !.flushed = Append(@, s)]
      BY <1>3, <2>1 DEF MakerFits, IsMaker
    <2>3. PICK k \in Nat : k = Len(q.flushed) /\ IsList(q.flushed) /\ DOMAIN q.flushed = 1 .. k
      BY <1>1 DEF MakerFits, Batch, IsList
    <2>4. IsList(f) /\ DOMAIN f = 1 .. k + 1 /\ f[k + 1] = s /\ \A i \in 1 .. k : f[i] = q.flushed[i]
      BY <2>1, <2>3, ListAppended
    <2>5. \A i \in 1 .. k : IsSession(f[i], q.todo) /\ people[f[i].sender].there /\ people[f[i].receiver].there
      BY <1>1, <2>3, <2>4 DEF MakerFits, Batch, BothThere
    <2>6. \A i \in 1 .. k : IsSession(f[i], n.todo) /\ f[i].sender # s.sender
      BY <1>3, <1>4, <1>5, <2>5 DEF IsSession
    <2>7. IsSession(s, n.todo)
      BY <1>3, <1>4, <1>5, <1>6, <1>7 DEF IsSession
    <2>8. \A i, j \in 1 .. k : i # j => f[i].sender # f[j].sender
      BY <1>1, <2>3, <2>4 DEF MakerFits, Batch
    <2>9. Batch(f, n.todo) /\ BothThere(f)
      BY <1>8, <2>4, <2>5, <2>6, <2>7, <2>8 DEF Batch, BothThere
    <2>10. MakerFits(m)
      BY <1>3, <2>2, <2>9 DEF MakerFits, Addressed
    <2> QED BY <2>2, <2>9, <2>10
  <1>9. MakerFits([n EXCEPT !.poisoned = TRUE]) /\ BothThere([n EXCEPT !.poisoned = TRUE].flushed)
    <2>1. PICK b, m : m = [n EXCEPT !.poisoned = b] /\ m = [n EXCEPT !.poisoned = TRUE]
      OBVIOUS
    <2>2. IsMaker(m) /\ m.op = n.op /\ m.todo = n.todo /\ m.with = n.with /\ m.tries = n.tries /\ m.flushed = n.flushed
      BY <1>3, <2>1 DEF MakerFits, IsMaker
    <2>3. MakerFits(m)
      BY <1>3, <2>2 DEF MakerFits, Addressed
    <2> QED BY <1>1, <1>3, <2>1, <2>2, <2>3
  <1>10. PICK m : makers' = [makers EXCEPT ![r] = m] /\ MakerFits(m) /\ BothThere(m.flushed) /\ UNCHANGED <<people, made>>
    BY <1>1, <1>3, <1>8, <1>9 DEF GoodAnswer
  <1> QED BY <1>10, MakerSteps

LEMMA CommitSteps ==
  ASSUME GenerationInv, NEW r \in Makers, Commit(r)
  PROVE  /\ GenerationInv'
         /\ made' = made \o told' /\ (told' = <<>> \/ told' = makers[r].flushed)
  <1>1. PICK q : q = makers[r] /\ MakerFits(q) /\ BothThere(q.flushed)
    BY DEF GenerationInv
  <1>2. IsMaker(NoMaker) /\ NoMaker.todo = {} /\ NoMaker.tries = 0 /\ NoMaker.with = 0 /\ NoMaker.flushed = <<>>
    BY MakersMade DEF NoMaker
  <1>3. MakerFits(NoMaker) /\ BothThere(NoMaker.flushed)
    BY <1>2, FreshMaker DEF Addressed
  <1>4. PICK f : /\ f = <<>> \/ f = q.flushed
                 /\ told' = f /\ made' = made \o f
                 /\ makers' = [makers EXCEPT ![r] = NoMaker] /\ UNCHANGED people
    <2>1. made \o <<>> = made
      BY EmptyList, ListsJoined DEF GenerationInv
    <2> QED BY <1>1, <2>1 DEF Commit, AnswerOfFailedCommit
  <1>5. IsList(f)
    BY <1>1, <1>4, EmptyList DEF MakerFits, Batch
  <1>6. IsList(made')
    BY <1>4, <1>5, ListsJoined DEF GenerationInv
  <1>7. \A o \in Makers : MakerFits(makers'[o]) /\ BothThere(makers'[o].flushed)
    BY <1>3, <1>4 DEF GenerationInv
  <1>8. makers' = [o \in Makers |-> makers'[o]]
    BY <1>4 DEF GenerationInv
  <1>9. KnownPersonas'
    BY <1>4 DEF GenerationInv, KnownPersonas
  <1>10. \A o \in Makers : BothThere(makers[o].flushed)'
    BY <1>4, <1>7 DEF BothThere
  <1> QED BY <1>1, <1>4, <1>6, <1>7, <1>8, <1>9, <1>10 DEF GenerationInv

LEMMA GenerationSteps == GenerationInv /\ [GenerationNext]_genVars => GenerationInv'
  <1> SUFFICES ASSUME GenerationInv, [GenerationNext]_genVars PROVE GenerationInv'
    OBVIOUS
  <1>1. CASE UNCHANGED <<people, made, makers>>
    BY <1>1 DEF GenerationInv, KnownPersonas, BothThere
  <1>2. ASSUME NEW r \in Makers,
               \/ BeginWeekly(r) \/ (\E ids \in Picks : BeginCustom(r, ids)) \/ Pair(r)
               \/ BadAnswer(r) \/ CallFails(r) \/ GoodAnswer(r) \/ Commit(r)
        PROVE  GenerationInv'
    BY <1>2, WeeklyBegins, CustomBegins, PairSteps, BadAnswerSteps, GoodAnswerSteps, CommitSteps
  <1>3. ASSUME NEW p \in Persona, UpdatePersona(p) \/ CredentialsChange(p) \/ PersonaGoes(p) PROVE GenerationInv'
    BY <1>3, PersonaSteps
  <1>4. CASE Refused \/ Pass \/ UNCHANGED genVars
    BY <1>1, <1>4 DEF Refused, Pass, genVars
  <1> QED BY <1>2, <1>3, <1>4 DEF GenerationNext

BatchTold ==
  /\ made' = made \o told'
  /\ \A i, j \in DOMAIN told' : i # j => told'[i].sender # told'[j].sender
  /\ \A i \in DOMAIN told' :
       LET s == told'[i]
       IN s.sender # s.receiver /\ people[s.sender].there /\ people[s.receiver].there /\ s.cost \in 1 .. RetryMax

LEMMA BatchesTold == GenerationInv /\ [GenerationNext]_genVars => [BatchTold]_genVars
  <1> SUFFICES ASSUME GenerationInv, GenerationNext PROVE BatchTold
    BY DEF genVars
  <1>1. CASE Silent /\ UNCHANGED made
    <2>1. PICK e : e = <<>> /\ told' = e /\ DOMAIN e = {} /\ made \o e = made
      BY <1>1, EmptyList, ListsJoined DEF Silent, GenerationInv
    <2> QED BY <1>1, <2>1 DEF BatchTold
  <1>2. ASSUME NEW r \in Makers, Commit(r) PROVE BatchTold
    <2>1. PICK f, q : /\ q = makers[r] /\ MakerFits(q) /\ BothThere(q.flushed)
                      /\ made' = made \o f /\ told' = f /\ (f = <<>> \/ f = q.flushed)
      BY <1>2, CommitSteps DEF GenerationInv
    <2>2. \A i, j \in DOMAIN f : i # j => f[i].sender # f[j].sender
      BY <2>1, EmptyList DEF MakerFits, Batch
    <2>3. \A i \in DOMAIN f : IsSession(f[i], q.todo) /\ people[f[i].sender].there /\ people[f[i].receiver].there
      BY <2>1, EmptyList DEF MakerFits, Batch, BothThere
    <2> QED BY <2>1, <2>2, <2>3 DEF BatchTold, IsSession
  <1>3. ASSUME NEW r \in Makers, NEW q, Start(r, q) PROVE BatchTold
    BY <1>1, <1>3 DEF Start
  <1>4. ASSUME NEW r \in Makers,
               \/ BeginWeekly(r) \/ (\E ids \in Picks : BeginCustom(r, ids)) \/ Pair(r)
               \/ BadAnswer(r) \/ CallFails(r) \/ GoodAnswer(r)
        PROVE  BatchTold
    BY <1>1, <1>3, <1>4 DEF BeginWeekly, BeginCustom, Pair, BadAnswer, CallFails, GoodAnswer
  <1>5. ASSUME NEW p \in Persona, UpdatePersona(p) \/ CredentialsChange(p) \/ PersonaGoes(p) PROVE BatchTold
    <2>1. Change
      <3>1. CASE UpdatePersona(p)
        BY <3>1 DEF UpdatePersona
      <3>2. CASE CredentialsChange(p)
        BY <3>2 DEF CredentialsChange
      <3>3. CASE PersonaGoes(p)
        BY <3>3 DEF PersonaGoes
      <3> QED BY <1>5, <3>1, <3>2, <3>3
    <2> QED BY <1>1, <2>1 DEF Change
  <1>6. CASE Refused \/ Pass
    BY <1>1, <1>6 DEF Refused, Pass
  <1> QED BY <1>2, <1>4, <1>5, <1>6 DEF GenerationNext

(***************************************************************************)
(* BatchIsTold holds for any number of requests and personas: what a       *)
(* generation reports is what its commit appends to the table, one session *)
(* per sender, between two personas that are still there when it commits,  *)
(* at the cost of all attempts.                                            *)
(***************************************************************************)
THEOREM BatchesAreTold == GenerationSpec => BatchIsTold
  <1>1. GenerationInv /\ [GenerationNext]_genVars =>
          [/\ made' = made \o told'
           /\ \A i, j \in DOMAIN told' : i # j => told'[i].sender # told'[j].sender
           /\ \A i \in DOMAIN told' :
                LET s == told'[i]
                IN s.sender # s.receiver /\ people[s.sender].there /\ people[s.receiver].there /\ s.cost \in 1 .. RetryMax
           ]_genVars
    <2> SUFFICES ASSUME GenerationInv, [GenerationNext]_genVars, ~ UNCHANGED genVars PROVE BatchTold
      BY DEF BatchTold
    <2> QED BY BatchesTold
  <1> QED BY <1>1, GenerationStart, GenerationSteps, PTL DEF GenerationSpec, BatchIsTold

-----------------------------------------------------------------------------
(* Chat *)

IsRow(m) == m = [no |-> m.no, session |-> m.session, role |-> m.role, shown |-> m.shown, text |-> m.text, cost |-> m.cost]
IsMessage(m) == /\ IsRow(m)
                /\ m.no \in 0 .. begun /\ m.session \in ChatSession /\ m.role \in {"user", "assistant"} /\ m.cost \in Nat
\* A number names one question and one answer.
MessagesInOrder == /\ begun \in Nat
                   /\ IsList(messages)
                   /\ \A i \in DOMAIN messages : IsMessage(messages[i])
                   /\ \A i, j \in DOMAIN messages :
                        messages[i].no = messages[j].no /\ messages[i].role = messages[j].role /\ messages[i].no # 0 => i = j

IsChat(c) == c = [op |-> c.op, no |-> c.no, session |-> c.session, file |-> c.file, asked |-> c.asked,
                  usage |-> c.usage, crossed |-> c.crossed]
Busy(r) == chats[r].op # "none"
\* The rows of a chat under way cost nothing yet, and its answer is there once the question is asked.
ChatFits(c) == /\ IsChat(c)
               /\ c.op # "none" =>
                    /\ c.no \in 1 .. begun /\ c.session \in ChatSession
                    /\ \A i \in DOMAIN messages : messages[i].no = c.no => messages[i].session = c.session /\ messages[i].cost = 0
               /\ c.op = "asks" => \A i \in DOMAIN messages : messages[i].no = c.no => messages[i].role = "user"
ChatsInOrder == /\ chats = [r \in Chatters |-> chats[r]]
                /\ \A r \in Chatters : ChatFits(chats[r])
                /\ \A r, q \in Chatters : Busy(r) /\ Busy(q) /\ chats[r].no = chats[q].no => r = q

\* Nothing follows the question of a chat but its own answer, which nobody sees yet.
QuestionIsLast(c) ==
  \E i \in DOMAIN messages :
    /\ messages[i].no = c.no /\ messages[i].role = "user" /\ messages[i].session = c.session
    /\ c.op = "reads" => messages[i].shown
    /\ \A j \in DOMAIN messages : j > i /\ messages[j].session = c.session => messages[j].no = c.no /\ ~messages[j].shown
Alone(r) == /\ \A q \in Chatters \ {r} : Busy(q) => chats[q].session # chats[r].session
            /\ chats[r].op \in {"asks", "reads"} => QuestionIsLast(chats[r])
QuestionsStandLast == \A r \in Chatters : Busy(r) /\ ~chats[r].crossed /\ chats[r].session \in opened => Alone(r)

BusyOf(u) == {r \in Chatters : Busy(r) /\ OwnerOf[chats[r].session] = u}
BudgetHolds == \A u \in DOMAIN MediaCost :
  MediaCost[u] < ChatQuota => Usage(u) + Price * Cardinality(BusyOf(u)) < ChatQuota + Price * Cardinality(Chatters)

ChatInv == MessagesInOrder /\ ChatsInOrder /\ QuestionsStandLast /\ QuestionIsAsked /\ BudgetHolds

LEMMA RowShown ==
  ASSUME NEW m, IsRow(m), NEW a, NEW d, d = [m EXCEPT !.shown = a]
  PROVE  IsRow(d) /\ d.no = m.no /\ d.session = m.session /\ d.role = m.role /\ d.shown = a /\ d.text = m.text /\ d.cost = m.cost
  BY DEF IsRow

\* d is the conversation with the rows M shown, filled in or struck out, and nothing else changed.
Touches(d, M) == /\ IsList(d) /\ DOMAIN d = DOMAIN messages
                 /\ \A i \in DOMAIN messages \ M : d[i] = messages[i]
                 /\ \A i \in DOMAIN messages : IsMessage(d[i]) /\ d[i].session = messages[i].session /\ d[i].role = messages[i].role

Named(no, role) == {i \in DOMAIN messages : messages[i].no = no /\ messages[i].role = role}

LEMMA MessagesLength == MessagesInOrder => Len(messages) \in Nat /\ DOMAIN messages = 1 .. Len(messages)
  BY DEF MessagesInOrder, IsList

LEMMA ShownRows ==
  ASSUME MessagesInOrder, NEW no, NEW role
  PROVE  /\ Touches(Show(no, role), Named(no, role))
         /\ \A i \in Named(no, role) : Show(no, role)[i].no = no /\ Show(no, role)[i].shown /\ Show(no, role)[i].cost = messages[i].cost
  <1>1. PICK n, d, yes : n \in Nat /\ n = Len(messages) /\ DOMAIN messages = 1 .. n /\ d = Show(no, role) /\ yes = TRUE
    BY MessagesLength
  <1>2. d = [i \in 1 .. n |-> IF i \in Named(no, role) THEN [messages[i] EXCEPT !.shown = yes] ELSE messages[i]]
    BY <1>1 DEF Show, Named
  <1>3. IsList(d) /\ DOMAIN d = 1 .. n
    BY <1>1, <1>2, ListIs
  <1>4. ASSUME NEW i \in 1 .. n
        PROVE  /\ IsMessage(d[i]) /\ d[i].session = messages[i].session /\ d[i].role = messages[i].role
               /\ i \in Named(no, role) => d[i].no = no /\ d[i].shown /\ d[i].cost = messages[i].cost
               /\ i \notin Named(no, role) => d[i] = messages[i]
    <2>1. PICK m, e : m = messages[i] /\ IsMessage(m) /\ e = [m EXCEPT !.shown = yes]
      BY <1>1 DEF MessagesInOrder
    <2>2. IsRow(e) /\ e.no = m.no /\ e.session = m.session /\ e.role = m.role /\ e.shown = yes /\ e.cost = m.cost
      <3>1. IsRow(m) /\ e = [m EXCEPT !.shown = yes]
        BY <2>1 DEF IsMessage
      <3> QED BY <3>1, RowShown
    <2>3. IsMessage(e)
      BY <2>1, <2>2 DEF IsMessage
    <2> QED BY <1>1, <1>2, <2>1, <2>2, <2>3 DEF Named
  <1> QED BY <1>1, <1>3, <1>4 DEF Touches, Named

LEMMA OneOfName ==
  ASSUME MessagesInOrder, NEW no \in Nat \ {0}, NEW role, NEW i \in Named(no, role), NEW k \in Named(no, role)
  PROVE  i = k
  BY DEF MessagesInOrder, Named

AskedRight(c) ==
  LET end == CHOOSE i \in DOMAIN c.asked : \A j \in DOMAIN c.asked : j <= i
  IN c.asked # <<>> =>
       /\ \A i, j \in DOMAIN c.asked : c.asked[i].no = c.asked[j].no /\ c.asked[i].role = c.asked[j].role /\ c.asked[i].no # 0 => i = j
       /\ c.crossed \/ c.session \notin opened
          \/ (c.asked[end].no = c.no /\ c.asked[end].role = "user" /\ c.asked[end].file = c.file)

LEMMA AllAskedRight == QuestionIsAsked <=> \A r \in Chatters : AskedRight(chats[r])
  BY DEF QuestionIsAsked, AskedRight

TalkInv == MessagesInOrder /\ ChatsInOrder /\ QuestionsStandLast /\ \A r \in Chatters : AskedRight(chats[r])

\* What the others see of a step of chat r: only rows of its own number change, and none changes its name.
OwnRowsOnly(r) ==
  /\ DOMAIN messages \subseteq DOMAIN messages'
  /\ \A i \in DOMAIN messages : /\ messages'[i].no = messages[i].no /\ messages'[i].session = messages[i].session
                                /\ messages'[i].role = messages[i].role
                                /\ messages[i].no # chats[r].no => messages'[i] = messages[i]
  /\ \A i \in DOMAIN messages' \ DOMAIN messages : messages'[i].no = chats[r].no /\ messages'[i].session = chats[r].session

NamesChat(e, c) == e.no = c.no /\ e.session = c.session /\ e.crossed = c.crossed

LEMMA NoChatIsChat == IsChat(NoChat) /\ NoChat.op = "none" /\ NoChat.asked = <<>> /\ NoChat.session = 0 /\ NoChat.no = 0
  BY DEF NoChat, ChatOf, IsChat

LEMMA NoChatFits == ChatFits(NoChat) /\ ChatFits(NoChat)' /\ AskedRight(NoChat) /\ AskedRight(NoChat)'
  BY NoChatIsChat DEF ChatFits, AskedRight

LEMMA OtherChatsFit ==
  ASSUME TalkInv, NEW r \in Chatters, Busy(r), OwnRowsOnly(r), begun' = begun, NEW q \in Chatters \ {r}, NEW c, c = chats[q]
  PROVE  ChatFits(c)'
  <1>1. ChatFits(c) /\ (c.op # "none" => c.no # chats[r].no)
    BY DEF TalkInv, ChatsInOrder, Busy
  <1>2. IsChat(c) /\ (c.op # "none" => c.no \in 1 .. begun' /\ c.session \in ChatSession)
    BY <1>1 DEF ChatFits
  <1>3. ASSUME c.op # "none", NEW i \in DOMAIN messages', messages'[i].no = c.no
        PROVE  messages'[i].session = c.session /\ messages'[i].cost = 0 /\ (c.op = "asks" => messages'[i].role = "user")
    <2>1. i \in DOMAIN messages /\ messages'[i] = messages[i]
      BY <1>1, <1>3 DEF OwnRowsOnly
    <2> QED BY <1>1, <1>3, <2>1 DEF ChatFits
  <1>4. c.op = "asks" => c.op # "none"
    OBVIOUS
  <1> QED BY <1>2, <1>3, <1>4 DEF ChatFits

LEMMA OthersStandLast ==
  ASSUME TalkInv, NEW r \in Chatters, Busy(r), OwnRowsOnly(r), NEW c, QuestionIsLast(c), c.session # chats[r].session
  PROVE  QuestionIsLast(c)'
  <1>1. PICK i \in DOMAIN messages :
          /\ messages[i].no = c.no /\ messages[i].role = "user" /\ messages[i].session = c.session
          /\ c.op = "reads" => messages[i].shown
          /\ \A j \in DOMAIN messages : j > i /\ messages[j].session = c.session => messages[j].no = c.no /\ ~messages[j].shown
    BY DEF QuestionIsLast
  <1>2. ASSUME NEW j \in DOMAIN messages, messages[j].session = c.session PROVE messages'[j] = messages[j]
    <2>1. messages[j].no # chats[r].no
      BY <1>2 DEF TalkInv, ChatsInOrder, ChatFits, Busy
    <2> QED BY <2>1 DEF OwnRowsOnly
  <1>3. \A j \in DOMAIN messages' : messages'[j].session = c.session => j \in DOMAIN messages /\ messages'[j] = messages[j]
    BY <1>2 DEF OwnRowsOnly
  <1>4. i \in DOMAIN messages' /\ messages'[i] = messages[i]
    BY <1>1, <1>2 DEF OwnRowsOnly
  <1> QED BY <1>1, <1>3, <1>4 DEF QuestionIsLast

LEMMA ChatMoves ==
  ASSUME TalkInv, NEW r \in Chatters, Busy(r), OwnRowsOnly(r), MessagesInOrder', UNCHANGED <<opened, begun>>,
         NEW e, chats' = [chats EXCEPT ![r] = e], e = NoChat \/ NamesChat(e, chats[r]),
         ChatFits(e)', AskedRight(e)',
         (~e.crossed /\ e.session \in opened /\ e.op \in {"asks", "reads"} => QuestionIsLast(e))'
  PROVE  TalkInv'
  <1>1. chats' = [q \in Chatters |-> chats'[q]] /\ chats'[r] = e /\ \A q \in Chatters \ {r} : chats'[q] = chats[q]
    BY DEF TalkInv, ChatsInOrder
  <1>2. \A q \in Chatters : Busy(q)' => Busy(q) /\ NamesChat(chats'[q], chats[q])
    BY <1>1, NoChatIsChat DEF Busy, NamesChat
  <1>3. ChatsInOrder'
    <2>1. ASSUME NEW q \in Chatters PROVE ChatFits(chats[q])'
      <3>1. CASE q = r
        BY <1>1, <3>1 DEF ChatFits
      <3>2. CASE q # r
        <4>1. PICK c : c = chats[q] /\ c = chats'[q]
          BY <1>1, <3>2
        <4>2. ChatFits(c)'
          BY <3>2, <4>1, OtherChatsFit
        <4> QED BY <4>1, <4>2 DEF ChatFits
      <3> QED BY <3>1, <3>2
    <2>2. \A p, q \in Chatters : Busy(p)' /\ Busy(q)' /\ chats'[p].no = chats'[q].no => p = q
      BY <1>2 DEF TalkInv, ChatsInOrder, NamesChat
    <2> QED BY <1>1, <2>1, <2>2 DEF ChatsInOrder
  <1>4. QuestionsStandLast'
    <2> SUFFICES ASSUME NEW q \in Chatters, Busy(q)', ~chats'[q].crossed, chats'[q].session \in opened' PROVE Alone(q)'
      BY DEF QuestionsStandLast
    <2>1. Alone(q) /\ Busy(q) /\ NamesChat(chats'[q], chats[q])
      BY <1>2 DEF TalkInv, QuestionsStandLast, NamesChat
    <2>2. \A p \in Chatters \ {q} : Busy(p)' => chats'[p].session # chats'[q].session
      BY <1>2, <2>1 DEF Alone, NamesChat
    <2>3. ASSUME chats'[q].op \in {"asks", "reads"} PROVE QuestionIsLast(chats[q])'
      <3>1. CASE q = r
        BY <1>1, <2>3, <3>1 DEF QuestionIsLast
      <3>2. CASE q # r
        <4>1. PICK c : c = chats[q] /\ c = chats'[q]
          BY <1>1, <3>2
        <4>2. QuestionIsLast(c) /\ c.session # chats[r].session
          BY <2>1, <2>3, <3>2, <4>1 DEF Alone
        <4>3. QuestionIsLast(c)'
          BY <4>2, OthersStandLast
        <4> QED BY <4>1, <4>3 DEF QuestionIsLast
      <3> QED BY <3>1, <3>2
    <2> QED BY <2>2, <2>3 DEF Alone
  <1>5. ASSUME NEW q \in Chatters PROVE AskedRight(chats[q])'
    <2>1. PICK c : c = chats'[q] /\ (c = e \/ AskedRight(c))
      BY <1>1 DEF TalkInv
    <2>2. AskedRight(c)'
      <3>1. CASE c = e
        BY <3>1
      <3>2. CASE AskedRight(c)
        BY <3>2 DEF AskedRight
      <3> QED BY <2>1, <3>1, <3>2
    <2> QED BY <2>1, <2>2, SMTT(30) DEF AskedRight
  <1> QED BY <1>3, <1>4, <1>5 DEF TalkInv

LEMMA SameRows ==
  ASSUME TalkInv, UNCHANGED <<messages, begun>>, NEW r \in Chatters
  PROVE  OwnRowsOnly(r) /\ MessagesInOrder'
  BY DEF TalkInv, MessagesInOrder, OwnRowsOnly, IsMessage

LEMMA LeavingTalks ==
  ASSUME TalkInv, NEW r \in Chatters, PrepareFails(r) \/ CutOff(r)
  PROVE  TalkInv'
  <1>1. Busy(r) /\ chats' = [chats EXCEPT ![r] = NoChat] /\ UNCHANGED <<opened, messages, begun>>
    BY DEF PrepareFails, CutOff, Busy
  <1>2. (~NoChat.crossed /\ NoChat.session \in opened /\ NoChat.op \in {"asks", "reads"} => QuestionIsLast(NoChat))'
    BY NoChatIsChat
  <1>3. OwnRowsOnly(r) /\ MessagesInOrder'
    BY <1>1, SameRows
  <1> QED BY <1>1, <1>2, <1>3, NoChatFits, ChatMoves

LEMMA ChatTurned ==
  ASSUME NEW c, IsChat(c), NEW op, NEW e, e = [c EXCEPT !.op = op]
  PROVE  IsChat(e) /\ NamesChat(e, c) /\ e.op = op /\ e.asked = c.asked /\ e.file = c.file
  BY DEF IsChat, NamesChat

LEMMA ChatCounted ==
  ASSUME NEW c, IsChat(c), NEW usage, NEW e, e = [c EXCEPT !.usage = usage]
  PROVE  IsChat(e) /\ NamesChat(e, c) /\ e.op = c.op /\ e.asked = c.asked /\ e.file = c.file
  BY DEF IsChat, NamesChat

LEMMA UsageTalks ==
  ASSUME TalkInv, NEW r \in Chatters, UsageTold(r)
  PROVE  TalkInv'
  <1>1. PICK c, e, yes : /\ c = chats[r] /\ c.op = "streams" /\ e = [c EXCEPT !.usage = yes] /\ chats' = [chats EXCEPT ![r] = e]
                         /\ UNCHANGED <<opened, messages, begun>>
    BY DEF UsageTold
  <1>2. ChatFits(c) /\ AskedRight(c)
    BY <1>1 DEF TalkInv, ChatsInOrder
  <1>3. IsChat(c) /\ IsChat(e) /\ NamesChat(e, c) /\ e.op = "streams" /\ e.asked = c.asked /\ e.file = c.file
    BY <1>1, <1>2, ChatCounted DEF ChatFits
  <1>4. ChatFits(e)' /\ AskedRight(e)'
    BY <1>1, <1>2, <1>3 DEF ChatFits, AskedRight, NamesChat
  <1>5. OwnRowsOnly(r) /\ MessagesInOrder' /\ Busy(r)
    BY <1>1, SameRows DEF Busy
  <1>6. (~e.crossed /\ e.session \in opened /\ e.op \in {"asks", "reads"} => QuestionIsLast(e))'
    BY <1>3
  <1> QED BY <1>1, <1>3, <1>4, <1>5, <1>6, ChatMoves

LEMMA ReadingTalks ==
  ASSUME TalkInv, NEW r \in Chatters, ReadHistory(r)
  PROVE  TalkInv'
  <1>1. PICK c, a, e : /\ c = chats[r] /\ c.op = "reads" /\ a = AskedOf(c) /\ e = [c EXCEPT !.op = "searches", !.asked = a]
                       /\ chats' = [chats EXCEPT ![r] = e] /\ UNCHANGED <<opened, messages, begun>>
    BY DEF ReadHistory
  <1>2. ChatFits(c) /\ Busy(r)
    BY <1>1 DEF TalkInv, ChatsInOrder, Busy
  <1>3. IsChat(e) /\ NamesChat(e, c) /\ e.op = "searches" /\ e.asked = a /\ e.file = c.file
    <2>1. PICK op : IsChat(c) /\ e = [c EXCEPT !.op = op, !.asked = a] /\ op = "searches"
      BY <1>1, <1>2 DEF ChatFits
    <2>2. IsChat(e) /\ NamesChat(e, c) /\ e.op = op /\ e.asked = a /\ e.file = c.file
      BY <2>1 DEF IsChat, NamesChat
    <2> QED BY <2>1, <2>2
  <1>4. ChatFits(e)'
    BY <1>1, <1>2, <1>3 DEF ChatFits, NamesChat
  <1>5. PICK H : H = {i \in Rows : messages[i].session = c.session} /\ H \subseteq DOMAIN messages
    BY DEF Rows
  <1>6. /\ DOMAIN a = H
        /\ \A i \in H : /\ a[i].no = messages[i].no /\ a[i].role = messages[i].role
                        /\ (\A j \in H : j <= i) /\ messages[i].role = "user" => a[i].file = c.file
    BY <1>1, <1>5 DEF AskedOf
  <1>7. \A i, j \in H : a[i].no = a[j].no /\ a[i].role = a[j].role /\ a[i].no # 0 => i = j
    BY <1>5, <1>6 DEF TalkInv, MessagesInOrder
  <1>8. ASSUME ~c.crossed, c.session \in opened, NEW end, end = CHOOSE i \in H : \A j \in H : j <= i
        PROVE  a[end].no = c.no /\ a[end].role = "user" /\ a[end].file = c.file
    <2>1. QuestionIsLast(c)
      BY <1>1, <1>2, <1>8 DEF TalkInv, QuestionsStandLast, Alone
    <2>2. PICK i \in DOMAIN messages :
            /\ messages[i].no = c.no /\ messages[i].role = "user" /\ messages[i].session = c.session /\ messages[i].shown
            /\ \A j \in DOMAIN messages : j > i /\ messages[j].session = c.session => messages[j].no = c.no /\ ~messages[j].shown
      BY <1>1, <2>1 DEF QuestionIsLast
    <2>3. H \subseteq Int
      BY <1>5, MessagesLength DEF TalkInv
    <2>4. i \in H /\ \A j \in H : ~ (j > i)
      BY <1>5, <2>2 DEF Rows
    <2>5. ASSUME NEW j \in H PROVE j <= i
      <3>1. j \in Int /\ i \in Int
        BY <2>3, <2>4
      <3> QED BY <2>4, <3>1
    <2>6. end \in H /\ \A j \in H : j <= end
      BY <1>8, <2>4, <2>5
    <2>7. end = i
      <3>1. end \in Int /\ i \in Int /\ end <= i /\ i <= end
        BY <2>3, <2>4, <2>5, <2>6
      <3> QED BY <3>1
    <2> QED BY <1>6, <2>2, <2>4, <2>5, <2>7
  <1>9. AskedRight(e)'
    <2>1. AskedRight(e)
      BY <1>3, <1>6, <1>7, <1>8 DEF AskedRight, NamesChat
    <2> QED BY <1>1, <2>1 DEF AskedRight
  <1>10. OwnRowsOnly(r) /\ MessagesInOrder'
    BY <1>1, SameRows
  <1>11. (~e.crossed /\ e.session \in opened /\ e.op \in {"asks", "reads"} => QuestionIsLast(e))'
    BY <1>3
  <1> QED BY <1>1, <1>2, <1>3, <1>4, <1>9, <1>10, <1>11, ChatMoves

LEMMA AppendingTalks ==
  ASSUME TalkInv, NEW r \in Chatters, AppendAnswer(r)
  PROVE  /\ TalkInv'
         /\ DOMAIN messages' = DOMAIN messages
         /\ \A i \in DOMAIN messages : messages'[i] = messages[i] \/ messages'[i].cost = 0
  <1>1. PICK c, op, e : /\ c = chats[r] /\ c.op = "searches" /\ op = "streams" /\ e = [c EXCEPT !.op = op]
                        /\ chats' = [chats EXCEPT ![r] = e] /\ messages' = Show(c.no, "assistant") /\ UNCHANGED <<opened, begun>>
    BY DEF AppendAnswer
  <1>2. ChatFits(c) /\ Busy(r) /\ AskedRight(c) /\ IsChat(c) /\ MessagesInOrder
    BY <1>1 DEF TalkInv, ChatsInOrder, Busy, ChatFits
  <1>3. IsChat(e) /\ NamesChat(e, c) /\ e.op = "streams" /\ e.asked = c.asked /\ e.file = c.file
    BY <1>1, <1>2, ChatTurned
  <1>4. PICK M : /\ M = Named(c.no, "assistant") /\ Touches(messages', M)
                 /\ \A i \in M : messages'[i].no = c.no /\ messages'[i].cost = messages[i].cost
    BY <1>1, <1>2, ShownRows
  <1>5. \A i \in DOMAIN messages : messages'[i].no = messages[i].no /\ messages'[i].cost = messages[i].cost
    BY <1>4 DEF Touches, Named
  <1>6. OwnRowsOnly(r)
    BY <1>1, <1>4, <1>5 DEF OwnRowsOnly, Touches, Named
  <1>7. MessagesInOrder'
    BY <1>1, <1>2, <1>4, <1>5 DEF MessagesInOrder, Touches, IsMessage
  <1>8. ChatFits(e)' /\ AskedRight(e)'
    <2>1. ChatFits(e)'
      BY <1>1, <1>2, <1>3, <1>4, <1>5 DEF ChatFits, NamesChat, Touches
    <2>2. AskedRight(e)'
      BY <1>1, <1>2, <1>3 DEF AskedRight, NamesChat
    <2> QED BY <2>1, <2>2
  <1>9. (~e.crossed /\ e.session \in opened /\ e.op \in {"asks", "reads"} => QuestionIsLast(e))'
    BY <1>3
  <1>10. TalkInv'
    BY <1>1, <1>2, <1>3, <1>6, <1>7, <1>8, <1>9, ChatMoves
  <1>11. \A i \in DOMAIN messages : messages'[i] = messages[i] \/ messages'[i].cost = 0
    BY <1>1, <1>2, <1>4, <1>5 DEF ChatFits, Touches, Named
  <1> QED BY <1>4, <1>10, <1>11 DEF Touches

LEMMA EndingTalks ==
  ASSUME TalkInv, NEW r \in Chatters, EndStream(r)
  PROVE  /\ TalkInv'
         /\ \E M : /\ Touches(messages', M) /\ M = Named(chats[r].no, "assistant")
                   /\ \A i \in M : messages'[i].shown = messages[i].shown /\ messages'[i].cost \in {0, Price}
  <1>0. PICK c : c = chats[r]
    OBVIOUS
  <1>b. /\ c.op = "streams"
        /\ \E text \in IF c.usage THEN {TRUE} ELSE BOOLEAN :
             messages' = [i \in DOMAIN messages |-> IF messages[i].no = c.no /\ messages[i].role = "assistant"
                                                     THEN [messages[i] EXCEPT !.text = text, !.cost = IF c.usage THEN Price ELSE 0]
                                                     ELSE messages[i]]
        /\ chats' = [chats EXCEPT ![r] = NoChat] /\ UNCHANGED <<opened, begun>>
    BY <1>0 DEF EndStream
  <1>c. PICK text :
             messages' = [i \in DOMAIN messages |-> IF messages[i].no = c.no /\ messages[i].role = "assistant"
                                                     THEN [messages[i] EXCEPT !.text = text, !.cost = IF c.usage THEN Price ELSE 0]
                                                     ELSE messages[i]]
    BY <1>b, Zenon
  <1>d. PICK cost : cost = (IF c.usage THEN Price ELSE 0)
    OBVIOUS
  <1>1. /\ c = chats[r] /\ c.op = "streams" /\ cost \in {0, Price}
        /\ messages' = [i \in DOMAIN messages |-> IF messages[i].no = c.no /\ messages[i].role = "assistant"
                                                     THEN [messages[i] EXCEPT !.text = text, !.cost = cost]
                                                     ELSE messages[i]]
        /\ chats' = [chats EXCEPT ![r] = NoChat] /\ UNCHANGED <<opened, begun>>
    <2>1. messages' = [i \in DOMAIN messages |-> IF messages[i].no = c.no /\ messages[i].role = "assistant"
                                                          THEN [messages[i] EXCEPT !.text = text, !.cost = cost]
                                                          ELSE messages[i]]
      BY <1>c, <1>d, Zenon
    <2>2. cost \in {0, Price}
      BY <1>d
    <2> QED BY <1>0, <1>b, <2>1, <2>2
  <1>2. ChatFits(c) /\ Busy(r) /\ MessagesInOrder
    BY <1>1 DEF TalkInv, ChatsInOrder, Busy
  <1>3. PICK n, M, d : n \in Nat /\ n = Len(messages) /\ DOMAIN messages = 1 .. n /\ M = Named(c.no, "assistant") /\ d = messages'
    BY <1>2, MessagesLength
  <1>4. d = [i \in 1 .. n |-> IF i \in M THEN [messages[i] EXCEPT !.text = text, !.cost = cost] ELSE messages[i]]
    BY <1>1, <1>3 DEF Named
  <1>5. IsList(d) /\ DOMAIN d = 1 .. n
    BY <1>3, <1>4, ListIs
  <1>6. ASSUME NEW i \in 1 .. n
        PROVE  /\ IsMessage(d[i]) /\ d[i].session = messages[i].session /\ d[i].role = messages[i].role /\ d[i].no = messages[i].no
               /\ d[i].shown = messages[i].shown
               /\ i \in M => d[i].cost = cost
               /\ i \notin M => d[i] = messages[i]
    <2>1. PICK m, e : m = messages[i] /\ IsMessage(m) /\ IsRow(m) /\ e = [m EXCEPT !.text = text, !.cost = cost]
      BY <1>2, <1>3 DEF MessagesInOrder, IsMessage
    <2>2. IsRow(e) /\ e.no = m.no /\ e.session = m.session /\ e.role = m.role /\ e.shown = m.shown /\ e.cost = cost
      BY <2>1 DEF IsRow
    <2>3. cost \in Nat
      <3>1. Price \in Nat /\ 0 \in Nat
        BY ChatAssumption
      <3> QED BY <1>1, <3>1
    <2>4. IsMessage(e)
      BY <2>1, <2>2, <2>3 DEF IsMessage
    <2> QED BY <1>4, <2>1, <2>2, <2>4
  <1>7. Touches(messages', M)
    BY <1>3, <1>5, <1>6 DEF Touches
  <1>8. OwnRowsOnly(r)
    BY <1>1, <1>3, <1>5, <1>6 DEF OwnRowsOnly, Named
  <1>9. MessagesInOrder'
    <2>1. \A i \in DOMAIN messages' : IsMessage(messages'[i])
      BY <1>3, <1>5, <1>6
    <2>2. \A i, j \in DOMAIN messages' :
            messages'[i].no = messages'[j].no /\ messages'[i].role = messages'[j].role /\ messages'[i].no # 0 => i = j
      BY <1>2, <1>3, <1>5, <1>6 DEF MessagesInOrder
    <2> QED BY <1>1, <1>2, <1>3, <1>5, <2>1, <2>2 DEF MessagesInOrder, IsMessage
  <1>10. (~NoChat.crossed /\ NoChat.session \in opened /\ NoChat.op \in {"asks", "reads"} => QuestionIsLast(NoChat))'
    BY NoChatIsChat
  <1>11. TalkInv'
    BY <1>1, <1>2, <1>8, <1>9, <1>10, NoChatFits, ChatMoves
  <1>12. M = Named(chats[r].no, "assistant") /\ \A i \in M : messages'[i].shown = messages[i].shown /\ messages'[i].cost \in {0, Price}
    BY <1>1, <1>3, <1>6 DEF Named
  <1> QED BY <1>7, <1>11, <1>12

LEMMA MessageIs ==
  ASSUME NEW no, NEW s, NEW role, NEW m, m = Message(no, s, role)
  PROVE  IsRow(m) /\ m.no = no /\ m.session = s /\ m.role = role /\ ~m.shown /\ m.cost = 0
  BY DEF Message, IsRow

LEMMA AskingTalks ==
  ASSUME TalkInv, NEW r \in Chatters, AskQuestion(r)
  PROVE  /\ TalkInv'
         /\ DOMAIN messages \subseteq DOMAIN messages'
         /\ \A i \in DOMAIN messages : messages'[i].role = messages[i].role /\ messages'[i].session = messages[i].session
         /\ \A i \in DOMAIN messages : messages'[i].role = "assistant" => messages'[i] = messages[i]
         /\ \A i \in DOMAIN messages' \ DOMAIN messages : ~messages'[i].shown
  <1>1. PICK c, op, e, d, a : /\ c = chats[r] /\ c.op = "asks" /\ op = "reads" /\ e = [c EXCEPT !.op = op] /\ c.session \in opened
                              /\ d = Show(c.no, "user") /\ a = Message(c.no, c.session, "assistant")
                              /\ chats' = [chats EXCEPT ![r] = e] /\ messages' = Append(d, a) /\ UNCHANGED <<opened, begun>>
    BY DEF AskQuestion
  <1>2. ChatFits(c) /\ Busy(r) /\ AskedRight(c) /\ IsChat(c) /\ MessagesInOrder
    BY <1>1 DEF TalkInv, ChatsInOrder, Busy, ChatFits
  <1>3. IsChat(e) /\ NamesChat(e, c) /\ e.op = "reads" /\ e.asked = c.asked /\ e.file = c.file
    <2>1. e = [c EXCEPT !.op = op] /\ IsChat(c)
      BY <1>1, <1>2
    <2>2. IsChat(e) /\ NamesChat(e, c) /\ e.op = op /\ e.asked = c.asked /\ e.file = c.file
      BY <2>1, ChatTurned
    <2> QED BY <1>1, <2>2
  <1>4. PICK n, M : n \in Nat /\ n = Len(messages) /\ DOMAIN messages = 1 .. n /\ M = Named(c.no, "user")
    BY <1>2, MessagesLength
  <1>5. Touches(d, M) /\ \A i \in M : d[i].no = c.no /\ d[i].shown /\ d[i].cost = messages[i].cost
    BY <1>1, <1>2, <1>4, ShownRows
  <1>6. DOMAIN d = 1 .. n /\ Len(d) = n /\ IsList(d)
    <2>1. IsList(d) /\ DOMAIN d = 1 .. n
      BY <1>4, <1>5 DEF Touches
    <2>2. PICK k \in Nat : k = Len(d) /\ DOMAIN d = 1 .. k
      BY <2>1 DEF IsList
    <2>3. k = n
      <3>1. 1 .. k = 1 .. n /\ k \in Nat /\ n \in Nat
        BY <1>4, <2>1, <2>2
      <3>2. Cardinality(1 .. k) = k /\ Cardinality(1 .. n) = n
        BY <3>1, FS_Interval
      <3> QED BY <3>1, <3>2
    <2> QED BY <2>1, <2>2, <2>3
  <1>7. IsRow(a) /\ a.no = c.no /\ a.session = c.session /\ a.role = "assistant" /\ ~a.shown /\ a.cost = 0
    BY <1>1, MessageIs
  <1>8. IsMessage(a)
    BY <1>1, <1>2, <1>7 DEF IsMessage, ChatFits, MessagesInOrder
  <1>9. IsList(messages') /\ DOMAIN messages' = 1 .. n + 1 /\ messages'[n + 1] = a /\ \A i \in 1 .. n : messages'[i] = d[i]
    BY <1>1, <1>6, ListAppended
  <1>10. \A i \in 1 .. n : /\ IsMessage(d[i]) /\ d[i].no = messages[i].no /\ d[i].role = messages[i].role
                           /\ d[i].session = messages[i].session /\ d[i].cost = messages[i].cost
                           /\ i \notin M => d[i] = messages[i]
    BY <1>4, <1>5 DEF Touches, Named
  <1>11. MessagesInOrder'
    <2>1. \A i \in DOMAIN messages' : IsMessage(messages'[i])
      BY <1>4, <1>8, <1>9, <1>10
    <2>2. \A i \in 1 .. n : messages[i].no = c.no => messages[i].role = "user"
      BY <1>1, <1>2, <1>4 DEF ChatFits
    <2>3. \A i, j \in 1 .. n : messages'[i].no = messages'[j].no /\ messages'[i].role = messages'[j].role /\ messages'[i].no # 0 => i = j
      BY <1>2, <1>4, <1>9, <1>10 DEF MessagesInOrder
    <2>4. \A i \in 1 .. n : ~ (messages'[i].no = c.no /\ messages'[i].role = "assistant")
      BY <1>9, <1>10, <2>2
    <2>5. \A i, j \in DOMAIN messages' :
            messages'[i].no = messages'[j].no /\ messages'[i].role = messages'[j].role /\ messages'[i].no # 0 => i = j
      <3>1. \A i \in DOMAIN messages' : i \in 1 .. n \/ i = n + 1
        BY <1>4, <1>9
      <3> QED BY <1>7, <1>9, <2>3, <2>4, <3>1
    <2> QED BY <1>1, <1>2, <1>9, <2>1, <2>5, SMTT(30) DEF MessagesInOrder, IsMessage
  <1>12. OwnRowsOnly(r)
    BY <1>1, <1>4, <1>7, <1>9, <1>10 DEF OwnRowsOnly, Named
  <1>13. ChatFits(e)' /\ AskedRight(e)'
    <2>1. \A i \in DOMAIN messages' : messages'[i].no = c.no => messages'[i].session = c.session /\ messages'[i].cost = 0
      BY <1>1, <1>2, <1>4, <1>7, <1>9, <1>10 DEF ChatFits
    <2>2. ChatFits(e)'
      BY <1>1, <1>2, <1>3, <2>1 DEF ChatFits, NamesChat
    <2>3. AskedRight(e)'
      BY <1>1, <1>2, <1>3 DEF AskedRight, NamesChat
    <2> QED BY <2>2, <2>3
  <1>14. ASSUME ~e.crossed PROVE QuestionIsLast(e)'
    <2>1. QuestionIsLast(c)
      BY <1>1, <1>2, <1>3, <1>14 DEF TalkInv, QuestionsStandLast, Alone, NamesChat
    <2>2. PICK i \in 1 .. n :
            /\ messages[i].no = c.no /\ messages[i].role = "user" /\ messages[i].session = c.session
            /\ \A j \in 1 .. n : j > i /\ messages[j].session = c.session => messages[j].no = c.no /\ ~messages[j].shown
      BY <1>4, <2>1 DEF QuestionIsLast
    <2>3. i \in M
      BY <1>4, <2>2 DEF Named
    <2>4. messages'[i].no = c.no /\ messages'[i].role = "user" /\ messages'[i].session = c.session /\ messages'[i].shown
      BY <1>5, <1>9, <1>10, <2>2, <2>3
    <2>5. \A j \in M : j = i
      <3>1. c.no \in Nat \ {0}
        BY <1>1, <1>2 DEF ChatFits, MessagesInOrder
      <3> QED BY <1>2, <1>4, <2>3, <3>1, OneOfName
    <2>6. ASSUME NEW j \in 1 .. n + 1, j > i, messages'[j].session = c.session PROVE messages'[j].no = c.no /\ ~messages'[j].shown
      <3>1. CASE j = n + 1
        BY <1>7, <1>9, <3>1
      <3>2. CASE j \in 1 .. n
        <4>1. j # i
          BY <2>6
        <4>2. messages'[j] = messages[j]
          BY <1>9, <1>10, <2>5, <3>2, <4>1
        <4> QED BY <2>2, <2>6, <3>2, <4>2
      <3> QED BY <1>4, <3>1, <3>2
    <2> QED BY <1>3, <1>4, <1>9, <2>4, <2>6 DEF QuestionIsLast, NamesChat
  <1>15. (~e.crossed /\ e.session \in opened /\ e.op \in {"asks", "reads"} => QuestionIsLast(e))'
    BY <1>14
  <1>16. TalkInv'
    BY <1>1, <1>2, <1>3, <1>11, <1>12, <1>13, <1>15, ChatMoves
  <1>17. \A i \in 1 .. n : messages'[i].role = "assistant" => messages'[i] = messages[i]
    BY <1>4, <1>9, <1>10 DEF Named
  <1>18. \A i \in DOMAIN messages' \ DOMAIN messages : ~messages'[i].shown
    BY <1>4, <1>7, <1>9
  <1> QED BY <1>4, <1>9, <1>10, <1>16, <1>17, <1>18

LEMMA BeginningTalks ==
  ASSUME TalkInv, NEW r \in Chatters, NEW s \in ChatSession, NEW f, BeginChat(r, s, f)
  PROVE  /\ TalkInv'
         /\ \A i \in DOMAIN messages : messages'[i] = messages[i]
         /\ DOMAIN messages \subseteq DOMAIN messages'
         /\ \A i \in DOMAIN messages' \ DOMAIN messages : ~messages'[i].shown
         /\ ~Busy(r) /\ \A q \in Chatters \ {r} : Busy(q)' => Busy(q) /\ chats'[q].session = chats[q].session
         /\ chats'[r].session = s
  <1>1. PICK n, a, k : /\ n \in Nat /\ n = Len(messages) /\ DOMAIN messages = 1 .. n /\ a = Message(begun + 1, s, "user")
                       /\ messages' = Append(messages, a) /\ k \in Nat /\ k = begun + 1 /\ begun' = k /\ begun \in Nat /\ UNCHANGED opened
    <2>1. begun \in Nat /\ begun + 1 \in Nat
      BY DEF TalkInv, MessagesInOrder
    <2>2. messages' = Append(messages, Message(begun + 1, s, "user")) /\ begun' = begun + 1 /\ UNCHANGED opened
      BY DEF BeginChat
    <2> QED BY <2>1, <2>2, MessagesLength DEF TalkInv
  <1>2. PICK e, X : /\ e = ChatOf("asks", k, s, f, X # {}) /\ X = Crossing(r, s) /\ chats[r].op = "none"
                    /\ chats' = [q \in Chatters |-> CASE q = r -> e
                                                      [] q \in X -> [chats[q] EXCEPT !.crossed = TRUE]
                                                      [] OTHER -> chats[q]]
    BY <1>1 DEF BeginChat
  <1>3. IsChat(e) /\ e.op = "asks" /\ e.no = k /\ e.session = s /\ e.asked = <<>> /\ (~e.crossed => X = {})
    <2>1. PICK x : x = (X # {}) /\ (~x => X = {})
      OBVIOUS
    <2>2. e = [op |-> "asks", no |-> k, session |-> s, file |-> f, asked |-> <<>>, usage |-> FALSE, crossed |-> x]
      BY <1>2, <2>1 DEF ChatOf
    <2> QED BY <2>1, <2>2 DEF IsChat
  <1>4. X = {q \in Chatters \ {r} : Busy(q) /\ chats[q].session = s}
    BY <1>2 DEF Crossing, Busy
  <1>5. IsRow(a) /\ a.no = k /\ a.session = s /\ a.role = "user" /\ ~a.shown /\ a.cost = 0
    BY <1>1, MessageIs
  <1>6. IsList(messages') /\ DOMAIN messages' = 1 .. n + 1 /\ messages'[n + 1] = a /\ \A i \in 1 .. n : messages'[i] = messages[i]
    BY <1>1, ListAppended DEF TalkInv, MessagesInOrder
  <1>7. \A i \in 1 .. n : IsMessage(messages[i]) /\ IsMessage(messages[i])' /\ messages[i].no # k /\ messages[i].no \in Nat
    <2>1. \A i \in 1 .. n : IsMessage(messages[i])
      BY <1>1 DEF TalkInv, MessagesInOrder
    <2>2. \A i \in 1 .. n : messages[i].no \in 0 .. k /\ messages[i].no # k /\ messages[i].no \in Nat
      BY <1>1, <2>1 DEF IsMessage
    <2> QED BY <1>1, <1>6, <2>1, <2>2 DEF IsMessage
  <1>8. MessagesInOrder'
    <2>1. IsMessage(messages[n + 1])'
      BY <1>1, <1>5, <1>6 DEF IsMessage
    <2>2. \A i \in DOMAIN messages' : i \in 1 .. n \/ i = n + 1
      BY <1>1, <1>6
    <2>3. \A i \in DOMAIN messages' : IsMessage(messages[i])'
      BY <1>7, <2>1, <2>2
    <2>4. \A i, j \in DOMAIN messages' :
            messages'[i].no = messages'[j].no /\ messages'[i].role = messages'[j].role /\ messages'[i].no # 0 => i = j
      BY <1>1, <1>5, <1>6, <1>7, <2>2 DEF TalkInv, MessagesInOrder
    <2> QED BY <1>1, <1>6, <2>3, <2>4 DEF MessagesInOrder
  \* What becomes of the others.
  <1>9. ASSUME NEW q \in Chatters \ {r}
        PROVE  /\ IsChat(chats'[q]) /\ chats'[q].op = chats[q].op /\ chats'[q].no = chats[q].no
               /\ chats'[q].session = chats[q].session /\ chats'[q].file = chats[q].file /\ chats'[q].asked = chats[q].asked
               /\ ~chats'[q].crossed => ~chats[q].crossed /\ q \notin X
               /\ ChatFits(chats[q]) /\ AskedRight(chats[q])
    <2>1. PICK c, yes : c = chats[q] /\ IsChat(c) /\ ChatFits(c) /\ AskedRight(c) /\ yes = TRUE
      BY DEF TalkInv, ChatsInOrder, ChatFits
    <2>2. CASE q \in X
      <3>1. PICK x : x = chats'[q] /\ x = [c EXCEPT !.crossed = yes]
        BY <1>2, <2>1, <2>2
      <3>2. IsChat(x) /\ x.op = c.op /\ x.no = c.no /\ x.session = c.session /\ x.file = c.file /\ x.asked = c.asked /\ x.crossed = yes
        BY <2>1, <3>1 DEF IsChat
      <3> QED BY <2>1, <3>1, <3>2
    <2>3. CASE q \notin X
      BY <1>2, <2>1, <2>3
    <2> QED BY <2>2, <2>3
  <1>10. chats' = [q \in Chatters |-> chats'[q]] /\ chats'[r] = e
    <2> DEFINE h(q) == CASE q = r -> e [] q \in X -> [chats[q] EXCEPT !.crossed = TRUE] [] OTHER -> chats[q]
    <2>1. chats' = [q \in Chatters |-> h(q)]
      BY <1>2
    <2>2. h(r) = e
      BY <1>4
    <2> HIDE DEF h
    <2> QED BY <2>1, <2>2
  <1>11. ASSUME NEW q \in Chatters PROVE ChatFits(chats[q])'
    <2>1. CASE q = r
      <3>1. \A i \in DOMAIN messages' : messages'[i].no = k => i = n + 1
        BY <1>1, <1>6, <1>7
      <3>2. k \in 1 .. begun'
        BY <1>1
      <3> QED BY <1>3, <1>5, <1>6, <1>10, <2>1, <3>1, <3>2 DEF ChatFits
    <2>2. CASE q # r
      <3>1. PICK c, d : c = chats[q] /\ d = chats'[q] /\ ChatFits(c)
        BY <1>9, <2>2
      <3>2. c.op # "none" => c.no \in 1 .. begun' /\ c.no # k
        BY <1>1, <3>1 DEF ChatFits
      <3>3. \A i \in DOMAIN messages' : c.op # "none" /\ messages'[i].no = c.no => i \in 1 .. n
        BY <1>1, <1>5, <1>6, <3>2
      <3>4. ChatFits(d)'
        BY <1>1, <1>6, <1>9, <2>2, <3>1, <3>2, <3>3 DEF ChatFits
      <3> QED BY <3>1, <3>4 DEF ChatFits
    <2> QED BY <2>1, <2>2
  <1>12. \A p, q \in Chatters : Busy(p)' /\ Busy(q)' /\ chats'[p].no = chats'[q].no => p = q
    <2>1. \A q \in Chatters \ {r} : Busy(q)' => Busy(q) /\ chats'[q].no = chats[q].no /\ chats[q].no # k
      BY <1>1, <1>9 DEF Busy, ChatFits
    <2> QED BY <1>3, <1>10, <2>1 DEF TalkInv, ChatsInOrder
  <1>13. QuestionsStandLast'
    <2> SUFFICES ASSUME NEW q \in Chatters, Busy(q)', ~chats'[q].crossed, chats'[q].session \in opened' PROVE Alone(q)'
      BY DEF QuestionsStandLast
    <2>1. CASE q = r
      <3>1. \A p \in Chatters \ {r} : Busy(p)' => chats'[p].session # s
        BY <1>3, <1>4, <1>9, <1>10, <2>1 DEF Busy
      <3>2. QuestionIsLast(e)'
        <4>1. \A j \in DOMAIN messages' : ~(j > n + 1)
          BY <1>1, <1>6
        <4> QED BY <1>1, <1>3, <1>5, <1>6, <4>1 DEF QuestionIsLast
      <3>3. QuestionIsLast(chats[r])'
        BY <1>10, <3>2 DEF QuestionIsLast
      <3> QED BY <1>3, <1>10, <2>1, <3>1, <3>3 DEF Alone
    <2>2. CASE q # r
      <3>1. PICK c, d : c = chats[q] /\ d = chats'[q]
        OBVIOUS
      <3>2. /\ d.op = c.op /\ d.no = c.no /\ d.session = c.session /\ Busy(q) /\ ~c.crossed /\ c.session \in opened /\ q \notin X
        BY <1>1, <1>9, <2>2, <3>1 DEF Busy
      <3>3. Alone(q) /\ c.session # s
        BY <1>4, <2>2, <3>1, <3>2 DEF TalkInv, QuestionsStandLast
      <3>4. \A p \in Chatters \ {q} : Busy(p)' => chats'[p].session # d.session
        BY <1>3, <1>9, <1>10, <3>1, <3>2, <3>3 DEF Alone, Busy
      <3>5. c.op \in {"asks", "reads"} => QuestionIsLast(d)'
        BY <1>1, <1>5, <1>6, <3>1, <3>2, <3>3 DEF Alone, QuestionIsLast
      <3>6. d.op \in {"asks", "reads"} => QuestionIsLast(chats[q])'
        BY <3>1, <3>2, <3>5 DEF QuestionIsLast
      <3> QED BY <3>1, <3>4, <3>6 DEF Alone
    <2> QED BY <2>1, <2>2
  <1>14. ASSUME NEW q \in Chatters PROVE AskedRight(chats[q])'
    <2>1. CASE q = r
      BY <1>3, <1>10, <2>1 DEF AskedRight
    <2>2. CASE q # r
      <3>1. PICK c, d : c = chats[q] /\ d = chats'[q] /\ AskedRight(c)
        BY <1>9, <2>2
      <3>2. d.no = c.no /\ d.session = c.session /\ d.file = c.file /\ d.asked = c.asked /\ (~d.crossed => ~c.crossed)
        BY <1>9, <2>2, <3>1
      <3>3. AskedRight(d)
        BY <3>1, <3>2 DEF AskedRight
      <3>4. AskedRight(d)'
        BY <1>1, <3>3 DEF AskedRight
      <3> QED BY <3>1, <3>4 DEF AskedRight
    <2> QED BY <2>1, <2>2
  <1>15. TalkInv'
    BY <1>8, <1>10, <1>11, <1>12, <1>13, <1>14 DEF TalkInv, ChatsInOrder
  <1>16. \A i \in DOMAIN messages' \ DOMAIN messages : ~messages'[i].shown
    BY <1>1, <1>5, <1>6
  <1>17. ~Busy(r) /\ chats'[r].session = s
    BY <1>2, <1>3, <1>10 DEF Busy
  <1>18. \A q \in Chatters \ {r} : Busy(q)' => Busy(q) /\ chats'[q].session = chats[q].session
    BY <1>9 DEF Busy
  <1> QED BY <1>1, <1>6, <1>15, <1>16, <1>17, <1>18

LEMMA SessionsTalk ==
  ASSUME TalkInv, NEW s \in ChatSession, CreateChatSession(s)
  PROVE  TalkInv'
  <1>1. UNCHANGED <<messages, chats, begun>> /\ opened' = opened \cup {s} /\ \A r \in Chatters : chats[r].session # s
    BY DEF CreateChatSession
  <1>2. MessagesInOrder' /\ ChatsInOrder'
    BY <1>1 DEF TalkInv, MessagesInOrder, ChatsInOrder, ChatFits, IsMessage, Busy
  <1>3. QuestionsStandLast'
    BY <1>1 DEF TalkInv, QuestionsStandLast, Busy, Alone, QuestionIsLast
  <1>4. ASSUME NEW r \in Chatters PROVE AskedRight(chats[r])'
    <2>1. PICK c : c = chats[r] /\ c = chats'[r] /\ c.session # s /\ AskedRight(c)
      BY <1>1 DEF TalkInv
    <2>2. AskedRight(c)'
      BY <1>1, <2>1 DEF AskedRight
    <2> QED BY <2>1, <2>2 DEF AskedRight
  <1> QED BY <1>2, <1>3, <1>4 DEF TalkInv

LEMMA AttachmentsTalk ==
  ASSUME TalkInv, UNCHANGED <<opened, messages, chats, begun>>
  PROVE  TalkInv'
  <1>1. MessagesInOrder' /\ ChatsInOrder'
    BY DEF TalkInv, MessagesInOrder, ChatsInOrder, ChatFits, IsMessage, Busy
  <1>2. QuestionsStandLast'
    BY DEF TalkInv, QuestionsStandLast, Busy, Alone, QuestionIsLast
  <1>3. \A r \in Chatters : AskedRight(chats[r])'
    BY DEF TalkInv, AskedRight
  <1> QED BY <1>1, <1>2, <1>3 DEF TalkInv

LEMMA DeletingTalks ==
  ASSUME TalkInv, NEW s \in ChatSession, DeleteChatSession(s)
  PROVE  /\ TalkInv'
         /\ DOMAIN messages' = DOMAIN messages
         /\ \A i \in DOMAIN messages : messages'[i] = messages[i] \/ ~messages'[i].shown
  <1>1. PICK no, zero : /\ opened' = opened \ {s} /\ UNCHANGED <<chats, begun>> /\ no = FALSE /\ zero = 0
                        /\ messages' = [i \in DOMAIN messages |-> IF messages[i].session = s
                                            THEN [messages[i] EXCEPT !.shown = no, !.no = zero, !.cost = zero] ELSE messages[i]]
    BY DEF DeleteChatSession
  <1>2. PICK n, d : n \in Nat /\ n = Len(messages) /\ DOMAIN messages = 1 .. n /\ d = messages'
    BY MessagesLength DEF TalkInv
  <1>3. d = [i \in 1 .. n |-> IF messages[i].session = s THEN [messages[i] EXCEPT !.shown = no, !.no = zero, !.cost = zero] ELSE messages[i]]
    BY <1>1, <1>2
  <1>4. IsList(d) /\ DOMAIN d = 1 .. n
    BY <1>2, <1>3, ListIs
  <1>5. ASSUME NEW i \in 1 .. n
        PROVE  /\ IsMessage(d[i])
               /\ messages[i].session # s => d[i] = messages[i]
               /\ messages[i].session = s => d[i].session = s /\ d[i].no = 0 /\ ~d[i].shown /\ d[i].cost = 0
    <2>1. PICK m : m = messages[i] /\ IsMessage(m) /\ IsRow(m)
      BY <1>2 DEF TalkInv, MessagesInOrder, IsMessage
    <2>2. CASE messages[i].session = s
      <3>1. PICK e : e = d[i] /\ e = [m EXCEPT !.shown = no, !.no = zero, !.cost = zero]
        BY <1>3, <2>1, <2>2
      <3>2. IsRow(e) /\ e.no = zero /\ e.session = m.session /\ e.role = m.role /\ e.shown = no /\ e.cost = zero
        BY <2>1, <3>1 DEF IsRow
      <3>3. begun \in Nat
        BY DEF TalkInv, MessagesInOrder
      <3>4. 0 \in 0 .. begun /\ 0 \in Nat
        BY <3>3
      <3>5. IsMessage(e)
        BY <1>1, <2>1, <3>2, <3>4 DEF IsMessage
      <3> QED BY <1>1, <2>1, <2>2, <3>1, <3>2, <3>5
    <2>3. CASE messages[i].session # s
      BY <1>3, <2>1, <2>3
    <2> QED BY <2>2, <2>3
  <1>6. MessagesInOrder'
    <2>1. \A i \in DOMAIN messages' : IsMessage(messages[i])'
      BY <1>1, <1>2, <1>4, <1>5 DEF IsMessage
    <2>2. \A i \in 1 .. n : d[i].no # 0 => d[i] = messages[i]
      BY <1>5
    <2>3. \A i, j \in 1 .. n : d[i].no = d[j].no /\ d[i].role = d[j].role /\ d[i].no # 0 => i = j
      BY <1>2, <2>2 DEF TalkInv, MessagesInOrder
    <2>4. begun' \in Nat /\ IsList(messages')
      BY <1>1, <1>2, <1>4 DEF TalkInv, MessagesInOrder
    <2> QED BY <1>2, <1>4, <2>1, <2>3, <2>4 DEF MessagesInOrder
  <1>7. ASSUME NEW r \in Chatters PROVE ChatFits(chats[r])'
    <2>1. PICK c : c = chats[r] /\ c = chats'[r] /\ ChatFits(c)
      BY <1>1 DEF TalkInv, ChatsInOrder
    <2>2. \A i \in 1 .. n : d[i].no # 0 => d[i] = messages[i]
      BY <1>5
    <2>3. c.op # "none" => c.no # 0 /\ c.no \in 1 .. begun'
      <3>1. c.op # "none" => c.no \in 1 .. begun
        BY <2>1 DEF ChatFits
      <3>2. begun \in Nat
        BY DEF TalkInv, MessagesInOrder
      <3>3. \A k \in 1 .. begun : k # 0
        BY <3>2
      <3>4. begun' = begun
        BY <1>1
      <3> QED BY <3>1, <3>3, <3>4
    <2>4. ChatFits(c)'
      BY <1>1, <1>2, <1>4, <2>1, <2>2, <2>3 DEF ChatFits
    <2> QED BY <2>1, <2>4 DEF ChatFits
  <1>8. ChatsInOrder'
    BY <1>1, <1>7 DEF TalkInv, ChatsInOrder, Busy
  <1>9. QuestionsStandLast'
    <2> SUFFICES ASSUME NEW q \in Chatters, Busy(q)', ~chats'[q].crossed, chats'[q].session \in opened' PROVE Alone(q)'
      BY DEF QuestionsStandLast
    <2>1. PICK c : c = chats[q] /\ c = chats'[q] /\ c.session # s /\ Alone(q) /\ Busy(q)
      BY <1>1 DEF TalkInv, QuestionsStandLast, Busy
    <2>2. \A i \in 1 .. n : d[i].session = c.session \/ messages[i].session = c.session => d[i] = messages[i]
      BY <1>5, <2>1
    <2>3. c.op \in {"asks", "reads"} => QuestionIsLast(c)'
      BY <1>2, <1>4, <2>1, <2>2 DEF Alone, QuestionIsLast
    <2>4. chats[q].op \in {"asks", "reads"} => QuestionIsLast(chats[q])'
      BY <2>1, <2>3 DEF QuestionIsLast
    <2> QED BY <1>1, <2>1, <2>4 DEF Alone, Busy
  <1>10. ASSUME NEW r \in Chatters PROVE AskedRight(chats[r])'
    <2>1. PICK c : c = chats[r] /\ c = chats'[r] /\ AskedRight(c)
      BY <1>1 DEF TalkInv
    <2>2. AskedRight(c)'
      BY <1>1, <2>1 DEF AskedRight
    <2> QED BY <2>1, <2>2 DEF AskedRight
  <1>11. TalkInv'
    BY <1>6, <1>8, <1>9, <1>10 DEF TalkInv
  <1> QED BY <1>2, <1>4, <1>5, <1>11

LEMMA TalkStarts == ChatInit => TalkInv
  <1> SUFFICES ASSUME ChatInit PROVE TalkInv
    OBVIOUS
  <1>1. MessagesInOrder
    BY EmptyList DEF ChatInit, MessagesInOrder
  <1>2. chats = [r \in Chatters |-> NoChat] /\ chats = [r \in Chatters |-> chats[r]] /\ \A r \in Chatters : chats[r] = NoChat
    BY DEF ChatInit
  <1>3. ChatsInOrder
    BY <1>2, NoChatFits, NoChatIsChat DEF ChatsInOrder, Busy
  <1>4. QuestionsStandLast
    BY <1>2, NoChatIsChat DEF QuestionsStandLast, Busy
  <1> QED BY <1>1, <1>2, <1>3, <1>4, NoChatFits DEF TalkInv

LEMMA TalkSteps == TalkInv /\ [ChatNext]_chatVars => TalkInv'
  <1> SUFFICES ASSUME TalkInv, [ChatNext]_chatVars PROVE TalkInv'
    OBVIOUS
  <1>1. ASSUME NEW r \in Chatters,
               \/ \E s \in ChatSession, f \in Uploads \cup {0} : BeginChat(r, s, f)
               \/ AskQuestion(r) \/ ReadHistory(r) \/ AppendAnswer(r) \/ PrepareFails(r)
               \/ UsageTold(r) \/ EndStream(r) \/ CutOff(r)
        PROVE  TalkInv'
    BY <1>1, BeginningTalks, AskingTalks, ReadingTalks, AppendingTalks, LeavingTalks, UsageTalks, EndingTalks
  <1>2. ASSUME NEW s \in ChatSession, CreateChatSession(s) \/ DeleteChatSession(s) PROVE TalkInv'
    BY <1>2, SessionsTalk, DeletingTalks
  <1>3. CASE UNCHANGED <<opened, messages, chats, begun>>
    BY <1>3, AttachmentsTalk
  <1>4. ASSUME NEW f \in Uploads, DeleteAttachment(f) PROVE TalkInv'
    BY <1>3, <1>4 DEF DeleteAttachment
  <1>5. CASE UNCHANGED chatVars
    BY <1>3, <1>5 DEF chatVars
  <1> QED BY <1>1, <1>2, <1>4, <1>5 DEF ChatNext

\* ---- what answers cost ----
IsCost(f) == IsFiniteSet(DOMAIN f) /\ \A x \in DOMAIN f : f[x] \in Nat

LEMMA UnitsAre ==
  ASSUME NEW f, NEW x, NEW k
  PROVE  <<x, k>> \in Units(f) <=> x \in DOMAIN f /\ k \in 1 .. f[x]
  BY DEF Units

LEMMA UnitsPairs ==
  ASSUME NEW f, NEW p \in Units(f)
  PROVE  \E x \in DOMAIN f : \E k \in 1 .. f[x] : p = <<x, k>>
  BY DEF Units

LEMMA SumIsNat ==
  ASSUME NEW f, IsCost(f)
  PROVE  IsFiniteSet(Units(f)) /\ Sum(f) \in Nat
  <1>1. PICK D : D = DOMAIN f /\ IsFiniteSet(D)
    BY DEF IsCost
  <1>2. PICK g : g = [x \in D |-> {x} \X (1 .. f[x])]
    OBVIOUS
  <1>3. PICK T : T = {{x} \X (1 .. f[x]) : x \in D}
    OBVIOUS
  <1>4. g \in Surjection(D, T)
    BY <1>2, <1>3 DEF Surjection
  <1>5. IsFiniteSet(T)
    BY <1>1, <1>4, FS_Surjection
  <1>6. ASSUME NEW S \in T PROVE IsFiniteSet(S)
    <2>1. PICK x \in D : S = {x} \X (1 .. f[x])
      BY <1>3
    <2>2. IsFiniteSet({x}) /\ IsFiniteSet(1 .. f[x])
      <3>1. f[x] \in Int /\ 1 \in Int
        BY <1>1 DEF IsCost
      <3> QED BY <3>1, FS_Singleton, FS_Interval
    <2> QED BY <2>1, <2>2, FS_Product
  <1>7. IsFiniteSet(UNION T)
    BY <1>5, <1>6, FS_UNION
  <1>8. Units(f) = UNION T
    BY <1>1, <1>3 DEF Units
  <1> QED BY <1>7, <1>8, FS_CardinalityType DEF Sum

\* One more bill of at most p.
LEMMA SumGrows ==
  ASSUME NEW f, NEW g, IsCost(f), IsCost(g), NEW y, NEW p \in Nat,
         \A x \in DOMAIN f : f[x] = 0 \/ (x \in DOMAIN g /\ f[x] = g[x]) \/ (x = y /\ f[x] <= p)
  PROVE  Sum(f) <= Sum(g) + p
  <1>1. PICK U, V, W : U = Units(f) /\ V = Units(g) /\ W = {y} \X (1 .. p)
    OBVIOUS
  <1>2. IsFiniteSet(U) /\ IsFiniteSet(V) /\ Sum(f) = Cardinality(U) /\ Sum(g) = Cardinality(V) /\ Sum(f) \in Nat /\ Sum(g) \in Nat
    BY <1>1, SumIsNat DEF Sum
  <1>3. IsFiniteSet(W) /\ Cardinality(W) = p
    <2>1. IsFiniteSet({y}) /\ Cardinality({y}) = 1
      BY FS_Singleton
    <2>2. IsFiniteSet(1 .. p) /\ Cardinality(1 .. p) = p
      BY FS_Interval
    <2>3. IsFiniteSet(W) /\ Cardinality(W) = 1 * p
      BY <1>1, <2>1, <2>2, FS_Product, ZenonT(40)
    <2> QED BY <2>3
  <1>4. U \subseteq V \cup W
    <2> SUFFICES ASSUME NEW q \in U PROVE q \in V \cup W
      OBVIOUS
    <2>1. PICK x \in DOMAIN f : \E k \in 1 .. f[x] : q = <<x, k>>
      BY <1>1, UnitsPairs
    <2>2. PICK k \in 1 .. f[x] : q = <<x, k>>
      BY <2>1
    <2>3. f[x] \in Nat /\ f[x] # 0
      BY <2>2 DEF IsCost
    <2>4. CASE x \in DOMAIN g /\ f[x] = g[x]
      BY <1>1, <2>2, <2>4, UnitsAre
    <2>5. CASE x = y /\ f[x] <= p
      BY <1>1, <2>2, <2>3, <2>5
    <2> QED BY <2>3, <2>4, <2>5
  <1>5. IsFiniteSet(V \cup W) /\ Cardinality(V \cup W) <= Cardinality(V) + Cardinality(W)
    <2>1. IsFiniteSet(V \cap W) /\ Cardinality(V \cap W) \in Nat
      BY <1>2, FS_Intersection, FS_CardinalityType
    <2>2. Cardinality(V \cup W) = Cardinality(V) + Cardinality(W) - Cardinality(V \cap W) /\ IsFiniteSet(V \cup W)
      BY <1>2, <1>3, FS_Union
    <2> QED BY <1>2, <1>3, <2>1, <2>2
  <1>6. Cardinality(U) <= Cardinality(V \cup W) /\ Cardinality(V \cup W) \in Nat
    BY <1>4, <1>5, FS_Subset, FS_CardinalityType
  <1> QED BY <1>2, <1>3, <1>5, <1>6

AnswersOf(u) == {i \in DOMAIN messages : messages[i].shown /\ messages[i].role = "assistant" /\ OwnerOf[messages[i].session] = u}

LEMMA BilledAre ==
  ASSUME TalkInv, NEW u
  PROVE  /\ DOMAIN BilledTo(u) = AnswersOf(u)
         /\ \A i \in AnswersOf(u) : BilledTo(u)[i] = messages[i].cost
         /\ IsCost(BilledTo(u)) /\ IsCost(Billed)
         /\ \A i \in DOMAIN Billed : i \in DOMAIN messages /\ Billed[i] = messages[i].cost
  <1>1. PICK n \in Nat : DOMAIN messages = 1 .. n
    BY MessagesLength DEF TalkInv
  <1>2. IsFiniteSet(1 .. n)
    BY FS_Interval
  <1>3. /\ DOMAIN Billed = {j \in 1 .. n : messages[j].shown /\ messages[j].role = "assistant"}
        /\ \A i \in DOMAIN Billed : Billed[i] = messages[i].cost
    BY <1>1 DEF Billed, Rows
  <1>4. DOMAIN BilledTo(u) = AnswersOf(u) /\ \A i \in AnswersOf(u) : BilledTo(u)[i] = messages[i].cost
    BY <1>1, <1>3 DEF BilledTo, AnswersOf
  <1>5. \A i \in 1 .. n : messages[i].cost \in Nat
    BY <1>1 DEF TalkInv, MessagesInOrder, IsMessage
  <1>6. IsFiniteSet(DOMAIN Billed) /\ IsFiniteSet(AnswersOf(u))
    <2>1. DOMAIN Billed \subseteq 1 .. n /\ AnswersOf(u) \subseteq 1 .. n
      BY <1>1, <1>3 DEF AnswersOf
    <2> QED BY <1>2, <2>1, FS_Subset
  <1>7. IsCost(BilledTo(u))
    BY <1>1, <1>4, <1>5, <1>6 DEF IsCost, AnswersOf
  <1>8. IsCost(Billed)
    BY <1>3, <1>5, <1>6 DEF IsCost
  <1> QED BY <1>1, <1>3, <1>4, <1>7, <1>8

\* A step that fills in the answers A of u, at p at most, charges u for no more than that.
LEMMA UsageGrows ==
  ASSUME TalkInv, TalkInv', NEW u \in DOMAIN MediaCost, NEW y, NEW p \in Nat,
         \A i \in AnswersOf(u)' : messages'[i].cost = 0 \/ (i \in AnswersOf(u) /\ messages'[i].cost = messages[i].cost)
                                  \/ (i = y /\ messages'[i].cost <= p)
  PROVE  Usage(u)' <= Usage(u) + p /\ Usage(u)' \in Nat /\ Usage(u) \in Nat
  <1>1. PICK f, g : f = BilledTo(u) /\ g = BilledTo(u)'
    OBVIOUS
  <1>2. DOMAIN f = AnswersOf(u) /\ (\A i \in AnswersOf(u) : f[i] = messages[i].cost) /\ IsCost(f)
    BY <1>1, BilledAre
  <1>3. (DOMAIN BilledTo(u) = AnswersOf(u) /\ (\A i \in AnswersOf(u) : BilledTo(u)[i] = messages[i].cost) /\ IsCost(BilledTo(u)))'
    BY BilledAre, PTL
  <1>4. DOMAIN g = AnswersOf(u)' /\ (\A i \in AnswersOf(u)' : g[i] = messages'[i].cost) /\ IsCost(g)
    BY <1>1, <1>3 DEF IsCost
  <1>5. \A x \in DOMAIN g : g[x] = 0 \/ (x \in DOMAIN f /\ g[x] = f[x]) \/ (x = y /\ g[x] <= p)
    BY <1>2, <1>4
  <1>6. Sum(g) <= Sum(f) + p /\ Sum(g) \in Nat /\ Sum(f) \in Nat
    <2>1. IsCost(f) /\ IsCost(g)
      BY <1>2, <1>4
    <2>2. Sum(g) \in Nat /\ Sum(f) \in Nat
      BY <2>1, SumIsNat
    <2>3. Sum(g) <= Sum(f) + p
      BY <2>1, <1>5, SumGrows, SMTT(30)
    <2> QED BY <2>2, <2>3
  <1>7. MediaCost[u] \in Nat
    BY ChatAssumption
  <1>8. Usage(u) = MediaCost[u] + Sum(f) /\ Usage(u)' = MediaCost[u] + Sum(g)
    BY <1>1 DEF Usage, Sum, Units
  <1> QED BY <1>6, <1>7, <1>8

LEMMA BusyAreFinite ==
  ASSUME NEW u
  PROVE  /\ IsFiniteSet(BusyOf(u)) /\ Cardinality(BusyOf(u)) \in Nat /\ Cardinality(BusyOf(u)) <= Cardinality(Chatters)
         /\ IsFiniteSet(BusyOf(u)') /\ Cardinality(BusyOf(u)') \in Nat /\ Cardinality(BusyOf(u)') <= Cardinality(Chatters)
         /\ Cardinality(Chatters) \in Nat
  <1>1. IsFiniteSet(Chatters) /\ Cardinality(Chatters) \in Nat
    BY ChatAssumption, FS_CardinalityType
  <1>2. BusyOf(u) \subseteq Chatters /\ BusyOf(u)' \subseteq Chatters
    BY DEF BusyOf
  <1> QED BY <1>1, <1>2, FS_Subset, FS_CardinalityType

LEMMA PriceGrows ==
  ASSUME NEW a \in Nat, NEW b \in Nat, a <= b
  PROVE  Price * a <= Price * b /\ Price * a \in Nat /\ Price * b \in Nat
  <1>1. Price \in Nat
    BY ChatAssumption
  <1> QED BY <1>1

LEMMA BudgetStays ==
  ASSUME TalkInv, TalkInv', BudgetHolds,
         \A u \in DOMAIN MediaCost : \A i \in AnswersOf(u)' : messages'[i].cost = 0 \/ (i \in AnswersOf(u) /\ messages'[i].cost = messages[i].cost),
         \A u \in DOMAIN MediaCost : BusyOf(u)' \subseteq BusyOf(u) \/ Usage(u) < ChatQuota
  PROVE  BudgetHolds'
  <1> SUFFICES ASSUME NEW u \in DOMAIN MediaCost, MediaCost[u] < ChatQuota
               PROVE  Usage(u)' + Price * Cardinality(BusyOf(u)') < ChatQuota + Price * Cardinality(Chatters)
    BY DEF BudgetHolds
  <1>1. Usage(u)' <= Usage(u) + 0 /\ Usage(u)' \in Nat /\ Usage(u) \in Nat
    BY UsageGrows
  <1>2. PICK a, b, n : /\ a = Cardinality(BusyOf(u)) /\ b = Cardinality(BusyOf(u)') /\ n = Cardinality(Chatters)
                       /\ a \in Nat /\ b \in Nat /\ n \in Nat /\ a <= n /\ b <= n
    BY BusyAreFinite
  <1>3. ChatQuota \in Nat
    BY ChatAssumption
  <1>4. CASE Usage(u) < ChatQuota
    <2>1. Price * b <= Price * n /\ Price * b \in Nat /\ Price * n \in Nat
      BY <1>2, PriceGrows
    <2> QED BY <1>1, <1>2, <1>3, <1>4, <2>1
  <1>5. CASE BusyOf(u)' \subseteq BusyOf(u)
    <2>1. b <= a
      BY <1>2, <1>5, BusyAreFinite, FS_Subset
    <2>2. Price * b <= Price * a /\ Price * b \in Nat /\ Price * a \in Nat /\ Price * n \in Nat
      BY <1>2, <2>1, PriceGrows
    <2>3. Usage(u) + Price * a < ChatQuota + Price * n
      BY <1>2 DEF BudgetHolds
    <2> QED BY <1>1, <1>2, <1>3, <2>2, <2>3
  <1> QED BY <1>4, <1>5

LEMMA BusyStay ==
  ASSUME TalkInv, NEW r \in Chatters, NEW u,
         ReadHistory(r) \/ AskQuestion(r) \/ AppendAnswer(r) \/ PrepareFails(r) \/ UsageTold(r) \/ CutOff(r)
  PROVE  BusyOf(u)' \subseteq BusyOf(u)
  <1>1. PICK c : c = chats[r] /\ IsChat(c)
    BY DEF TalkInv, ChatsInOrder, ChatFits
  <1>2. PICK e : chats' = [chats EXCEPT ![r] = e] /\ (e = NoChat \/ (Busy(r) /\ e.session = c.session))
    <2>1. CASE AskQuestion(r)
      <3>1. PICK op, e : e = [c EXCEPT !.op = op] /\ chats' = [chats EXCEPT ![r] = e] /\ Busy(r)
        BY <1>1, <2>1 DEF AskQuestion, Busy
      <3>2. e.session = c.session
        BY <1>1, <3>1 DEF IsChat
      <3> QED BY <3>1, <3>2
    <2>2. CASE AppendAnswer(r)
      <3>1. PICK op, e : e = [c EXCEPT !.op = op] /\ chats' = [chats EXCEPT ![r] = e] /\ Busy(r)
        BY <1>1, <2>2 DEF AppendAnswer, Busy
      <3>2. e.session = c.session
        BY <1>1, <3>1 DEF IsChat
      <3> QED BY <3>1, <3>2
    <2>3. CASE UsageTold(r)
      <3>1. PICK usage, e : e = [c EXCEPT !.usage = usage] /\ chats' = [chats EXCEPT ![r] = e] /\ Busy(r)
        BY <1>1, <2>3 DEF UsageTold, Busy
      <3>2. e.session = c.session
        BY <1>1, <3>1 DEF IsChat
      <3> QED BY <3>1, <3>2
    <2>4. CASE ReadHistory(r)
      <3>1. PICK op, a, e : e = [c EXCEPT !.op = op, !.asked = a] /\ chats' = [chats EXCEPT ![r] = e] /\ Busy(r)
        BY <1>1, <2>4 DEF ReadHistory, Busy
      <3>2. e.session = c.session
        BY <1>1, <3>1 DEF IsChat
      <3> QED BY <3>1, <3>2
    <2>5. CASE PrepareFails(r) \/ CutOff(r)
      BY <2>5 DEF PrepareFails, CutOff
    <2> QED BY <2>1, <2>2, <2>3, <2>4, <2>5
  <1>3. chats'[r] = e /\ \A q \in Chatters \ {r} : chats'[q] = chats[q]
    BY <1>2 DEF TalkInv, ChatsInOrder
  <1> QED BY <1>1, <1>2, <1>3, NoChatIsChat DEF BusyOf, Busy

LEMMA EndingBills ==
  ASSUME TalkInv, BudgetHolds, NEW r \in Chatters, EndStream(r)
  PROVE  BudgetHolds'
  <1>1. PICK c, v : c = chats[r] /\ Busy(r) /\ c.op # "none" /\ c.session \in ChatSession /\ v = OwnerOf[c.session] /\ ChatFits(c)
    BY DEF EndStream, TalkInv, ChatsInOrder, ChatFits, Busy
  <1>2. TalkInv'
    BY EndingTalks
  <1>3. PICK M : /\ Touches(messages', M) /\ M = Named(c.no, "assistant")
                 /\ \A i \in M : messages'[i].shown = messages[i].shown /\ messages'[i].cost \in {0, Price}
    BY <1>1, EndingTalks
  <1>4. \A i, k \in M : i = k
    <2>1. c.no \in Nat \ {0} /\ MessagesInOrder
      BY <1>1 DEF ChatFits, TalkInv, MessagesInOrder
    <2> QED BY <1>3, <2>1, OneOfName
  <1>5. PICK y : \A i \in M : i = y
    BY <1>4
  <1>6. \A i \in M : messages[i].session = c.session /\ messages[i].role = "assistant"
    BY <1>1, <1>3 DEF ChatFits, Named
  <1>7. chats' = [chats EXCEPT ![r] = NoChat]
    BY DEF EndStream
  <1>8. BusyOf(v)' \subseteq BusyOf(v) \ {r} /\ r \in BusyOf(v) /\ \A u : BusyOf(u)' \subseteq BusyOf(u)
    BY <1>1, <1>7, NoChatIsChat DEF BusyOf, Busy, TalkInv, ChatsInOrder
  <1>9. Price \in Nat /\ ChatQuota \in Nat
    BY ChatAssumption
  <1> SUFFICES ASSUME NEW u \in DOMAIN MediaCost, MediaCost[u] < ChatQuota
               PROVE  Usage(u)' + Price * Cardinality(BusyOf(u)') < ChatQuota + Price * Cardinality(Chatters)
    BY DEF BudgetHolds
  <1>10. PICK a, b, n : /\ a = Cardinality(BusyOf(u)) /\ b = Cardinality(BusyOf(u)') /\ n = Cardinality(Chatters)
                        /\ a \in Nat /\ b \in Nat /\ n \in Nat /\ a <= n /\ b <= n
    BY BusyAreFinite
  <1>11. Usage(u) + Price * a < ChatQuota + Price * n
    BY <1>10 DEF BudgetHolds
  <1>12. \A i \in AnswersOf(u)' : i \in DOMAIN messages /\ messages'[i].session = messages[i].session /\ messages'[i].role = messages[i].role
                                  /\ OwnerOf[messages[i].session] = u /\ messages'[i].shown /\ messages[i].role = "assistant"
                                  /\ (i \in M \/ messages'[i] = messages[i])
    BY <1>3 DEF AnswersOf, Touches
  <1>13. CASE u = v
    <2>1. \A i \in AnswersOf(u)' : \/ messages'[i].cost = 0
                                   \/ (i \in AnswersOf(u) /\ messages'[i].cost = messages[i].cost)
                                   \/ (i = y /\ messages'[i].cost <= Price)
      BY <1>3, <1>5, <1>9, <1>12 DEF AnswersOf
    <2>2. Usage(u)' <= Usage(u) + Price /\ Usage(u)' \in Nat /\ Usage(u) \in Nat
      <3>1. PICK p : p = Price /\ p \in Nat
        BY <1>9
      <3>2. \A i \in AnswersOf(u)' : messages'[i].cost = 0 \/ (i \in AnswersOf(u) /\ messages'[i].cost = messages[i].cost)
                                     \/ (i = y /\ messages'[i].cost <= p)
        BY <2>1, <3>1
      <3>3. Usage(u)' <= Usage(u) + p /\ Usage(u)' \in Nat /\ Usage(u) \in Nat
        BY <1>2, <3>1, <3>2, UsageGrows
      <3> QED BY <3>1, <3>3
    <2>3. b <= a - 1
      <3>1. IsFiniteSet(BusyOf(u) \ {r}) /\ Cardinality(BusyOf(u) \ {r}) = a - 1
        BY <1>8, <1>10, <1>13, BusyAreFinite, FS_RemoveElement
      <3> QED BY <1>8, <1>10, <1>13, <3>1, FS_Subset
    <2>4. PICK k \in Nat : a = k + 1 /\ b <= k
      <3>1. a - 1 \in Nat /\ a = (a - 1) + 1
        BY <1>10, <2>3
      <3> QED BY <2>3, <3>1
    <2>5. Price * b <= Price * k /\ Price * b \in Nat /\ Price * k \in Nat /\ Price * n \in Nat /\ Price * a \in Nat
      BY <1>10, <2>4, PriceGrows
    <2>6. Price * a = Price * k + Price
      BY <1>9, <2>4
    <2> QED BY <1>9, <1>10, <1>11, <2>2, <2>5, <2>6
  <1>14. CASE u # v
    <2>1. \A i \in AnswersOf(u)' : i \notin M
      BY <1>1, <1>6, <1>12, <1>14
    <2>2. \A i \in AnswersOf(u)' : \/ messages'[i].cost = 0
                                   \/ (i \in AnswersOf(u) /\ messages'[i].cost = messages[i].cost)
                                   \/ (i = y /\ messages'[i].cost <= 0)
      BY <1>12, <2>1 DEF AnswersOf
    <2>3. Usage(u)' <= Usage(u) + 0 /\ Usage(u)' \in Nat /\ Usage(u) \in Nat
      <3>1. PICK p : p = 0 /\ p \in Nat
        OBVIOUS
      <3>2. \A i \in AnswersOf(u)' : messages'[i].cost = 0 \/ (i \in AnswersOf(u) /\ messages'[i].cost = messages[i].cost)
                                     \/ (i = y /\ messages'[i].cost <= p)
        BY <2>2, <3>1
      <3>3. Usage(u)' <= Usage(u) + p /\ Usage(u)' \in Nat /\ Usage(u) \in Nat
        BY <1>2, <3>1, <3>2, UsageGrows
      <3> QED BY <3>1, <3>3
    <2>4. b <= a
      BY <1>8, <1>10, BusyAreFinite, FS_Subset
    <2>5. Price * b <= Price * a /\ Price * b \in Nat /\ Price * a \in Nat /\ Price * n \in Nat
      BY <1>10, <2>4, PriceGrows
    <2> QED BY <1>9, <1>10, <1>11, <2>3, <2>5
  <1> QED BY <1>13, <1>14

\* A step that shows no answer anew but an empty one charges nobody.
LEMMA NothingCharged ==
  ASSUME TalkInv, TalkInv', BudgetHolds,
         \A i \in DOMAIN messages' :
           \/ ~messages'[i].shown \/ messages'[i].role # "assistant" \/ messages'[i].cost = 0
           \/ (i \in DOMAIN messages /\ messages'[i] = messages[i]),
         \A u \in DOMAIN MediaCost : BusyOf(u)' \subseteq BusyOf(u) \/ Usage(u) < ChatQuota
  PROVE  BudgetHolds'
  <1>1. \A u \in DOMAIN MediaCost : \A i \in AnswersOf(u)' :
          messages'[i].cost = 0 \/ (i \in AnswersOf(u) /\ messages'[i].cost = messages[i].cost)
    BY DEF AnswersOf
  <1> QED BY <1>1, BudgetStays

LEMMA BeginningBudget ==
  ASSUME TalkInv, BudgetHolds, NEW r \in Chatters, NEW s \in ChatSession, NEW f, BeginChat(r, s, f)
  PROVE  BudgetHolds'
  <1>1. /\ TalkInv'
        /\ \A i \in DOMAIN messages : messages'[i] = messages[i]
        /\ \A i \in DOMAIN messages' \ DOMAIN messages : ~messages'[i].shown
        /\ ~Busy(r) /\ \A q \in Chatters \ {r} : Busy(q)' => Busy(q) /\ chats'[q].session = chats[q].session
        /\ chats'[r].session = s
    BY BeginningTalks
  <1>2. Usage(OwnerOf[s]) < ChatQuota
    BY DEF BeginChat, QuotaLeft
  <1>3. ASSUME NEW u \in DOMAIN MediaCost, u # OwnerOf[s] PROVE BusyOf(u)' \subseteq BusyOf(u)
    BY <1>1, <1>3 DEF BusyOf
  <1> QED BY <1>1, <1>2, <1>3, NothingCharged

LEMMA ServingBudget ==
  ASSUME TalkInv, BudgetHolds, NEW r \in Chatters,
         ReadHistory(r) \/ AskQuestion(r) \/ AppendAnswer(r) \/ PrepareFails(r) \/ UsageTold(r) \/ CutOff(r)
  PROVE  BudgetHolds'
  <1>1. \A u \in DOMAIN MediaCost : BusyOf(u)' \subseteq BusyOf(u)
    BY BusyStay
  <1>2. CASE AskQuestion(r)
    BY <1>1, <1>2, AskingTalks, NothingCharged
  <1>3. CASE AppendAnswer(r)
    BY <1>1, <1>3, AppendingTalks, NothingCharged
  <1>4. CASE ReadHistory(r) \/ PrepareFails(r) \/ UsageTold(r) \/ CutOff(r)
    <2>1. messages' = messages
      BY <1>4 DEF ReadHistory, PrepareFails, UsageTold, CutOff
    <2>2. TalkInv'
      BY <1>4, ReadingTalks, LeavingTalks, UsageTalks
    <2> QED BY <1>1, <2>1, <2>2, NothingCharged
  <1> QED BY <1>2, <1>3, <1>4

LEMMA KeepingBudget ==
  ASSUME TalkInv, BudgetHolds,
         \/ \E s \in ChatSession : CreateChatSession(s) \/ DeleteChatSession(s)
         \/ UNCHANGED <<opened, messages, chats, begun>>
  PROVE  BudgetHolds'
  <1>1. chats' = chats
    BY DEF CreateChatSession, DeleteChatSession
  <1>2. \A u \in DOMAIN MediaCost : BusyOf(u)' \subseteq BusyOf(u)
    BY <1>1 DEF BusyOf, Busy
  <1>3. ASSUME NEW s \in ChatSession, DeleteChatSession(s) PROVE BudgetHolds'
    BY <1>2, <1>3, DeletingTalks, NothingCharged
  <1>4. ASSUME NEW s \in ChatSession, CreateChatSession(s) PROVE BudgetHolds'
    <2>1. messages' = messages
      BY <1>4 DEF CreateChatSession
    <2> QED BY <1>2, <1>4, <2>1, SessionsTalk, NothingCharged
  <1>5. CASE UNCHANGED <<opened, messages, chats, begun>>
    BY <1>2, <1>5, AttachmentsTalk, NothingCharged
  <1> QED BY <1>3, <1>4, <1>5

LEMMA BudgetSteps == TalkInv /\ BudgetHolds /\ [ChatNext]_chatVars => BudgetHolds'
  <1> SUFFICES ASSUME TalkInv, BudgetHolds, [ChatNext]_chatVars PROVE BudgetHolds'
    OBVIOUS
  <1>1. ASSUME NEW r \in Chatters,
               \/ \E s \in ChatSession, f \in Uploads \cup {0} : BeginChat(r, s, f)
               \/ AskQuestion(r) \/ ReadHistory(r) \/ AppendAnswer(r) \/ PrepareFails(r)
               \/ UsageTold(r) \/ EndStream(r) \/ CutOff(r)
        PROVE  BudgetHolds'
    BY <1>1, BeginningBudget, ServingBudget, EndingBills
  <1>2. ASSUME NEW f \in Uploads, DeleteAttachment(f) PROVE UNCHANGED <<opened, messages, chats, begun>>
    BY <1>2 DEF DeleteAttachment
  <1>3. CASE UNCHANGED chatVars
    BY <1>3, KeepingBudget DEF chatVars
  <1> QED BY <1>1, <1>2, <1>3, KeepingBudget DEF ChatNext

LEMMA BudgetStarts == ChatInit => BudgetHolds
  <1> SUFFICES ASSUME ChatInit, NEW u \in DOMAIN MediaCost, MediaCost[u] < ChatQuota
               PROVE  Usage(u) + Price * Cardinality(BusyOf(u)) < ChatQuota + Price * Cardinality(Chatters)
    BY DEF BudgetHolds
  <1>1. TalkInv
    BY TalkStarts
  <1>2. BusyOf(u) = {}
    BY NoChatIsChat DEF ChatInit, BusyOf, Busy
  <1>3. AnswersOf(u) = {}
    BY EmptyList DEF ChatInit, AnswersOf
  <1>4. Units(BilledTo(u)) = {}
    BY <1>1, <1>3, BilledAre DEF Units
  <1>5. Usage(u) = MediaCost[u] + 0
    BY <1>4, FS_EmptySet DEF Usage, Sum
  <1>6. Price \in Nat /\ ChatQuota \in Nat /\ MediaCost[u] \in Nat /\ Cardinality(Chatters) \in Nat
    BY ChatAssumption, BusyAreFinite
  <1>7. Price * 0 <= Price * Cardinality(Chatters) /\ Price * Cardinality(Chatters) \in Nat
    BY <1>6, PriceGrows
  <1>8. Cardinality(BusyOf(u)) = 0
    BY <1>2, FS_EmptySet
  <1> QED BY <1>5, <1>6, <1>7, <1>8

LEMMA SumsAdd ==
  ASSUME NEW f, NEW g, NEW h, IsCost(f), IsCost(g), DOMAIN g = DOMAIN f,
         \A x \in DOMAIN h : x \in DOMAIN f /\ h[x] = f[x] + g[x],
         \A x \in DOMAIN f \ DOMAIN h : f[x] + g[x] = 0
  PROVE  Sum(h) = Sum(f) + Sum(g)
  <1>1. PICK U, V, W : U = Units(f) /\ V = Units(g) /\ W = Units(h)
    OBVIOUS
  <1>2. IsFiniteSet(U) /\ IsFiniteSet(V) /\ Sum(f) = Cardinality(U) /\ Sum(g) = Cardinality(V) /\ Sum(f) \in Nat /\ Sum(g) \in Nat
    BY <1>1, SumIsNat DEF Sum
  <1>3. \A x \in DOMAIN f : f[x] \in Nat /\ g[x] \in Nat
    BY DEF IsCost
  <1>4. PICK F : F = [p \in V |-> <<p[1], f[p[1]] + p[2]>>]
    OBVIOUS
  <1>5. ASSUME NEW p \in V
        PROVE  \E x \in DOMAIN f : \E k \in 1 .. g[x] : p = <<x, k>> /\ F[p] = <<x, f[x] + k>> /\ k \in Nat /\ k > 0
    <2>1. PICK x \in DOMAIN g : \E k \in 1 .. g[x] : p = <<x, k>>
      BY <1>1, UnitsPairs
    <2>2. PICK k \in 1 .. g[x] : p = <<x, k>>
      BY <2>1
    <2> QED BY <1>3, <1>4, <2>2
  <1>6. PICK T : T = {F[p] : p \in V}
    OBVIOUS
  <1>7. F \in Bijection(V, T)
    <2>1. F \in [V -> T]
      BY <1>4, <1>6
    <2>2. ASSUME NEW p \in V, NEW q \in V, F[p] = F[q] PROVE p = q
      <3>1. PICK x, k : x \in DOMAIN f /\ k \in 1 .. g[x] /\ p = <<x, k>> /\ F[p] = <<x, f[x] + k>> /\ k \in Nat
        BY <1>5
      <3>2. PICK y, l : y \in DOMAIN f /\ l \in 1 .. g[y] /\ q = <<y, l>> /\ F[q] = <<y, f[y] + l>> /\ l \in Nat
        BY <1>5
      <3>3. x = y /\ f[x] + k = f[y] + l
        BY <2>2, <3>1, <3>2
      <3>4. k = l
        BY <1>3, <3>1, <3>2, <3>3
      <3> QED BY <3>1, <3>2, <3>3, <3>4
    <2>3. \A t \in T : \E p \in V : F[p] = t
      BY <1>6
    <2> QED BY <2>1, <2>2, <2>3, Fun_IsBij
  <1>8. IsFiniteSet(T) /\ Cardinality(T) = Cardinality(V)
    BY <1>2, <1>7, FS_Bijection, Fun_ExistsBij
  <1>9. U \cap T = {}
    <2> SUFFICES ASSUME NEW t \in U, t \in T PROVE FALSE
      OBVIOUS
    <2>1. PICK p \in V : t = F[p]
      BY <1>6
    <2>2. PICK x, k : x \in DOMAIN f /\ k \in 1 .. g[x] /\ F[p] = <<x, f[x] + k>> /\ k \in Nat /\ k > 0
      BY <1>5
    <2>3. f[x] + k \in 1 .. f[x]
      BY <1>1, <2>1, <2>2, UnitsAre
    <2> QED BY <1>3, <2>2, <2>3
  <1>10. W = U \cup T
    <2>1. ASSUME NEW w \in W PROVE w \in U \cup T
      <3>1. PICK x \in DOMAIN h : \E k \in 1 .. h[x] : w = <<x, k>>
        BY <1>1, UnitsPairs
      <3>2. PICK k \in 1 .. h[x] : w = <<x, k>>
        BY <3>1
      <3>3. x \in DOMAIN f /\ h[x] = f[x] + g[x] /\ f[x] \in Nat /\ g[x] \in Nat
        BY <1>3
      <3>4. CASE k <= f[x]
        <4>1. k \in 1 .. f[x]
          BY <3>2, <3>3, <3>4
        <4> QED BY <1>1, <3>2, <3>3, <4>1, UnitsAre
      <3>5. CASE k > f[x]
        <4>1. PICK l \in 1 .. g[x] : k = f[x] + l
          <5>1. k - f[x] \in 1 .. g[x] /\ k = f[x] + (k - f[x])
            BY <3>2, <3>3, <3>5
          <5> QED BY <5>1
        <4>2. <<x, l>> \in V
          BY <1>1, <3>3, <4>1, UnitsAre
        <4>3. F[<<x, l>>] = w
          BY <1>4, <3>2, <4>1, <4>2
        <4> QED BY <1>6, <4>2, <4>3
      <3> QED BY <3>2, <3>3, <3>4, <3>5
    <2>2. ASSUME NEW u \in U PROVE u \in W
      <3>1. PICK x \in DOMAIN f : \E k \in 1 .. f[x] : u = <<x, k>>
        BY <1>1, UnitsPairs
      <3>2. PICK k \in 1 .. f[x] : u = <<x, k>>
        BY <3>1
      <3>3. f[x] \in Nat /\ g[x] \in Nat /\ f[x] + g[x] # 0
        BY <1>3, <3>2
      <3>4. x \in DOMAIN h /\ k \in 1 .. h[x]
        BY <3>2, <3>3
      <3> QED BY <1>1, <3>2, <3>4, UnitsAre
    <2>3. ASSUME NEW t \in T PROVE t \in W
      <3>1. PICK p \in V : t = F[p]
        BY <1>6
      <3>2. PICK x, k : x \in DOMAIN f /\ k \in 1 .. g[x] /\ F[p] = <<x, f[x] + k>> /\ k \in Nat /\ k > 0
        BY <1>5
      <3>3. f[x] \in Nat /\ g[x] \in Nat /\ f[x] + g[x] # 0
        BY <1>3, <3>2
      <3>4. x \in DOMAIN h /\ f[x] + k \in 1 .. h[x]
        BY <3>2, <3>3
      <3> QED BY <1>1, <3>1, <3>2, <3>4, UnitsAre
    <2> QED BY <2>1, <2>2, <2>3
  <1>11. Cardinality(W) = Cardinality(U) + Cardinality(T)
    <2>1. Cardinality(U \cap T) = 0
      BY <1>9, FS_EmptySet
    <2>2. Cardinality(U \cup T) = Cardinality(U) + Cardinality(T) - Cardinality(U \cap T)
      BY <1>2, <1>8, FS_Union
    <2> QED BY <1>2, <1>8, <1>10, <2>1, <2>2
  <1>12. Sum(h) = Cardinality(W)
    BY <1>1 DEF Sum
  <1> QED BY <1>2, <1>8, <1>11, <1>12

LEMMA BijectionIs ==
  ASSUME NEW S, NEW P, NEW f \in Bijection(S, P)
  PROVE  f \in [S -> P] /\ (\A x, y \in S : f[x] = f[y] => x = y) /\ (\A t \in P : \E s \in S : f[s] = t)
  BY Fun_BijectionProperties

\* The costs a, divided among D; g is what each part comes to.
Divides(D, part, a, g) ==
  /\ \A u \in D : IsCost(part[u]) /\ \A i \in DOMAIN part[u] : i \in DOMAIN a /\ part[u][i] = a[i]
  /\ \A i \in DOMAIN a : \E u \in D : i \in DOMAIN part[u]
  /\ \A u, v \in D : \A i \in DOMAIN part[u] : i \in DOMAIN part[v] => u = v
  /\ IsCost(g) /\ DOMAIN g = D /\ \A u \in D : g[u] = Sum(part[u])

\* Counted by parts that have nothing in common, and counted at once.
LEMMA SumOfParts ==
  ASSUME NEW D, NEW part, NEW a, NEW g, Divides(D, part, a, g)
  PROVE  Sum(a) = Sum(g)
  <1>0. /\ \A u \in D : IsCost(part[u]) /\ \A i \in DOMAIN part[u] : i \in DOMAIN a /\ part[u][i] = a[i]
        /\ \A i \in DOMAIN a : \E u \in D : i \in DOMAIN part[u]
        /\ \A u, v \in D : \A i \in DOMAIN part[u] : i \in DOMAIN part[v] => u = v
        /\ IsCost(g) /\ DOMAIN g = D /\ \A u \in D : g[u] = Sum(part[u])
    BY DEF Divides
  <1>1. PICK U, V : U = Units(a) /\ V = Units(g)
    OBVIOUS
  <1>2. IsFiniteSet(V)
    BY <1>0, <1>1, SumIsNat
  <1>3. PICK b : b = [u \in D |-> CHOOSE f : f \in Bijection(1 .. g[u], Units(part[u]))]
    OBVIOUS
  <1>4. ASSUME NEW u \in D PROVE b[u] \in Bijection(1 .. g[u], Units(part[u]))
    <2>1. PICK n, P : n = g[u] /\ P = Units(part[u]) /\ n = Cardinality(P) /\ IsFiniteSet(P)
      BY <1>0, SumIsNat DEF Sum
    <2>2. ExistsBijection(1 .. n, P)
      BY <2>1, FS_CardinalityType
    <2>3. Bijection(1 .. n, P) # {}
      BY <2>2, Fun_ExistsBij
    <2>4. PICK f : f \in Bijection(1 .. n, P)
      BY <2>3
    <2> QED BY <1>3, <2>1, <2>4
  <1>5. ASSUME NEW u \in D
        PROVE  /\ \A k \in 1 .. g[u] : b[u][k] \in Units(part[u])
               /\ \A k, l \in 1 .. g[u] : b[u][k] = b[u][l] => k = l
               /\ \A t \in Units(part[u]) : \E k \in 1 .. g[u] : b[u][k] = t
    <2>1. PICK S, P, f : S = 1 .. g[u] /\ P = Units(part[u]) /\ f = b[u] /\ f \in Bijection(S, P)
      BY <1>4
    <2>2. f \in [S -> P] /\ (\A x, y \in S : f[x] = f[y] => x = y) /\ (\A t \in P : \E s \in S : f[s] = t)
      <3>1. f \in Bijection(S, P)
        BY <2>1
      <3> QED BY <3>1, BijectionIs
    <2> QED BY <2>1, <2>2
  <1>6. PICK F : F = [p \in V |-> b[p[1]][p[2]]]
    OBVIOUS
  <1>7. ASSUME NEW p \in V PROVE \E u \in D : \E k \in 1 .. g[u] : p = <<u, k>> /\ F[p] = b[u][k] /\ F[p] \in Units(part[u])
    <2>1. PICK u \in DOMAIN g : \E k \in 1 .. g[u] : p = <<u, k>>
      BY <1>1, UnitsPairs
    <2>2. PICK k \in 1 .. g[u] : p = <<u, k>>
      BY <2>1
    <2> QED BY <1>0, <1>5, <1>6, <2>2
  <1>8. ASSUME NEW u \in D, NEW t \in Units(part[u])
        PROVE  t \in U /\ \E i, k : i \in DOMAIN part[u] /\ t = <<i, k>>
    <2>1. PICK i \in DOMAIN part[u] : \E k \in 1 .. part[u][i] : t = <<i, k>>
      BY UnitsPairs
    <2>2. PICK k \in 1 .. part[u][i] : t = <<i, k>>
      BY <2>1
    <2>3. i \in DOMAIN a /\ k \in 1 .. a[i]
      BY <1>0, <2>2
    <2> QED BY <1>1, <2>2, <2>3, UnitsAre
  <1>9. F \in Bijection(V, U)
    <2>1. F \in [V -> U]
      BY <1>6, <1>7, <1>8
    <2>2. ASSUME NEW p \in V, NEW q \in V, F[p] = F[q] PROVE p = q
      <3>1. PICK u, k : u \in D /\ k \in 1 .. g[u] /\ p = <<u, k>> /\ F[p] = b[u][k] /\ F[p] \in Units(part[u])
        BY <1>7
      <3>2. PICK v, l : v \in D /\ l \in 1 .. g[v] /\ q = <<v, l>> /\ F[q] = b[v][l] /\ F[q] \in Units(part[v])
        BY <1>7
      <3>3. u = v
        <4>1. PICK i, x : i \in DOMAIN part[u] /\ F[p] = <<i, x>>
          BY <1>8, <3>1
        <4>2. PICK j, y : j \in DOMAIN part[v] /\ F[q] = <<j, y>>
          BY <1>8, <3>2
        <4>3. <<i, x>> = <<j, y>>
          BY <2>2, <4>1, <4>2
        <4>4. i = j
          BY <4>3
        <4> QED BY <1>0, <3>1, <3>2, <4>1, <4>2, <4>4
      <3> QED BY <1>5, <2>2, <3>1, <3>2, <3>3
    <2>3. ASSUME NEW t \in U PROVE \E p \in V : F[p] = t
      <3>1. PICK i \in DOMAIN a : \E k \in 1 .. a[i] : t = <<i, k>>
        BY <1>1, UnitsPairs
      <3>2. PICK u \in D : i \in DOMAIN part[u]
        BY <1>0, <3>1
      <3>3. t \in Units(part[u])
        BY <1>0, <3>1, <3>2, UnitsAre
      <3>4. PICK l \in 1 .. g[u] : b[u][l] = t
        BY <1>5, <3>3
      <3>5. <<u, l>> \in V
        BY <1>0, <1>1, <3>4, UnitsAre
      <3> QED BY <1>6, <3>4, <3>5
    <2> QED BY <2>1, <2>2, <2>3, Fun_IsBij
  <1>10. Cardinality(U) = Cardinality(V)
    BY <1>2, <1>9, FS_Bijection, Fun_ExistsBij
  <1> QED BY <1>1, <1>10 DEF Sum

LEMMA TotalsAgree ==
  ASSUME TalkInv
  PROVE  TotalCost = Sum(ByUser)
  <1>1. PICK D, part, a, m : D = DOMAIN MediaCost /\ part = [u \in D |-> BilledTo(u)] /\ a = Billed /\ m = MediaCost
    OBVIOUS
  <1>2. PICK g : g = [u \in D |-> Sum(part[u])]
    OBVIOUS
  <1>3. ASSUME NEW u \in D
        PROVE  /\ IsCost(part[u]) /\ g[u] = Sum(BilledTo(u)) /\ g[u] \in Nat
               /\ \A i \in DOMAIN part[u] : i \in DOMAIN a /\ part[u][i] = a[i] /\ OwnerOf[messages[i].session] = u
    <2>1. IsCost(BilledTo(u)) /\ part[u] = BilledTo(u)
      BY <1>1, BilledAre
    <2>2. \A i \in DOMAIN BilledTo(u) : i \in DOMAIN a /\ BilledTo(u)[i] = a[i] /\ OwnerOf[messages[i].session] = u
      BY <1>1 DEF BilledTo
    <2>3. g[u] = Sum(BilledTo(u))
      BY <1>2, <2>1
    <2> QED BY <2>1, <2>2, <2>3, SumIsNat
  <1>4. ASSUME NEW i \in DOMAIN a PROVE OwnerOf[messages[i].session] \in D /\ i \in DOMAIN part[OwnerOf[messages[i].session]]
    <2>1. i \in DOMAIN messages
      BY <1>1 DEF Billed, Rows
    <2>2. messages[i].session \in DOMAIN OwnerOf
      BY <2>1 DEF TalkInv, MessagesInOrder, IsMessage, ChatSession
    <2>3. OwnerOf[messages[i].session] \in D
      BY <1>1, <2>2, ChatAssumption
    <2> QED BY <1>1, <2>3 DEF BilledTo
  <1>5. IsCost(m) /\ IsCost(g) /\ DOMAIN g = D /\ DOMAIN m = D
    BY <1>1, <1>2, <1>3, ChatAssumption DEF IsCost
  <1>6. Sum(a) = Sum(g)
    <2>1. \A u \in D : IsCost(part[u]) /\ \A i \in DOMAIN part[u] : i \in DOMAIN a /\ part[u][i] = a[i]
      BY <1>3
    <2>2. \A i \in DOMAIN a : \E u \in D : i \in DOMAIN part[u]
      BY <1>4
    <2>3. \A u, v \in D : \A i \in DOMAIN part[u] : i \in DOMAIN part[v] => u = v
      BY <1>3
    <2>4. \A u \in D : g[u] = Sum(part[u])
      BY <1>2
    <2>5. Divides(D, part, a, g)
      BY <1>5, <2>1, <2>2, <2>3, <2>4 DEF Divides
    <2> QED BY <2>5, SumOfParts
  <1>7. PICK talked, h : talked = {OwnerOf[messages[i].session] : i \in DOMAIN a} /\ h = ByUser
    OBVIOUS
  <1>8. h = [u \in talked \cup ({u \in D : m[u] > 0} \ talked) |-> m[u] + IF u \in talked THEN Sum(BilledTo(u)) ELSE 0]
    BY <1>1, <1>7 DEF ByUser
  <1>9. talked \subseteq D
    BY <1>4, <1>7
  <1>10. ASSUME NEW u \in D \ talked PROVE g[u] = 0
    <2>1. DOMAIN BilledTo(u) = {}
      BY <1>1, <1>7, <1>10 DEF BilledTo
    <2>2. Units(BilledTo(u)) = {}
      BY <2>1 DEF Units
    <2> QED BY <1>3, <2>2, FS_EmptySet DEF Sum
  <1>11. \A u \in D : m[u] \in Nat
    BY <1>1, ChatAssumption
  <1>12. ASSUME NEW u \in DOMAIN h PROVE u \in D /\ h[u] = m[u] + g[u]
    <2>1. u \in D
      BY <1>8, <1>9
    <2>2. CASE u \in talked
      <3>1. h[u] = m[u] + Sum(BilledTo(u))
        BY <1>8, <2>2
      <3> QED BY <1>3, <2>1, <3>1
    <2>3. CASE u \notin talked
      <3>1. h[u] = m[u] + 0
        BY <1>8, <2>3
      <3>2. g[u] = 0
        BY <1>10, <2>1, <2>3
      <3> QED BY <2>1, <3>1, <3>2
    <2> QED BY <2>2, <2>3
  <1>13. ASSUME NEW u \in D \ DOMAIN h PROVE m[u] + g[u] = 0
    <2>1. u \notin talked /\ ~(m[u] > 0)
      BY <1>8, <1>13
    <2>2. g[u] = 0 /\ m[u] \in Nat
      BY <1>10, <1>11, <2>1
    <2> QED BY <2>1, <2>2
  <1>14. Sum(h) = Sum(m) + Sum(g)
    BY <1>5, <1>12, <1>13, SumsAdd
  <1>15. Sum(m) \in Nat /\ Sum(g) \in Nat
    BY <1>5, SumIsNat
  <1>16. Sum(a) + Sum(m) = Sum(h)
    BY <1>6, <1>14, <1>15
  <1> QED BY <1>1, <1>7, <1>16 DEF TotalCost

LEMMA ChatsKept == TalkInv /\ BudgetHolds => ChatIsKept
  <1> SUFFICES ASSUME TalkInv, BudgetHolds PROVE ChatIsKept
    OBVIOUS
  <1>1. QuestionIsAsked
    BY AllAskedRight DEF TalkInv
  <1>2. ASSUME NEW u \in DOMAIN MediaCost, MediaCost[u] < ChatQuota
        PROVE  Usage(u) < ChatQuota + Price * Cardinality(Chatters)
    <2>1. PICK b, n : b = Cardinality(BusyOf(u)) /\ n = Cardinality(Chatters) /\ b \in Nat /\ n \in Nat /\ b <= n
      BY BusyAreFinite
    <2>2. Usage(u) + Price * b < ChatQuota + Price * n
      BY <1>2, <2>1 DEF BudgetHolds
    <2>3. Price * b \in Nat /\ Price * n \in Nat
      BY <2>1, PriceGrows
    <2>4. Usage(u) \in Nat
      <3>1. MediaCost[u] \in Nat
        BY ChatAssumption
      <3>2. Sum(BilledTo(u)) \in Nat
        BY BilledAre, SumIsNat
      <3> QED BY <3>1, <3>2 DEF Usage
    <2>5. ChatQuota \in Nat
      BY ChatAssumption
    <2> QED BY <2>1, <2>2, <2>3, <2>4, <2>5
  <1>3. OverrunIsBounded
    BY <1>2, TotalsAgree DEF OverrunIsBounded
  <1> QED BY <1>1, <1>3 DEF ChatIsKept

(***************************************************************************)
(* A chat is asked its own question, with the attachment it came with,     *)
(* unless somebody else chats in the session at the same time or deletes   *)
(* it; however chats overlap, a user goes beyond the quota by less than    *)
(* one answer for each of them; and the sums of the report agree.          *)
(***************************************************************************)
THEOREM ChatsAreKept == ChatSpec => []ChatIsKept
  <1>1. ChatInit => TalkInv /\ BudgetHolds
    BY TalkStarts, BudgetStarts
  <1>2. TalkInv /\ BudgetHolds /\ [ChatNext]_chatVars => TalkInv' /\ BudgetHolds'
    BY TalkSteps, BudgetSteps
  <1> QED BY <1>1, <1>2, ChatsKept, PTL DEF ChatSpec

-----------------------------------------------------------------------------
(* Documents *)

LEMMA ProperSubset ==
  ASSUME NEW B, IsFiniteSet(B), NEW A, A \subseteq B, A # B
  PROVE  Cardinality(A) < Cardinality(B)
  <1>1. IsFiniteSet(A) /\ Cardinality(A) <= Cardinality(B) /\ Cardinality(B) # Cardinality(A)
    BY FS_Subset
  <1>2. Cardinality(A) \in Nat /\ Cardinality(B) \in Nat
    BY <1>1, FS_CardinalityType
  <1> QED BY <1>1, <1>2

LEMMA GreatestNumber ==
  ASSUME NEW S, S \subseteq Nat, IsFiniteSet(S), S # {}
  PROVE  \E k \in S : \A n \in S : n <= k
  <1> DEFINE above(k) == {n \in S : n > k}
  <1>1. \A k \in S : IsFiniteSet(above(k)) /\ Cardinality(above(k)) \in Nat
    BY FS_Subset, FS_CardinalityType
  <1>2. PICK T : T = {Cardinality(above(k)) : k \in S}
    OBVIOUS
  <1>3. T \subseteq Nat /\ T # {}
    BY <1>1, <1>2
  <1>4. PICK m \in T : \A n \in T : m <= n
    BY <1>3, LeastNumber
  <1>5. PICK k \in S : Cardinality(above(k)) = m
    BY <1>2
  <1> SUFFICES ASSUME NEW n \in S, ~(n <= k) PROVE FALSE
    OBVIOUS
  <1>6. n \in Nat /\ k \in Nat /\ n > k
    OBVIOUS
  <1>7. above(n) \subseteq above(k) /\ n \in above(k) /\ n \notin above(n)
    <2>1. \A z \in S : z \in Nat /\ (z > n => z > k) /\ ~(n > n)
      BY <1>6
    <2> QED BY <1>6, <2>1
  <1>8. Cardinality(above(n)) < Cardinality(above(k))
    <2>1. PICK A, B : A = above(n) /\ B = above(k) /\ A \subseteq B /\ A # B /\ IsFiniteSet(B)
      BY <1>1, <1>7
    <2> QED BY <2>1, ProperSubset
  <1>9. Cardinality(above(n)) \in T
    BY <1>2
  <1>10. m \in Nat /\ Cardinality(above(n)) \in Nat
    BY <1>1, <1>3
  <1> QED BY <1>4, <1>5, <1>8, <1>9, <1>10

\* ---- the worst sections ----
IsVerdict(verdict) == IsFiniteSet(verdict) /\ \A v \in verdict : v.issues \in Nat

LEMMA FoundAre ==
  ASSUME NEW verdict, IsVerdict(verdict), NEW sections, NEW i
  PROVE  IsFiniteSet(Found(sections, verdict, i)) /\ Found(sections, verdict, i) \subseteq Nat
  <1>1. PICK U : U = {u \in verdict : Faulted(u) /\ SectionOf(sections, u) = i}
    OBVIOUS
  <1>2. IsFiniteSet(U) /\ \A v \in U : v.issues \in Nat
    BY <1>1, FS_Subset DEF IsVerdict
  <1>3. PICK F, g : F = {v.issues : v \in U} /\ g = [v \in U |-> v.issues]
    OBVIOUS
  <1>4. g \in Surjection(U, F)
    BY <1>3 DEF Surjection
  <1>5. IsFiniteSet(F)
    BY <1>2, <1>4, FS_Surjection
  <1> QED BY <1>1, <1>2, <1>3, <1>5 DEF Found

IsIssues(issues, n) == n \in Nat /\ DOMAIN issues \subseteq 1 .. n /\ \A i \in DOMAIN issues : issues[i] \in Nat

LEMMA ProblemsAre ==
  ASSUME NEW verdict, IsVerdict(verdict), NEW sections, NEW n \in Nat, DOMAIN sections = 1 .. n,
         NEW issues, issues = ProblemSections(sections, verdict)
  PROVE  /\ IsIssues(issues, n)
         /\ DOMAIN issues = {i \in DOMAIN sections : Found(sections, verdict, i) # {}}
         /\ \A i \in DOMAIN issues : /\ issues[i] \in Found(sections, verdict, i)
                                     /\ \A k \in Found(sections, verdict, i) : k <= issues[i]
  <1>1. DOMAIN issues = {i \in DOMAIN sections : Found(sections, verdict, i) # {}}
    BY DEF ProblemSections
  <1>2. ASSUME NEW i \in DOMAIN issues
        PROVE  /\ issues[i] \in Found(sections, verdict, i) /\ issues[i] \in Nat
               /\ \A k \in Found(sections, verdict, i) : k <= issues[i]
    <2>1. PICK S : S = Found(sections, verdict, i) /\ S # {} /\ IsFiniteSet(S) /\ S \subseteq Nat
      BY <1>1, FoundAre
    <2>2. issues[i] = CHOOSE k \in S : \A l \in S : l <= k
      BY <1>1, <2>1 DEF ProblemSections
    <2>3. \E k \in S : \A l \in S : l <= k
      BY <2>1, GreatestNumber
    <2> QED BY <2>1, <2>2, <2>3
  <1> QED BY <1>1, <1>2 DEF IsIssues

WorseThan(issues, i) == {j \in DOMAIN issues : Worse(issues, j, i)}

LEMMA WorseOrders ==
  ASSUME NEW issues, NEW n, IsIssues(issues, n)
  PROVE  /\ IsFiniteSet(DOMAIN issues)
         /\ \A i \in DOMAIN issues : ~Worse(issues, i, i)
         /\ \A i, j \in DOMAIN issues : i = j \/ Worse(issues, i, j) \/ Worse(issues, j, i)
         /\ \A i, j, k \in DOMAIN issues : Worse(issues, i, j) /\ Worse(issues, j, k) => Worse(issues, i, k)
         /\ \A i, j \in DOMAIN issues : Worse(issues, i, j) => issues[j] <= issues[i]
  <1>1. \A i \in DOMAIN issues : i \in Int /\ issues[i] \in Int
    BY DEF IsIssues
  <1>2. IsFiniteSet(1 .. n)
    BY FS_Interval DEF IsIssues
  <1>3. IsFiniteSet(DOMAIN issues)
    BY <1>2, FS_Subset DEF IsIssues
  <1> QED BY <1>1, <1>3 DEF Worse

LEMMA WorseCounts ==
  ASSUME NEW issues, NEW n, IsIssues(issues, n), NEW i \in DOMAIN issues
  PROVE  /\ IsFiniteSet(WorseThan(issues, i)) /\ Cardinality(WorseThan(issues, i)) \in Nat
         /\ \A j \in DOMAIN issues : Worse(issues, j, i) => Cardinality(WorseThan(issues, j)) < Cardinality(WorseThan(issues, i))
  <1>1. IsFiniteSet(WorseThan(issues, i))
    BY WorseOrders, FS_Subset DEF WorseThan
  <1>2. ASSUME NEW j \in DOMAIN issues, Worse(issues, j, i)
        PROVE  Cardinality(WorseThan(issues, j)) < Cardinality(WorseThan(issues, i))
    <2>1. WorseThan(issues, j) \subseteq WorseThan(issues, i) /\ j \in WorseThan(issues, i) /\ j \notin WorseThan(issues, j)
      BY <1>2, WorseOrders DEF WorseThan
    <2>2. WorseThan(issues, j) # WorseThan(issues, i)
      BY <2>1
    <2> QED BY <1>1, <2>1, <2>2, ProperSubset
  <1> QED BY <1>1, <1>2, FS_CardinalityType

LEMMA ChosenAre ==
  ASSUME NEW issues, NEW n, IsIssues(issues, n)
  PROVE  /\ IsFiniteSet(Chosen(issues)) /\ Chosen(issues) \subseteq DOMAIN issues
         /\ Cardinality(Chosen(issues)) \in Nat /\ Cardinality(Chosen(issues)) <= Cap
         /\ \A i \in Chosen(issues), j \in DOMAIN issues \ Chosen(issues) : issues[j] <= issues[i]
         /\ Cardinality(Chosen(issues)) < Cap => Chosen(issues) = DOMAIN issues
  <1> DEFINE rank(i) == Cardinality(WorseThan(issues, i))
  <1>1. PICK D, S : D = DOMAIN issues /\ S = Chosen(issues) /\ S = {i \in D : rank(i) < Cap} /\ IsFiniteSet(D)
    BY WorseOrders DEF Chosen, WorseThan
  <1>2. IsFiniteSet(S) /\ Cardinality(S) \in Nat /\ Cap \in Nat
    BY <1>1, FS_Subset, FS_CardinalityType, DocGenAssumption
  <1>3. \A i \in D : rank(i) \in Nat /\ \A j \in D : Worse(issues, j, i) => rank(j) < rank(i)
    BY <1>1, WorseCounts
  <1>4. \A i \in S, j \in D \ S : Worse(issues, i, j)
    <2> SUFFICES ASSUME NEW i \in S, NEW j \in D \ S PROVE Worse(issues, i, j)
      OBVIOUS
    <2>1. i \in D /\ j \in D /\ i # j /\ rank(i) < Cap /\ ~(rank(j) < Cap)
      BY <1>1
    <2>2. ~Worse(issues, j, i)
      BY <1>2, <1>3, <2>1
    <2> QED BY <1>1, <2>1, <2>2, WorseOrders
  \* The mildest of the chosen has all others before it.
  <1>5. Cardinality(S) <= Cap
    <2>1. CASE S = {}
      BY <1>2, <2>1, FS_EmptySet
    <2>2. CASE S # {}
      <3>1. PICK T : T = {rank(i) : i \in S}
        OBVIOUS
      <3>2. T \subseteq Nat /\ T # {} /\ IsFiniteSet(T)
        <4>1. PICK g : g = [i \in S |-> rank(i)]
          OBVIOUS
        <4>2. g \in Surjection(S, T)
          BY <3>1, <4>1 DEF Surjection
        <4> QED BY <1>1, <1>2, <1>3, <2>2, <3>1, <4>2, FS_Surjection
      <3>3. PICK i \in S : \A j \in S : rank(j) <= rank(i)
        <4>1. PICK m \in T : \A k \in T : k <= m
          BY <3>2, GreatestNumber
        <4> QED BY <3>1, <4>1
      <3>4. S \ {i} \subseteq WorseThan(issues, i)
        <4> SUFFICES ASSUME NEW j \in S \ {i} PROVE Worse(issues, j, i)
          BY <1>1 DEF WorseThan
        <4>1. ~Worse(issues, i, j)
          BY <1>1, <1>3, <3>3
        <4> QED BY <1>1, <4>1, WorseOrders
      <3>5. Cardinality(S \ {i}) = Cardinality(S) - 1 /\ Cardinality(S \ {i}) <= rank(i) /\ Cardinality(S \ {i}) \in Nat
        <4>1. IsFiniteSet(S \ {i}) /\ Cardinality(S \ {i}) = Cardinality(S) - 1
          BY <1>2, <3>3, FS_RemoveElement
        <4>2. IsFiniteSet(WorseThan(issues, i))
          BY <1>1, <3>3, WorseCounts
        <4> QED BY <3>4, <4>1, <4>2, FS_Subset, FS_CardinalityType
      <3>6. rank(i) < Cap /\ rank(i) \in Nat
        BY <1>1, <1>3, <3>3
      <3> QED BY <1>2, <3>5, <3>6
    <2> QED BY <2>1, <2>2
  \* All before the worst of the others are chosen, and they are Cap at least.
  <1>6. ASSUME Cardinality(S) < Cap PROVE S = D
    <2> SUFFICES ASSUME D \ S # {} PROVE FALSE
      BY <1>1
    <2>1. PICK T : T = {rank(i) : i \in D \ S}
      OBVIOUS
    <2>2. T \subseteq Nat /\ T # {}
      BY <1>3, <2>1
    <2>3. PICK m \in T : \A k \in T : m <= k
      BY <2>2, LeastNumber
    <2>4. PICK i \in D \ S : rank(i) = m
      BY <2>1, <2>3
    <2>5. WorseThan(issues, i) \subseteq S
      <3> SUFFICES ASSUME NEW j \in D, Worse(issues, j, i), j \notin S PROVE FALSE
        BY <1>1 DEF WorseThan
      <3>1. rank(j) < rank(i) /\ rank(j) \in Nat /\ rank(i) \in Nat
        BY <1>3, <2>4
      <3>2. rank(j) \in T
        BY <2>1
      <3> QED BY <2>3, <2>4, <3>1, <3>2
    <2>6. rank(i) <= Cardinality(S)
      BY <1>2, <2>5, FS_Subset
    <2>7. ~(rank(i) < Cap) /\ rank(i) \in Nat
      BY <1>1, <1>3, <2>4
    <2> QED BY <1>2, <1>6, <2>6, <2>7
  <1>7. \A i \in S, j \in D \ S : issues[j] <= issues[i]
    BY <1>1, <1>4, WorseOrders
  <1> QED BY <1>1, <1>2, <1>5, <1>6, <1>7

LEMMA WorstIs ==
  ASSUME NEW issues, NEW n, IsIssues(issues, n), NEW todo, todo \subseteq DOMAIN issues, todo # {}
  PROVE  WorstOf(todo, issues) \in todo
  <1> DEFINE rank(i) == Cardinality(WorseThan(issues, i))
  <1>1. PICK T : T = {rank(i) : i \in todo}
    OBVIOUS
  <1>2. T \subseteq Nat /\ T # {}
    BY <1>1, WorseCounts
  <1>3. PICK m \in T : \A k \in T : m <= k
    BY <1>2, LeastNumber
  <1>4. PICK i \in todo : rank(i) = m
    BY <1>1, <1>3
  <1>5. ASSUME NEW j \in todo \ {i} PROVE Worse(issues, i, j)
    <2>1. rank(i) <= rank(j) /\ rank(i) \in Nat /\ rank(j) \in Nat
      BY <1>1, <1>2, <1>3, <1>4
    <2>2. ~Worse(issues, j, i)
      BY <2>1, WorseCounts
    <2> QED BY <2>2, WorseOrders
  <1> QED BY <1>4, <1>5 DEF WorstOf

\* ---- the sources ----
IsFinds(finds) == IsFiniteSet(finds) /\ \A f \in finds : f.score \in Nat

Best(finds) == {f \in finds : \A g \in finds : g.path = f.path => g.score <= f.score}
Shown(finds, cited) == {[path |-> f.path, score |-> f.score, cited |-> f.path \in cited] : f \in Best(finds)}

LEMMA EveryPathHasABest ==
  ASSUME NEW finds, IsFinds(finds), NEW f \in finds
  PROVE  \E b \in Best(finds) : b.path = f.path
  <1>1. PICK G, g : G = {h \in finds : h.path = f.path} /\ g = [h \in G |-> h.score]
    OBVIOUS
  <1>2. PICK S : S = {h.score : h \in G}
    OBVIOUS
  <1>3. IsFiniteSet(G) /\ f \in G
    BY <1>1, FS_Subset DEF IsFinds
  <1>4. g \in Surjection(G, S)
    BY <1>1, <1>2 DEF Surjection
  <1>5. IsFiniteSet(S) /\ S \subseteq Nat /\ S # {}
    BY <1>1, <1>2, <1>3, <1>4, FS_Surjection DEF IsFinds
  <1>6. PICK k \in S : \A n \in S : n <= k
    BY <1>5, GreatestNumber
  <1>7. PICK b \in G : b.score = k
    BY <1>2, <1>6
  <1>8. \A h \in finds : h.path = b.path => h.score <= b.score
    BY <1>1, <1>2, <1>6, <1>7
  <1> QED BY <1>1, <1>7, <1>8 DEF Best

LEMMA ShownIs ==
  ASSUME NEW finds, NEW cited, NEW s, s \in ShownSources(finds, cited)
  PROVE  /\ Shown(finds, cited) = {s[i] : i \in DOMAIN s}
         /\ \A i, j \in DOMAIN s : s[i] = s[j] => i = j
         /\ \A i, j \in DOMAIN s : i < j => ~Before(s[j], s[i])
         /\ \E n \in Nat : DOMAIN s = 1 .. n \/ ~IsFiniteSet(Shown(finds, cited))
  <1>1. PICK S : S = Shown(finds, cited)
    OBVIOUS
  <1>2. s \in {t \in [1 .. Cardinality(S) -> S] :
                 /\ S = {t[i] : i \in DOMAIN t} /\ \A i, j \in DOMAIN t : t[i] = t[j] => i = j
                 /\ \A i, j \in DOMAIN t : i < j => ~Before(t[j], t[i])}
    BY <1>1 DEF ShownSources, Shown, Best
  <1>3. IsFiniteSet(S) => Cardinality(S) \in Nat
    BY FS_CardinalityType
  <1>4. DOMAIN s = 1 .. Cardinality(S)
    BY <1>2
  <1>5. \E n \in Nat : DOMAIN s = 1 .. n \/ ~IsFiniteSet(S)
    <2>1. CASE IsFiniteSet(S)
      BY <1>3, <1>4, <2>1
    <2>2. CASE ~IsFiniteSet(S)
      <3>1. 0 \in Nat
        OBVIOUS
      <3> QED BY <2>2, <3>1
    <2> QED BY <2>1, <2>2
  <1> QED BY <1>1, <1>2, <1>5

LEMMA SourcesAre ==
  ASSUME NEW finds, IsFinds(finds), NEW cited, NEW s, s \in ShownSources(finds, cited)
  PROVE  /\ {s[i].path : i \in DOMAIN s} = {f.path : f \in finds}
         /\ \A i, j \in DOMAIN s : i < j => s[i].path # s[j].path /\ (s[j].cited => s[i].cited)
  <1>1. PICK n \in Nat : DOMAIN s = 1 .. n
    <2>1. PICK g : g = [f \in Best(finds) |-> [path |-> f.path, score |-> f.score, cited |-> f.path \in cited]]
      OBVIOUS
    <2>2. g \in Surjection(Best(finds), Shown(finds, cited))
      BY <2>1 DEF Shown, Surjection
    <2>3. IsFiniteSet(Best(finds))
      BY FS_Subset DEF IsFinds, Best
    <2>4. IsFiniteSet(Shown(finds, cited))
      BY <2>2, <2>3, FS_Surjection
    <2> QED BY <2>4, ShownIs
  <1>2. ASSUME NEW i \in DOMAIN s
        PROVE  \E f \in Best(finds) : s[i] = [path |-> f.path, score |-> f.score, cited |-> f.path \in cited]
    <2>1. s[i] \in Shown(finds, cited)
      BY ShownIs
    <2> QED BY <2>1 DEF Shown
  <1>3. ASSUME NEW i \in DOMAIN s PROVE \E f \in finds : s[i].path = f.path
    <2>1. PICK f \in Best(finds) : s[i] = [path |-> f.path, score |-> f.score, cited |-> f.path \in cited]
      BY <1>2
    <2> QED BY <2>1 DEF Best
  <1>4. ASSUME NEW f \in finds PROVE \E i \in DOMAIN s : s[i].path = f.path
    <2>1. PICK b \in Best(finds) : b.path = f.path
      BY EveryPathHasABest
    <2>2. PICK t : t = [path |-> b.path, score |-> b.score, cited |-> b.path \in cited]
      OBVIOUS
    <2>3. t \in Shown(finds, cited)
      BY <2>2 DEF Shown
    <2>4. PICK i \in DOMAIN s : s[i] = t
      BY <2>3, ShownIs
    <2> QED BY <2>1, <2>2, <2>4
  <1>5. ASSUME NEW i \in DOMAIN s, NEW j \in DOMAIN s, i < j PROVE s[i].path # s[j].path /\ (s[j].cited => s[i].cited)
    <2>1. PICK f \in Best(finds) : s[i] = [path |-> f.path, score |-> f.score, cited |-> f.path \in cited]
      BY <1>2
    <2>2. PICK g \in Best(finds) : s[j] = [path |-> g.path, score |-> g.score, cited |-> g.path \in cited]
      BY <1>2
    <2>3. s[i] # s[j]
      <3>1. i # j
        BY <1>1, <1>5
      <3> QED BY <3>1, ShownIs
    <2>4. s[i].path # s[j].path
      <3> SUFFICES ASSUME f.path = g.path PROVE FALSE
        BY <2>1, <2>2
      <3>1. f.score <= g.score /\ g.score <= f.score /\ f.score \in Nat /\ g.score \in Nat
        BY <2>1, <2>2 DEF Best, IsFinds
      <3>2. f.score = g.score
        BY <3>1
      <3> QED BY <2>1, <2>2, <2>3, <3>2
    <2>5. ~Before(s[j], s[i])
      BY <1>5, ShownIs
    <2> QED BY <2>4, <2>5 DEF Before
  <1> QED BY <1>3, <1>4, <1>5

\* ---- what a request holds, and what is saved of it ----
IsWritten(w) == w = [stage |-> w.stage, n |-> w.n, reviewed |-> w.reviewed, finds |-> w.finds, cited |-> w.cited, draft |-> w.draft,
                     sections |-> w.sections, verdict |-> w.verdict, todo |-> w.todo, tried |-> w.tried, cost |-> w.cost,
                     paid |-> w.paid, sources |-> w.sources]

Worst(w) == Chosen(ProblemSections(w.draft, w.verdict))

\* The sections the judge faulted are still to be written again, or tried; only a tried one differs from the draft.
WritingFits(w) ==
  /\ IsWritten(w)
  /\ IsVerdict(w.verdict) /\ IsFinds(w.finds)
  /\ \E n \in Nat : DOMAIN w.draft = 1 .. n
  /\ DOMAIN w.sections = DOMAIN w.draft
  /\ \A i \in DOMAIN w.sections : w.sections[i] # w.draft[i] => i \in w.tried
  /\ w.tried \cup w.todo = Worst(w)
  /\ w.stage \in {"bill", "save"} => w.todo = {}
  /\ w.stage \in {"draft", "judge"} => w.tried = {} /\ w.verdict = {}
  /\ w.stage = "rewrite" => w.todo # {}
  /\ w.cost = w.paid \/ (w.tried = {} /\ w.stage \in {"bill", "save"})
  /\ w.stage = "save" => w.sources \in ShownSources(w.finds, w.cited)

\* Each request has a number of its own; its bill is there before its document.
NumberFits(w) ==
  w.stage # "idle" =>
    /\ w.n \in 1 .. asked /\ w.n \notin DOMAIN library
    /\ w.n \in DOMAIN bills => w.stage = "save" /\ bills[w.n] = w.cost

Writes(r) == writing[r].stage # "idle"
WritingInOrder ==
  /\ writing = [r \in Authors |-> writing[r]]
  /\ \A r \in Authors : WritingFits(writing[r]) /\ NumberFits(writing[r])
  /\ \A r, q \in Authors : Writes(r) /\ Writes(q) /\ writing[r].n = writing[q].n => r = q
LibraryInOrder ==
  /\ asked \in Nat /\ DOMAIN bills \subseteq 1 .. asked
  /\ \A n \in DOMAIN library :
       /\ n \in 1 .. asked /\ WritingFits(library[n]) /\ library[n].stage = "save"
       /\ n \in DOMAIN bills => bills[n] = library[n].cost
CopiesInOrder ==
  /\ rendered \in Nat
  /\ DOMAIN copies \subseteq {<<"t", k>> : k \in 0 .. MaxDedup - 1}
  /\ rendered <= MaxDedup => Cardinality(DOMAIN copies) = rendered

LEMMA PutIs ==
  ASSUME NEW f, NEW k, NEW v, NEW g, g = Put(f, k, v)
  PROVE  DOMAIN g = DOMAIN f \cup {k} /\ g[k] = v /\ \A x \in DOMAIN f : x # k => g[x] = f[x]
  BY DEF Put

LEMMA NothingFaulted ==
  ASSUME NEW sections
  PROVE  Chosen(ProblemSections(sections, {})) = {}
  <1>1. \A i : Found(sections, {}, i) = {}
    BY DEF Found
  <1>2. DOMAIN ProblemSections(sections, {}) = {}
    BY <1>1 DEF ProblemSections
  <1> QED BY <1>2 DEF Chosen

LEMMA DocumentFits ==
  ASSUME NEW stage \in {"idle", "draft"}, NEW n, NEW reviewed, NEW finds, IsFinds(finds), NEW e, e = Document(stage, n, reviewed, finds)
  PROVE  WritingFits(e) /\ e.stage = stage /\ e.n = n
  <1>1. /\ IsWritten(e) /\ e.stage = stage /\ e.n = n /\ e.finds = finds /\ e.draft = <<>> /\ e.sections = <<>> /\ e.verdict = {}
        /\ e.todo = {} /\ e.tried = {} /\ e.cost = 0 /\ e.paid = 0
    BY DEF Document, IsWritten
  <1>2. Worst(e) = {}
    BY <1>1, NothingFaulted DEF Worst
  <1>3. IsVerdict(e.verdict)
    BY <1>1, FS_EmptySet DEF IsVerdict
  <1>4. 0 \in Nat /\ DOMAIN e.draft = 1 .. 0
    BY <1>1
  <1> QED BY <1>1, <1>2, <1>3, <1>4 DEF WritingFits

LEMMA NoDocumentFits == WritingFits(NoDocument) /\ NoDocument.stage = "idle"
  <1>1. IsFinds({})
    BY FS_EmptySet DEF IsFinds
  <1> QED BY <1>1, DocumentFits, ZenonT(40) DEF NoDocument

\* What DraftIsKept says of a row.
IsKept(row) ==
  /\ DOMAIN row.sections = DOMAIN row.draft /\ Cardinality(row.tried) <= Cap
  /\ {i \in DOMAIN row.sections : row.sections[i] # row.draft[i]} \subseteq row.tried
  /\ \A i \in row.tried :
       /\ Found(row.draft, row.verdict, i) # {}
       /\ \A j \in DOMAIN row.draft \ row.tried : \A k \in Found(row.draft, row.verdict, j) :
            \E l \in Found(row.draft, row.verdict, i) : k <= l
  /\ Cardinality(row.tried) < Cap => \A j \in DOMAIN row.draft \ row.tried : Found(row.draft, row.verdict, j) = {}
  /\ {i \in DOMAIN row.sections : row.sections[i] # row.draft[i]} # {} => row.cost = row.paid
  /\ {row.sources[i].path : i \in DOMAIN row.sources} = {f.path : f \in row.finds}
  /\ \A i, j \in DOMAIN row.sources :
       i < j => row.sources[i].path # row.sources[j].path /\ (row.sources[j].cited => row.sources[i].cited)

LEMMA RowIsKept ==
  ASSUME NEW row, WritingFits(row), row.stage = "save"
  PROVE  IsKept(row)
  <1> DEFINE again == {i \in DOMAIN row.sections : row.sections[i] # row.draft[i]}
  <1>1. PICK sections, verdict, n, issues : /\ sections = row.draft /\ verdict = row.verdict /\ n \in Nat /\ DOMAIN sections = 1 .. n
                                            /\ issues = ProblemSections(sections, verdict) /\ IsVerdict(verdict)
    BY DEF WritingFits
  <1>10. n \in Nat /\ IsVerdict(verdict) /\ DOMAIN sections = 1 .. n
    BY <1>1
  <1>11. issues = ProblemSections(sections, verdict)
    BY <1>1
  <1>2. row.tried = Chosen(issues) /\ DOMAIN row.sections = DOMAIN sections
    BY <1>1 DEF WritingFits, Worst
  <1>3. /\ IsIssues(issues, n)
        /\ DOMAIN issues = {i \in DOMAIN sections : Found(sections, verdict, i) # {}}
        /\ \A i \in DOMAIN issues : issues[i] \in Found(sections, verdict, i) /\ \A k \in Found(sections, verdict, i) : k <= issues[i]
    BY <1>10, <1>11, ProblemsAre
  <1>4. /\ Chosen(issues) \subseteq DOMAIN issues /\ Cardinality(Chosen(issues)) <= Cap
        /\ \A i \in Chosen(issues), j \in DOMAIN issues \ Chosen(issues) : issues[j] <= issues[i]
        /\ Cardinality(Chosen(issues)) < Cap => Chosen(issues) = DOMAIN issues
    BY <1>3, ChosenAre
  <1>5. ASSUME NEW i \in row.tried, NEW j \in DOMAIN sections \ row.tried, NEW k \in Found(sections, verdict, j)
        PROVE  \E l \in Found(sections, verdict, i) : k <= l
    <2>1. j \in DOMAIN issues \ Chosen(issues) /\ i \in Chosen(issues) /\ i \in DOMAIN issues
      BY <1>2, <1>3, <1>4
    <2>2. k <= issues[j] /\ issues[j] <= issues[i] /\ issues[i] \in Found(sections, verdict, i)
      BY <1>3, <1>4, <2>1
    <2>3. k \in Nat /\ issues[j] \in Nat /\ issues[i] \in Nat
      <3>1. Found(sections, verdict, j) \subseteq Nat
        BY <1>1, FoundAre
      <3> QED BY <1>3, <2>1, <3>1 DEF IsIssues
    <2> QED BY <2>2, <2>3
  <1>6. /\ \A i \in row.tried : Found(sections, verdict, i) # {}
        /\ Cardinality(row.tried) < Cap => \A j \in DOMAIN sections \ row.tried : Found(sections, verdict, j) = {}
    BY <1>2, <1>3, <1>4
  <1>7. again \subseteq row.tried /\ (again # {} => row.cost = row.paid)
    BY DEF WritingFits
  <1>8. /\ {row.sources[i].path : i \in DOMAIN row.sources} = {f.path : f \in row.finds}
        /\ \A i, j \in DOMAIN row.sources :
             i < j => row.sources[i].path # row.sources[j].path /\ (row.sources[j].cited => row.sources[i].cited)
    <2>1. PICK finds, cited, s : finds = row.finds /\ cited = row.cited /\ s = row.sources /\ IsFinds(finds) /\ s \in ShownSources(finds, cited)
      BY DEF WritingFits
    <2> QED BY <2>1, SourcesAre
  <1>9. Cardinality(row.tried) <= Cap
    BY <1>2, <1>4
  <1> QED BY <1>1, <1>2, <1>5, <1>6, <1>7, <1>8, <1>9 DEF IsKept

LEMMA LibraryIsKept == LibraryInOrder => DraftIsKept
  <1> SUFFICES ASSUME LibraryInOrder, NEW n \in DOMAIN library
               PROVE  LET row == library[n]
                          again == {i \in DOMAIN row.sections : row.sections[i] # row.draft[i]}
                          found(i) == Found(row.draft, row.verdict, i)
                          others == DOMAIN row.draft \ row.tried
                      IN /\ DOMAIN row.sections = DOMAIN row.draft /\ Cardinality(row.tried) <= Cap /\ again \subseteq row.tried
                         /\ \A i \in row.tried : found(i) # {} /\ \A j \in others : \A k \in found(j) : \E l \in found(i) : k <= l
                         /\ Cardinality(row.tried) < Cap => \A j \in others : found(j) = {}
                         /\ n \in DOMAIN bills /\ again # {} => bills[n] = row.paid
                         /\ {row.sources[i].path : i \in DOMAIN row.sources} = {f.path : f \in row.finds}
                         /\ \A i, j \in DOMAIN row.sources :
                              i < j => row.sources[i].path # row.sources[j].path /\ (row.sources[j].cited => row.sources[i].cited)
    BY DEF DraftIsKept
  <1>1. PICK row, again : /\ row = library[n] /\ again = {i \in DOMAIN row.sections : row.sections[i] # row.draft[i]}
                          /\ WritingFits(row) /\ row.stage = "save" /\ (n \in DOMAIN bills => bills[n] = row.cost)
    BY DEF LibraryInOrder
  <1>2. IsKept(row)
    BY <1>1, RowIsKept
  <1> QED BY <1>1, <1>2 DEF IsKept

\* ---- the steps ----
DocsInv == WritingInOrder /\ LibraryInOrder

\* Request r has done another part of its work: its number, the bills and the library stay as they are.
LEMMA WritingMoves ==
  ASSUME DocsInv, NEW r \in Authors, Writes(r), writing[r].stage # "save", NEW e, writing' = [writing EXCEPT ![r] = e],
         WritingFits(e), e.stage = "idle" \/ e.n = writing[r].n, UNCHANGED <<bills, library, asked>>
  PROVE  DocsInv'
  <1>1. writing' = [q \in Authors |-> writing'[q]] /\ writing'[r] = e /\ \A q \in Authors \ {r} : writing'[q] = writing[q]
    BY DEF DocsInv, WritingInOrder
  <1>2. ASSUME NEW q \in Authors PROVE (WritingFits(writing[q]) /\ NumberFits(writing[q]))'
    <2>1. CASE q = r
      <3>1. PICK w : w = writing[r] /\ w.stage \notin {"idle", "save"} /\ NumberFits(w) /\ (e.stage = "idle" \/ e.n = w.n)
        BY DEF DocsInv, WritingInOrder, Writes
      <3>2. WritingFits(e)'
        BY DEF WritingFits, IsWritten, IsVerdict, IsFinds, Worst
      <3>3. NumberFits(e)'
        BY <3>1 DEF NumberFits
      <3> QED BY <1>1, <2>1, <3>2, <3>3 DEF WritingFits, IsWritten, IsVerdict, IsFinds, Worst, NumberFits
    <2>2. CASE q # r
      <3>1. PICK w : w = writing[q] /\ w = writing'[q] /\ WritingFits(w) /\ NumberFits(w)
        BY <1>1, <2>2 DEF DocsInv, WritingInOrder
      <3>2. NumberFits(w)'
        BY <3>1 DEF NumberFits
      <3> QED BY <3>1, <3>2 DEF WritingFits, IsWritten, IsVerdict, IsFinds, Worst, NumberFits
    <2> QED BY <2>1, <2>2
  <1>3. \A p, q \in Authors : Writes(p)' /\ Writes(q)' /\ writing'[p].n = writing'[q].n => p = q
    BY <1>1 DEF DocsInv, WritingInOrder, Writes
  <1>4. LibraryInOrder'
    BY DEF DocsInv, LibraryInOrder
  <1> QED BY <1>1, <1>2, <1>3, <1>4 DEF DocsInv, WritingInOrder

LEMMA FailingDocs ==
  ASSUME DocsInv, NEW r \in Authors, DraftFails(r)
  PROVE  DocsInv'
  <1>1. writing[r].stage = "draft" /\ writing' = [writing EXCEPT ![r] = NoDocument] /\ UNCHANGED <<bills, library, asked>>
    BY DEF DraftFails, At, Keep, NoSave
  <1> QED BY <1>1, NoDocumentFits, WritingMoves DEF Writes

LEMMA DraftingDocs ==
  ASSUME DocsInv, NEW r \in Authors, Draft(r)
  PROVE  DocsInv'
  <1>1. PICK w : w = writing[r] /\ WritingFits(w) /\ w.stage = "draft"
    BY DEF DocsInv, WritingInOrder, Draft, At
  <1>2. PICK headings, cited : /\ headings \in Drafts /\ writing' = [writing EXCEPT ![r] = Drafted(w, headings, cited)]
                               /\ UNCHANGED <<bills, library, asked>>
    BY <1>1 DEF Draft, Keep, NoSave
  <1>3. PICK sections, stage, one :
          /\ sections = [i \in DOMAIN headings |-> [heading |-> headings[i], again |-> FALSE]]
          /\ stage = (IF w.reviewed /\ Cap > 0 /\ headings # <<>> THEN "judge" ELSE "bill") /\ one = 1
    OBVIOUS
  <1>4. PICK e : e = [w EXCEPT !.stage = stage, !.sections = sections, !.draft = sections, !.cited = cited, !.cost = one, !.paid = one]
    OBVIOUS
  <1>5. Drafted(w, headings, cited) = e
    BY <1>3, <1>4 DEF Drafted
  <1>6. stage \in {"judge", "bill"}
    BY <1>3
  <1>7. /\ headings \in Drafts /\ stage \in {"judge", "bill"} /\ one = 1
        /\ sections = [i \in DOMAIN headings |-> [heading |-> headings[i], again |-> FALSE]]
        /\ e = [w EXCEPT !.stage = stage, !.sections = sections, !.draft = sections, !.cited = cited, !.cost = one, !.paid = one]
        /\ writing' = [writing EXCEPT ![r] = e] /\ UNCHANGED <<bills, library, asked>>
    BY <1>2, <1>3, <1>4, <1>5, <1>6
  <1>8. /\ IsWritten(e) /\ e.stage = stage /\ e.n = w.n /\ e.finds = w.finds /\ e.draft = sections /\ e.sections = sections
        /\ e.verdict = w.verdict /\ e.todo = w.todo /\ e.tried = w.tried /\ e.cost = e.paid
    BY <1>1, <1>7 DEF WritingFits, IsWritten
  <1>9. w.tried = {} /\ w.verdict = {} /\ w.todo = {}
    <2>1. w.verdict = {} /\ w.tried = {} /\ w.tried \cup w.todo = Worst(w)
      BY <1>1 DEF WritingFits
    <2> QED BY <2>1, NothingFaulted DEF Worst
  <1>10. Worst(e) = {}
    BY <1>8, <1>9, NothingFaulted DEF Worst
  <1>11. \E n \in Nat : DOMAIN sections = 1 .. n
    <2>1. headings \in Seq(STRING)
      BY <1>7, DocGenAssumption
    <2>2. Len(headings) \in Nat /\ DOMAIN headings = 1 .. Len(headings)
      BY <2>1
    <2> QED BY <1>7, <2>2
  <1>12. WritingFits(e)
    BY <1>1, <1>7, <1>8, <1>9, <1>10, <1>11 DEF WritingFits
  <1> QED BY <1>1, <1>7, <1>8, <1>12, WritingMoves DEF Writes

LEMMA UnjudgedDocs ==
  ASSUME DocsInv, NEW r \in Authors, JudgeFails(r)
  PROVE  DocsInv'
  <1>1. PICK w, stage, e : /\ w = writing[r] /\ WritingFits(w) /\ w.stage = "judge" /\ stage = "bill" /\ e = [w EXCEPT !.stage = stage]
                           /\ writing' = [writing EXCEPT ![r] = e] /\ UNCHANGED <<bills, library, asked>>
    BY DEF DocsInv, WritingInOrder, JudgeFails, At, Keep, NoSave
  <1>2. /\ IsWritten(e) /\ e.stage = stage /\ e.n = w.n /\ e.finds = w.finds /\ e.draft = w.draft /\ e.sections = w.sections
        /\ e.verdict = w.verdict /\ e.todo = w.todo /\ e.tried = w.tried /\ e.cost = w.cost /\ e.paid = w.paid
    BY <1>1 DEF WritingFits, IsWritten
  <1>3. Worst(e) = Worst(w) /\ Worst(w) = {} /\ w.todo = {}
    <2>1. w.verdict = {} /\ w.tried = {} /\ w.tried \cup w.todo = Worst(w)
      BY <1>1 DEF WritingFits
    <2> QED BY <1>2, <2>1, NothingFaulted DEF Worst
  <1>4. WritingFits(e)
    BY <1>1, <1>2, <1>3 DEF WritingFits
  <1> QED BY <1>1, <1>2, <1>4, WritingMoves DEF Writes

LEMMA JudgingDocs ==
  ASSUME DocsInv, NEW r \in Authors, Judge(r)
  PROVE  DocsInv'
  <1>1. PICK w : w = writing[r] /\ WritingFits(w) /\ w.stage = "judge"
    BY DEF DocsInv, WritingInOrder, Judge, At
  <1>2. PICK verdict, todo, stage, cost, paid, e :
          /\ verdict \in Verdicts /\ todo = Chosen(ProblemSections(w.draft, verdict))
          /\ stage = (IF todo = {} THEN "bill" ELSE "rewrite") /\ cost = (IF todo = {} THEN w.cost ELSE w.cost + 1) /\ paid = w.paid + 1
          /\ e = [w EXCEPT !.stage = stage, !.verdict = verdict, !.todo = todo, !.cost = cost, !.paid = paid]
          /\ writing' = [writing EXCEPT ![r] = e] /\ UNCHANGED <<bills, library, asked>>
    <2>1. PICK verdict, todo :
            /\ verdict \in Verdicts /\ todo = Chosen(ProblemSections(w.draft, verdict))
            /\ writing' = [writing EXCEPT ![r] = [w EXCEPT !.stage = IF todo = {} THEN "bill" ELSE "rewrite", !.verdict = verdict,
                                                           !.todo = todo, !.cost = IF todo = {} THEN @ ELSE @ + 1, !.paid = @ + 1]]
            /\ UNCHANGED <<bills, library, asked>>
      BY <1>1, Zenon DEF Judge, Keep, NoSave
    <2>2. PICK stage, cost, paid : /\ stage = (IF todo = {} THEN "bill" ELSE "rewrite")
                                   /\ cost = (IF todo = {} THEN w.cost ELSE w.cost + 1) /\ paid = w.paid + 1
      OBVIOUS
    <2> QED BY <2>1, <2>2
  <1>3. /\ IsWritten(e) /\ e.stage = stage /\ e.n = w.n /\ e.finds = w.finds /\ e.draft = w.draft /\ e.sections = w.sections
        /\ e.verdict = verdict /\ e.todo = todo /\ e.tried = w.tried /\ e.cost = cost /\ e.paid = paid
    BY <1>1, <1>2 DEF WritingFits, IsWritten
  <1>4. Worst(e) = todo /\ IsVerdict(verdict)
    BY <1>2, <1>3, DocGenAssumption DEF Worst, IsVerdict
  <1>5. w.tried = {} /\ w.cost = w.paid
    BY <1>1 DEF WritingFits
  <1>6. e.stage \in {"bill", "rewrite"} /\ (e.stage = "bill" => todo = {}) /\ (e.stage = "rewrite" => todo # {})
    BY <1>2, <1>3
  <1>7. e.cost = e.paid \/ (e.tried = {} /\ e.stage = "bill")
    BY <1>2, <1>3, <1>5
  <1>8. /\ IsFinds(w.finds) /\ (\E n \in Nat : DOMAIN w.draft = 1 .. n) /\ DOMAIN w.sections = DOMAIN w.draft
        /\ \A i \in DOMAIN w.sections : w.sections[i] # w.draft[i] => i \in w.tried
    BY <1>1 DEF WritingFits
  <1>9. WritingFits(e)
    BY <1>3, <1>4, <1>5, <1>6, <1>7, <1>8 DEF WritingFits
  <1> QED BY <1>1, <1>2, <1>3, <1>9, WritingMoves DEF Writes

LEMMA TriedFits ==
  ASSUME NEW w, WritingFits(w), w.stage = "rewrite", NEW i, i = NextSection(w), NEW sections, NEW calls,
         DOMAIN sections = DOMAIN w.sections, \A j \in DOMAIN sections \ {i} : sections[j] = w.sections[j],
         NEW e, e = Tried(w, i, sections, calls)
  PROVE  WritingFits(e) /\ e.n = w.n /\ i \in DOMAIN w.sections
  <1>1. PICK stage, todo, tried, cost, paid :
          /\ stage = (IF w.todo = {i} THEN "bill" ELSE "rewrite") /\ todo = w.todo \ {i} /\ tried = w.tried \cup {i}
          /\ cost = w.cost + calls /\ paid = w.paid + calls
    OBVIOUS
  <1>2. e = [w EXCEPT !.stage = stage, !.todo = todo, !.tried = tried, !.sections = sections, !.cost = cost, !.paid = paid]
    BY <1>1 DEF Tried
  <1>3. /\ IsWritten(e) /\ e.stage = stage /\ e.n = w.n /\ e.finds = w.finds /\ e.draft = w.draft /\ e.sections = sections
        /\ e.verdict = w.verdict /\ e.todo = todo /\ e.tried = tried /\ e.cost = cost /\ e.paid = paid
    BY <1>2 DEF WritingFits, IsWritten
  <1>4. Worst(e) = Worst(w)
    BY <1>3 DEF Worst
  <1>5. i \in w.todo /\ i \in DOMAIN w.draft
    <2>1. PICK draft, verdict, n, issues : /\ draft = w.draft /\ verdict = w.verdict /\ n \in Nat /\ DOMAIN draft = 1 .. n
                                           /\ IsVerdict(verdict) /\ issues = ProblemSections(draft, verdict)
      BY DEF WritingFits
    <2>2. n \in Nat /\ IsVerdict(verdict) /\ DOMAIN draft = 1 .. n
      BY <2>1
    <2>3. issues = ProblemSections(draft, verdict)
      BY <2>1
    <2>4. IsIssues(issues, n) /\ DOMAIN issues \subseteq DOMAIN draft
      <3>1. IsIssues(issues, n)
        BY <2>2, <2>3, ProblemsAre
      <3>2. DOMAIN issues = {j \in DOMAIN draft : Found(draft, verdict, j) # {}}
        BY <2>3 DEF ProblemSections
      <3> QED BY <3>1, <3>2
    <2>5. w.todo \subseteq DOMAIN issues /\ w.todo # {}
      <3>1. Chosen(issues) \subseteq DOMAIN issues
        BY <2>4, ChosenAre
      <3>2. w.tried \cup w.todo = Chosen(issues) /\ w.todo # {}
        BY <2>1 DEF WritingFits, Worst
      <3> QED BY <3>1, <3>2
    <2>6. i = WorstOf(w.todo, issues)
      BY <2>1 DEF NextSection
    <2>7. WorstOf(w.todo, issues) \in w.todo
      BY <2>4, <2>5, WorstIs
    <2> QED BY <2>1, <2>4, <2>5, <2>6, <2>7
  <1>6. w.cost = w.paid /\ DOMAIN w.sections = DOMAIN w.draft /\ \A j \in DOMAIN w.sections : w.sections[j] # w.draft[j] => j \in w.tried
    BY DEF WritingFits
  <1>7. tried \cup todo = Worst(w) /\ (stage = "bill" => todo = {}) /\ (stage = "rewrite" => todo # {})
    BY <1>1, <1>5 DEF WritingFits
  <1>8. \A j \in DOMAIN sections : sections[j] # w.draft[j] => j \in tried
    BY <1>1, <1>6
  <1>9. stage \in {"bill", "rewrite"} /\ cost = paid
    BY <1>1, <1>6
  <1>10. WritingFits(e)
    BY <1>3, <1>4, <1>6, <1>7, <1>8, <1>9 DEF WritingFits
  <1> QED BY <1>3, <1>5, <1>6, <1>10

LEMMA RewritingDocs ==
  ASSUME DocsInv, NEW r \in Authors, Rewrite(r) \/ RewriteFails(r)
  PROVE  DocsInv'
  <1>1. PICK w, i : w = writing[r] /\ i = NextSection(w) /\ WritingFits(w) /\ w.stage = "rewrite"
    BY DEF DocsInv, WritingInOrder, Rewrite, RewriteFails, At
  <1>2. PICK sections, calls, e :
          /\ DOMAIN sections = DOMAIN w.sections /\ \A j \in DOMAIN sections \ {i} : sections[j] = w.sections[j]
          /\ e = Tried(w, i, sections, calls)
          /\ writing' = [writing EXCEPT ![r] = e] /\ UNCHANGED <<bills, library, asked>>
    <2>1. CASE Rewrite(r)
      <3>1. PICK x, sections, one : /\ one = 1 /\ sections = [w.sections EXCEPT ![i] = x]
                                    /\ writing' = [writing EXCEPT ![r] = Tried(w, i, sections, one)] /\ UNCHANGED <<bills, library, asked>>
        BY <1>1, <2>1, ZenonT(40) DEF Rewrite, Keep, NoSave
      <3>2. DOMAIN sections = DOMAIN w.sections /\ \A j \in DOMAIN sections \ {i} : sections[j] = w.sections[j]
        BY <3>1
      <3> QED BY <3>1, <3>2
    <2>2. CASE RewriteFails(r)
      BY <1>1, <2>2 DEF RewriteFails, Keep, NoSave
    <2> QED BY <2>1, <2>2
  <1>3. DOMAIN sections = DOMAIN w.sections /\ \A j \in DOMAIN sections \ {i} : sections[j] = w.sections[j]
    BY <1>2
  <1>4. e = Tried(w, i, sections, calls)
    BY <1>2
  <1>5. WritingFits(e) /\ e.n = w.n
    BY <1>1, <1>3, <1>4, TriedFits
  <1> QED BY <1>1, <1>2, <1>5, WritingMoves DEF Writes

LEMMA BeginningDocs ==
  ASSUME DocsInv, NEW r \in Authors, BeginGenerate(r)
  PROVE  DocsInv'
  <1>1. PICK reviewed, finds, k : /\ finds \in CollectSources /\ k = asked + 1 /\ asked' = k /\ writing[r].stage = "idle"
                                  /\ writing' = [writing EXCEPT ![r] = Document("draft", k, reviewed, finds)]
                                  /\ UNCHANGED <<bills, library>>
    BY DEF BeginGenerate, At, Keep, NoSave
  <1>2. asked \in Nat /\ k \in Nat /\ k \in 1 .. k /\ (\A n \in 1 .. asked : n \in 1 .. k /\ n # k)
    BY <1>1 DEF DocsInv, LibraryInOrder
  <1>3. IsFinds(finds)
    <2>1. CASE finds = {}
      BY <2>1, FS_EmptySet DEF IsFinds
    <2>2. CASE finds \in Finds
      BY <2>2, DocGenAssumption DEF IsFinds
    <2> QED BY <1>1, <2>1, <2>2 DEF CollectSources
  <1>4. PICK stage, e : stage = "draft" /\ stage \in {"idle", "draft"} /\ e = Document(stage, k, reviewed, finds) /\ writing' = [writing EXCEPT ![r] = e]
    BY <1>1
  <1>5. WritingFits(e) /\ e.stage = stage /\ e.n = k
    BY <1>3, <1>4, DocumentFits
  <1>6. writing' = [q \in Authors |-> writing'[q]] /\ writing'[r] = e /\ \A q \in Authors \ {r} : writing'[q] = writing[q]
    BY <1>4 DEF DocsInv, WritingInOrder
  <1>7. k \notin DOMAIN bills /\ k \notin DOMAIN library
    BY <1>2 DEF DocsInv, LibraryInOrder
  <1>8. ASSUME NEW q \in Authors PROVE (WritingFits(writing[q]) /\ NumberFits(writing[q]))'
    <2>1. CASE q = r
      <3>1. NumberFits(e)'
        BY <1>1, <1>2, <1>4, <1>5, <1>7 DEF NumberFits
      <3> QED BY <1>5, <1>6, <2>1, <3>1 DEF WritingFits, IsWritten, IsVerdict, IsFinds, Worst, NumberFits
    <2>2. CASE q # r
      <3>1. PICK w : w = writing[q] /\ w = writing'[q] /\ WritingFits(w) /\ NumberFits(w)
        BY <1>6, <2>2 DEF DocsInv, WritingInOrder
      <3>2. NumberFits(w)'
        BY <1>1, <1>2, <3>1 DEF NumberFits
      <3> QED BY <3>1, <3>2 DEF WritingFits, IsWritten, IsVerdict, IsFinds, Worst, NumberFits
    <2> QED BY <2>1, <2>2
  <1>9. \A p, q \in Authors : Writes(p)' /\ Writes(q)' /\ writing'[p].n = writing'[q].n => p = q
    <2>1. \A q \in Authors \ {r} : Writes(q)' => Writes(q) /\ writing'[q].n = writing[q].n /\ writing[q].n # k
      BY <1>2, <1>6 DEF DocsInv, WritingInOrder, NumberFits, Writes
    <2> QED BY <1>5, <1>6, <2>1 DEF DocsInv, WritingInOrder
  <1>10. LibraryInOrder'
    BY <1>1, <1>2 DEF DocsInv, LibraryInOrder
  <1> QED BY <1>6, <1>8, <1>9, <1>10 DEF DocsInv, WritingInOrder

LEMMA BillingDocs ==
  ASSUME DocsInv, NEW r \in Authors, NEW saved \in BOOLEAN, SaveBill(r, saved)
  PROVE  DocsInv'
  <1>1. PICK w : w = writing[r] /\ WritingFits(w) /\ NumberFits(w) /\ w.stage = "bill"
    BY DEF DocsInv, WritingInOrder, SaveBill, At
  <1>2. PICK sources, stage, e :
          /\ sources \in ShownSources(w.finds, w.cited) /\ stage = "save" /\ e = [w EXCEPT !.stage = stage, !.sources = sources]
          /\ writing' = [writing EXCEPT ![r] = e] /\ UNCHANGED <<library, asked>>
    BY <1>1 DEF SaveBill, Keep
  <1>3. /\ IsWritten(e) /\ e.stage = stage /\ e.n = w.n /\ e.finds = w.finds /\ e.cited = w.cited /\ e.draft = w.draft
        /\ e.sections = w.sections /\ e.verdict = w.verdict /\ e.todo = w.todo /\ e.tried = w.tried /\ e.cost = w.cost
        /\ e.paid = w.paid /\ e.sources = sources
    BY <1>1, <1>2 DEF WritingFits, IsWritten
  <1>4. WritingFits(e)
    BY <1>1, <1>2, <1>3 DEF WritingFits, Worst
  <1>5. PICK k : k = w.n /\ k \in 1 .. asked /\ k \notin DOMAIN library /\ k \notin DOMAIN bills
    BY <1>1 DEF NumberFits
  <1>6. /\ DOMAIN bills' \subseteq DOMAIN bills \cup {k} /\ \A n \in DOMAIN bills : n \in DOMAIN bills' /\ bills'[n] = bills[n]
        /\ k \in DOMAIN bills' => bills'[k] = w.cost
    <2>1. bills' = Put(bills, k, w.cost) \/ bills' = bills
      BY <1>1, <1>5 DEF SaveBill
    <2>2. CASE bills' = bills
      BY <1>5, <2>2
    <2>3. CASE bills' = Put(bills, k, w.cost)
      <3>1. PICK v, g : v = w.cost /\ g = Put(bills, k, v) /\ bills' = g
        BY <2>3
      <3>2. DOMAIN g = DOMAIN bills \cup {k} /\ g[k] = v /\ \A x \in DOMAIN bills : x # k => g[x] = bills[x]
        BY <3>1 DEF Put
      <3> QED BY <1>5, <3>1, <3>2
    <2> QED BY <2>1, <2>2, <2>3
  <1>7. writing' = [q \in Authors |-> writing'[q]] /\ writing'[r] = e /\ \A q \in Authors \ {r} : writing'[q] = writing[q]
    BY <1>2 DEF DocsInv, WritingInOrder
  <1>8. ASSUME NEW q \in Authors PROVE (WritingFits(writing[q]) /\ NumberFits(writing[q]))'
    <2>1. CASE q = r
      <3>1. NumberFits(e)'
        BY <1>2, <1>3, <1>5, <1>6 DEF NumberFits
      <3> QED BY <1>4, <1>7, <2>1, <3>1 DEF WritingFits, IsWritten, IsVerdict, IsFinds, Worst, NumberFits
    <2>2. CASE q # r
      <3>1. PICK v : v = writing[q] /\ v = writing'[q] /\ WritingFits(v) /\ NumberFits(v)
        BY <1>7, <2>2 DEF DocsInv, WritingInOrder
      <3>2. v.stage # "idle" => v.n # k
        BY <1>1, <1>5, <2>2, <3>1 DEF DocsInv, WritingInOrder, Writes
      <3>3. NumberFits(v)'
        BY <1>2, <1>6, <3>1, <3>2 DEF NumberFits
      <3> QED BY <3>1, <3>3 DEF WritingFits, IsWritten, IsVerdict, IsFinds, Worst, NumberFits
    <2> QED BY <2>1, <2>2
  <1>9. \A p, q \in Authors : Writes(p)' /\ Writes(q)' /\ writing'[p].n = writing'[q].n => p = q
    <2>1. \A q \in Authors : Writes(q)' => Writes(q) /\ writing'[q].n = writing[q].n
      BY <1>1, <1>3, <1>7 DEF Writes
    <2> QED BY <2>1 DEF DocsInv, WritingInOrder
  <1>10. LibraryInOrder'
    BY <1>2, <1>5, <1>6 DEF DocsInv, LibraryInOrder
  <1> QED BY <1>7, <1>8, <1>9, <1>10 DEF DocsInv, WritingInOrder

LEMMA SavingDocs ==
  ASSUME DocsInv, NEW r \in Authors, NEW saved \in BOOLEAN, SaveDocument(r, saved)
  PROVE  DocsInv'
  <1>1. PICK w, k : w = writing[r] /\ k = w.n /\ WritingFits(w) /\ NumberFits(w) /\ w.stage = "save"
    BY DEF DocsInv, WritingInOrder, SaveDocument, At
  <1>2. PICK e : e = NoDocument /\ e.stage = "idle" /\ WritingFits(e) /\ writing' = [writing EXCEPT ![r] = e] /\ UNCHANGED <<bills, asked>>
    BY NoDocumentFits DEF SaveDocument, Keep
  <1>3. k \in 1 .. asked /\ k \notin DOMAIN library /\ (k \in DOMAIN bills => bills[k] = w.cost)
    BY <1>1 DEF NumberFits
  <1>4. /\ DOMAIN library' \subseteq DOMAIN library \cup {k} /\ \A n \in DOMAIN library : n \in DOMAIN library' /\ library'[n] = library[n]
        /\ k \in DOMAIN library' => library'[k] = w
    <2>1. library' = Put(library, k, w) \/ library' = library
      BY <1>1 DEF SaveDocument
    <2>2. CASE library' = library
      BY <1>3, <2>2
    <2>3. CASE library' = Put(library, k, w)
      <3>1. PICK g : g = Put(library, k, w) /\ library' = g
        BY <2>3
      <3>2. DOMAIN g = DOMAIN library \cup {k} /\ g[k] = w /\ \A x \in DOMAIN library : x # k => g[x] = library[x]
        BY <3>1 DEF Put
      <3> QED BY <1>3, <3>1, <3>2
    <2> QED BY <2>1, <2>2, <2>3
  <1>5. writing' = [q \in Authors |-> writing'[q]] /\ writing'[r] = e /\ \A q \in Authors \ {r} : writing'[q] = writing[q]
    BY <1>2 DEF DocsInv, WritingInOrder
  <1>6. ASSUME NEW q \in Authors PROVE (WritingFits(writing[q]) /\ NumberFits(writing[q]))'
    <2>1. CASE q = r
      <3>1. NumberFits(e)'
        BY <1>2 DEF NumberFits
      <3> QED BY <1>2, <1>5, <2>1, <3>1 DEF WritingFits, IsWritten, IsVerdict, IsFinds, Worst, NumberFits
    <2>2. CASE q # r
      <3>1. PICK v : v = writing[q] /\ v = writing'[q] /\ WritingFits(v) /\ NumberFits(v)
        BY <1>5, <2>2 DEF DocsInv, WritingInOrder
      <3>2. v.stage # "idle" => v.n # k
        BY <1>1, <2>2, <3>1 DEF DocsInv, WritingInOrder, Writes
      <3>3. NumberFits(v)'
        BY <1>2, <1>4, <3>1, <3>2 DEF NumberFits
      <3> QED BY <3>1, <3>3 DEF WritingFits, IsWritten, IsVerdict, IsFinds, Worst, NumberFits
    <2> QED BY <2>1, <2>2
  <1>7. \A p, q \in Authors : Writes(p)' /\ Writes(q)' /\ writing'[p].n = writing'[q].n => p = q
    <2>1. \A q \in Authors : Writes(q)' => Writes(q) /\ writing'[q].n = writing[q].n
      BY <1>2, <1>5 DEF Writes
    <2> QED BY <2>1 DEF DocsInv, WritingInOrder
  <1>8. LibraryInOrder'
    <2>1. asked' = asked /\ bills' = bills
      BY <1>2
    <2>2. ASSUME NEW n \in DOMAIN library'
          PROVE  n \in 1 .. asked /\ WritingFits(library'[n]) /\ library'[n].stage = "save" /\ (n \in DOMAIN bills => bills[n] = library'[n].cost)
      <3>1. CASE n \in DOMAIN library
        BY <1>4, <3>1 DEF DocsInv, LibraryInOrder
      <3>2. CASE n \notin DOMAIN library
        <4>1. n = k /\ library'[n] = w
          BY <1>4, <3>2
        <4> QED BY <1>1, <1>3, <4>1
      <3> QED BY <3>1, <3>2
    <2>3. asked \in Nat /\ DOMAIN bills \subseteq 1 .. asked
      BY DEF DocsInv, LibraryInOrder
    <2>4. ASSUME NEW n \in DOMAIN library' PROVE WritingFits(library[n])'
      BY <2>2, <2>4 DEF WritingFits, IsWritten, IsVerdict, IsFinds, Worst
    <2> QED BY <2>1, <2>2, <2>3, <2>4 DEF LibraryInOrder
  <1> QED BY <1>5, <1>6, <1>7, <1>8 DEF DocsInv, WritingInOrder

LEMMA OtherDocs ==
  ASSUME DocsInv, Dies \/ Render \/ DeleteDocument \/ UNCHANGED docgenVars
  PROVE  DocsInv'
  <1>1. CASE Dies
    <2>1. writing' = [r \in Authors |-> NoDocument] /\ UNCHANGED <<bills, library, asked>>
      BY <1>1 DEF Dies, NoSave
    <2>2. PICK e : e = NoDocument /\ e.stage = "idle" /\ WritingFits(e)
      BY NoDocumentFits
    <2>3. \A r \in Authors : writing'[r] = e
      BY <2>1, <2>2
    <2>4. LibraryInOrder'
      BY <2>1 DEF DocsInv, LibraryInOrder
    <2>5. ASSUME NEW r \in Authors PROVE (WritingFits(writing[r]) /\ NumberFits(writing[r]) /\ ~Writes(r))'
      BY <2>2, <2>3 DEF WritingFits, IsWritten, IsVerdict, IsFinds, Worst, NumberFits, Writes
    <2> QED BY <2>1, <2>4, <2>5 DEF DocsInv, WritingInOrder
  <1>2. CASE Render \/ UNCHANGED docgenVars
    <2>1. UNCHANGED <<writing, bills, library, asked>>
      BY <1>2 DEF Render, NoSave, docgenVars
    <2>2. LibraryInOrder'
      BY <2>1 DEF DocsInv, LibraryInOrder
    <2>3. WritingInOrder'
      BY <2>1 DEF DocsInv, WritingInOrder, WritingFits, NumberFits, IsWritten, IsVerdict, IsFinds, Worst, Writes
    <2> QED BY <2>2, <2>3 DEF DocsInv
  <1>3. CASE DeleteDocument
    <2>1. PICK n : library' = [m \in DOMAIN library \ {n} |-> library[m]] /\ UNCHANGED <<writing, bills, asked>>
      BY <1>3 DEF DeleteDocument
    <2>2. LibraryInOrder'
      BY <2>1 DEF DocsInv, LibraryInOrder
    <2>3. WritingInOrder'
      BY <2>1 DEF DocsInv, WritingInOrder, WritingFits, NumberFits, IsWritten, IsVerdict, IsFinds, Worst, Writes
    <2> QED BY <2>2, <2>3 DEF DocsInv
  <1> QED BY <1>1, <1>2, <1>3

LEMMA DocsStart == DocGenInit => DocsInv
  <1> SUFFICES ASSUME DocGenInit PROVE DocsInv
    OBVIOUS
  <1>1. PICK e : e = NoDocument /\ e.stage = "idle" /\ WritingFits(e) /\ writing = [r \in Authors |-> e]
    BY NoDocumentFits DEF DocGenInit
  <1>2. WritingInOrder
    BY <1>1 DEF WritingInOrder, NumberFits, Writes
  <1>3. LibraryInOrder
    BY EmptyList DEF DocGenInit, LibraryInOrder
  <1> QED BY <1>2, <1>3 DEF DocsInv

\* ---- the copies ----
LEMMA CopiesStart == DocGenInit => CopiesInOrder
  BY EmptyList, FS_EmptySet DEF DocGenInit, CopiesInOrder

LEMMA RenderingCopies ==
  ASSUME CopiesInOrder, Render
  PROVE  CopiesInOrder'
  <1>1. PICK D, m, T : /\ D = DOMAIN copies /\ m = MaxDedup /\ m \in Nat /\ m # 0 /\ rendered \in Nat
                       /\ T = {<<"t", k>> : k \in 0 .. m - 1} /\ D \subseteq T /\ (rendered <= m => Cardinality(D) = rendered)
    BY DocGenAssumption DEF CopiesInOrder
  <1>2. IsFiniteSet(T) /\ Cardinality(T) = m
    <2>1. PICK g : g = [k \in 0 .. m - 1 |-> <<"t", k>>]
      OBVIOUS
    <2>2. g \in Bijection(0 .. m - 1, T)
      <3>1. g \in [0 .. m - 1 -> T]
        BY <1>1, <2>1
      <3>2. \A j, k \in 0 .. m - 1 : g[j] = g[k] => j = k
        BY <2>1
      <3>3. \A t \in T : \E k \in 0 .. m - 1 : g[k] = t
        BY <1>1, <2>1
      <3> QED BY <3>1, <3>2, <3>3, Fun_IsBij
    <2>3. 0 \in Int /\ m - 1 \in Int /\ ~(0 > m - 1) /\ m - 1 - 0 + 1 = m
      BY <1>1
    <2>4. IsFiniteSet(0 .. m - 1) /\ Cardinality(0 .. m - 1) = m
      BY <2>3, FS_Interval
    <2> QED BY <2>2, <2>4, FS_Bijection, Fun_ExistsBij
  <1>3. PICK free : free = {k \in 0 .. m - 1 : <<"t", k>> \notin D} /\ free = {k \in 0 .. (MaxDedup - 1) : <<"t", k>> \notin DOMAIN copies}
    BY <1>1
  <1>4. PICK t : t = DedupTarget("t") /\ t = <<"t", IF free = {} THEN 0 ELSE Least(free)>>
    BY <1>3 DEF DedupTarget
  <1>5. t \in T /\ (free # {} => t \notin D)
    <2>1. CASE free = {}
      BY <1>1, <1>4, <2>1
    <2>2. CASE free # {}
      <3>1. free \subseteq Nat
        BY <1>1, <1>3
      <3>2. \E k \in free : \A j \in free : k <= j
        BY <2>2, <3>1, LeastNumber
      <3>3. PICK k \in free : t = <<"t", k>>
        BY <1>4, <2>2, <3>2 DEF Least
      <3> QED BY <1>1, <1>3, <3>3
    <2> QED BY <2>1, <2>2
  <1>6. rendered' = rendered + 1 /\ DOMAIN copies' = D \cup {t}
    <2>1. copies' = Put(copies, t, rendered + 1) /\ rendered' = rendered + 1
      BY <1>4 DEF Render
    <2> QED BY <1>1, <2>1, PutIs
  <1>7. ASSUME rendered + 1 <= m PROVE Cardinality(D \cup {t}) = rendered + 1
    <2>1. Cardinality(D) = rendered /\ rendered < m /\ IsFiniteSet(D)
      BY <1>1, <1>2, <1>7, FS_Subset
    <2>2. free # {}
      <3> SUFFICES ASSUME free = {} PROVE FALSE
        OBVIOUS
      <3>1. T \subseteq D
        BY <1>1, <1>3
      <3>2. T = D
        BY <1>1, <3>1
      <3> QED BY <1>1, <1>2, <2>1, <3>2
    <2>3. t \notin D
      BY <1>5, <2>2
    <2> QED BY <2>1, <2>3, FS_AddElement
  <1> QED BY <1>1, <1>5, <1>6, <1>7 DEF CopiesInOrder

LEMMA DocsSteps == DocsInv /\ CopiesInOrder /\ [DocGenNext]_docgenVars => DocsInv' /\ CopiesInOrder'
  <1> SUFFICES ASSUME DocsInv, CopiesInOrder, [DocGenNext]_docgenVars PROVE DocsInv' /\ CopiesInOrder'
    OBVIOUS
  <1>1. DocsInv'
    <2>1. ASSUME NEW r \in Authors,
                 \/ BeginGenerate(r) \/ DraftFails(r) \/ Draft(r) \/ JudgeFails(r) \/ Judge(r)
                 \/ Rewrite(r) \/ RewriteFails(r)
                 \/ \E saved \in BOOLEAN : SaveBill(r, saved) \/ SaveDocument(r, saved)
          PROVE  DocsInv'
      BY <2>1, BeginningDocs, FailingDocs, DraftingDocs, UnjudgedDocs, JudgingDocs, RewritingDocs, BillingDocs, SavingDocs
    <2> QED BY <2>1, OtherDocs DEF DocGenNext
  <1>2. CASE Render
    BY <1>1, <1>2, RenderingCopies
  <1>3. CASE UNCHANGED <<copies, rendered>>
    BY <1>1, <1>3 DEF CopiesInOrder
  <1>4. Render \/ UNCHANGED <<copies, rendered>>
    BY DEF DocGenNext, docgenVars, BeginGenerate, DraftFails, Draft, JudgeFails, Judge, Rewrite, RewriteFails, SaveBill,
           SaveDocument, Dies, DeleteDocument, Elsewhere
  <1> QED BY <1>1, <1>2, <1>3, <1>4

LEMMA CopiesAreKept == CopiesInOrder => NoCopyIsLost
  BY DEF CopiesInOrder, NoCopyIsLost

(***************************************************************************)
(* For any number of authors, drafts, judgements and sources: a saved      *)
(* document has the sections of its draft, the worst of the faulted ones   *)
(* written again or left as they were, a bill for every call that          *)
(* answered, each source once; and no copy is written over while a counter *)
(* is free (generate_document_reviewed, docgen.generate, save_to_nas).     *)
(***************************************************************************)
THEOREM DocumentsKept == DocGenSpec => []DocumentsAreKept
  <1>1. DocGenInit => DocsInv /\ CopiesInOrder
    BY DocsStart, CopiesStart
  <1>2. DocsInv /\ CopiesInOrder /\ [DocGenNext]_docgenVars => DocsInv' /\ CopiesInOrder'
    BY DocsSteps
  <1>3. DocsInv /\ CopiesInOrder => DocumentsAreKept
    BY LibraryIsKept, CopiesAreKept DEF DocsInv, DocumentsAreKept
  <1> QED BY <1>1, <1>2, <1>3, PTL DEF DocGenSpec

-----------------------------------------------------------------------------
(* Search: lists of what is found *)

Strict(S, R) == /\ \A x \in S : <<x, x>> \notin R
                /\ \A x, y, z \in S : <<x, y>> \in R /\ <<y, z>> \in R => <<x, z>> \in R
                /\ \A x, y \in S : x = y \/ <<x, y>> \in R \/ <<y, x>> \in R
IsSequence(s) == s \in Seq({s[i] : i \in DOMAIN s})

LEMMA SequenceIs == \A s : IsSequence(s) => Len(s) \in Nat /\ DOMAIN s = 1 .. Len(s)
  BY DEF IsSequence

LEMMA FunctionIsSequence ==
  ASSUME NEW n \in Nat, NEW s, s = [i \in 1 .. n |-> s[i]]
  PROVE  IsSequence(s) /\ Len(s) = n /\ DOMAIN s = 1 .. n
  BY DEF IsSequence

\* A strict order puts each element of a finite set at a place of its own.
LEMMA SortedIs ==
  ASSUME NEW S, IsFiniteSet(S), NEW R, Strict(S, R), NEW s, s = Sorted(S, R)
  PROVE  /\ IsSequence(s) /\ Len(s) = Cardinality(S)
         /\ \A k \in DOMAIN s : s[k] \in S
         /\ \A k, l \in DOMAIN s : k < l => <<s[k], s[l]>> \in R
         /\ \A k, l \in DOMAIN s : s[k] = s[l] => k = l
         /\ \A x \in S : \E k \in DOMAIN s : s[k] = x
  <1> DEFINE Below(x) == {y \in S : <<y, x>> \in R}
  <1>1. PICK n : n = Cardinality(S) /\ n \in Nat
    BY FS_CardinalityType
  <1>2. ASSUME NEW x \in S PROVE Cardinality(Below(x)) \in 0 .. n - 1 /\ IsFiniteSet(Below(x))
    <2>1. Below(x) \subseteq S /\ x \in S \ Below(x)
      BY DEF Strict
    <2>2. IsFiniteSet(Below(x)) /\ Cardinality(Below(x)) < n
      <3> HIDE DEF Below
      <3>1. IsFiniteSet(Below(x)) /\ Cardinality(Below(x)) <= Cardinality(S) /\ (Cardinality(S) = Cardinality(Below(x)) => S = Below(x))
        BY <2>1, FS_Subset
      <3>2. Cardinality(Below(x)) \in Nat
        BY <3>1, FS_CardinalityType
      <3> QED BY <1>1, <2>1, <3>1, <3>2
    <2> HIDE DEF Below
    <2>3. Cardinality(Below(x)) \in Nat
      BY <2>2, FS_CardinalityType
    <2> QED BY <1>1, <2>2, <2>3
  <1>3. ASSUME NEW x \in S, NEW y \in S, <<x, y>> \in R PROVE Cardinality(Below(x)) < Cardinality(Below(y))
    <2>1. Below(x) \subseteq Below(y) /\ x \in Below(y) \ Below(x)
      BY <1>3 DEF Strict
    <2>2. IsFiniteSet(Below(y)) /\ Cardinality(Below(y)) \in Nat /\ Cardinality(Below(x)) \in Nat
      <3> HIDE DEF Below
      <3> QED BY <1>2
    <2> HIDE DEF Below
    <2>3. Cardinality(Below(x)) <= Cardinality(Below(y)) /\ (Cardinality(Below(y)) = Cardinality(Below(x)) => Below(y) = Below(x))
      BY <2>1, <2>2, FS_Subset
    <2> QED BY <2>1, <2>2, <2>3
  <1> HIDE DEF Below
  <1>4. ASSUME NEW x \in S, NEW y \in S, Cardinality(Below(x)) = Cardinality(Below(y)) PROVE x = y
    <2>1. Cardinality(Below(x)) \in Int /\ Cardinality(Below(y)) \in Int
      BY <1>2
    <2>2. ~(<<x, y>> \in R) /\ ~(<<y, x>> \in R)
      BY <1>3, <1>4, <2>1
    <2> QED BY <2>2 DEF Strict
  <1> DEFINE f == [x \in S |-> Cardinality(Below(x)) + 1]
  <1>5. f \in Surjection(S, 1 .. n)
    <2>1. IsFiniteSet(1 .. n) /\ Cardinality(1 .. n) = n
      BY <1>1, FS_Interval
    <2>2. f \in [S -> 1 .. n]
      BY <1>1, <1>2
    <2>3. \A x, y \in S : f[x] = f[y] => x = y
      BY <1>2, <1>4
    <2> HIDE DEF f
    <2>4. f \in Injection(S, 1 .. n)
      BY <2>2, <2>3 DEF Injection, IsInjective
    <2> QED BY <1>1, <2>1, <2>4, FS_Injection
  <1>6. ASSUME NEW k \in 1 .. n PROVE \E x \in S : Cardinality(Below(x)) = k - 1
    <2>1. PICK x \in S : f[x] = k
      BY <1>5 DEF Surjection
    <2> QED BY <1>2, <2>1
  <1>7. s = [k \in 1 .. n |-> CHOOSE x \in S : Cardinality(Below(x)) = k - 1]
    BY <1>1 DEF Sorted, Below
  <1>8. IsSequence(s) /\ Len(s) = n /\ DOMAIN s = 1 .. n
    <2>1. s = [k \in 1 .. n |-> s[k]]
      BY <1>7
    <2> QED BY <1>1, <2>1, FunctionIsSequence
  <1>9. ASSUME NEW k \in 1 .. n PROVE s[k] \in S /\ Cardinality(Below(s[k])) = k - 1
    BY <1>6, <1>7
  <1>10. ASSUME NEW k \in 1 .. n, NEW l \in 1 .. n, k < l PROVE <<s[k], s[l]>> \in R
    <2>1. s[k] \in S /\ s[l] \in S /\ Cardinality(Below(s[k])) = k - 1 /\ Cardinality(Below(s[l])) = l - 1
      BY <1>9
    <2>2. CASE s[k] = s[l]
      BY <1>1, <1>10, <2>1, <2>2
    <2>3. CASE <<s[l], s[k]>> \in R
      BY <1>1, <1>3, <1>10, <2>1, <2>3
    <2> QED BY <2>1, <2>2, <2>3 DEF Strict
  <1>11. ASSUME NEW k \in 1 .. n, NEW l \in 1 .. n, s[k] = s[l] PROVE k = l
    <2>1. k - 1 = l - 1
      BY <1>9, <1>11
    <2> QED BY <1>1, <2>1
  <1>12. ASSUME NEW x \in S PROVE \E k \in 1 .. n : s[k] = x
    <2>1. PICK k : k = Cardinality(Below(x)) + 1 /\ k \in 1 .. n
      BY <1>1, <1>2
    <2>2. Cardinality(Below(s[k])) = k - 1 /\ s[k] \in S
      BY <1>9, <2>1
    <2>3. k - 1 = Cardinality(Below(x))
      BY <1>2, <2>1
    <2>4. s[k] = x
      BY <1>4, <2>2, <2>3
    <2> QED BY <2>1, <2>4
  <1> QED BY <1>1, <1>8, <1>9, <1>10, <1>11, <1>12

LEMMA KeptIs ==
  ASSUME NEW s, IsSequence(s), NEW S, S \subseteq DOMAIN s, NEW t, t = Kept(s, S)
  PROVE  /\ IsSequence(t) /\ Len(t) <= Len(s)
         /\ \E o : /\ \A k \in DOMAIN t : o[k] \in S /\ t[k] = s[o[k]]
                   /\ \A k, l \in DOMAIN t : k < l => o[k] < o[l]
                   /\ \A x \in S : \E k \in DOMAIN t : o[k] = x
  <1>1. PICK n : n = Len(s) /\ n \in Nat /\ DOMAIN s = 1 .. n
    BY SequenceIs
  <1>2. IsFiniteSet(1 .. n) /\ Cardinality(1 .. n) = n
    <2>1. n \in Int /\ 1 \in Int /\ (1 > n => n = 0) /\ n - 1 + 1 = n
      BY <1>1
    <2> QED BY <2>1, FS_Interval
  <1>3. IsFiniteSet(S) /\ Cardinality(S) <= n
    BY <1>1, <1>2, FS_Subset
  <1>4. PICK R : R = Upwards(S)
    OBVIOUS
  <1>5. Strict(S, R)
    <2>1. S \subseteq Int
      BY <1>1
    <2>2. \A x, y \in S : <<x, y>> \in R <=> x < y
      BY <1>4 DEF Upwards
    <2> QED BY <2>1, <2>2 DEF Strict
  <1>6. PICK o : o = Sorted(S, R)
    OBVIOUS
  <1>7. /\ IsSequence(o) /\ Len(o) = Cardinality(S)
        /\ \A k \in DOMAIN o : o[k] \in S
        /\ \A k, l \in DOMAIN o : k < l => <<o[k], o[l]>> \in R
        /\ \A x \in S : \E k \in DOMAIN o : o[k] = x
    BY <1>3, <1>5, <1>6, SortedIs
  <1>8. PICK m : m = Len(o) /\ m \in Nat /\ DOMAIN o = 1 .. m
    BY <1>7, SequenceIs
  <1>9. t = [k \in 1 .. m |-> s[o[k]]]
    BY <1>4, <1>6, <1>8 DEF Kept
  <1>10. IsSequence(t) /\ Len(t) = m /\ DOMAIN t = 1 .. m
    <2>1. t = [k \in 1 .. m |-> t[k]]
      BY <1>9
    <2> QED BY <1>8, <2>1, FunctionIsSequence
  <1>11. \A k, l \in 1 .. m : k < l => o[k] < o[l]
    BY <1>4, <1>7, <1>8 DEF Upwards
  <1> QED BY <1>1, <1>3, <1>7, <1>8, <1>9, <1>10, <1>11

LEMMA TakeIs ==
  ASSUME NEW s, IsSequence(s), NEW n \in Nat, NEW t, t = Take(s, n)
  PROVE  IsSequence(t) /\ Len(t) <= n /\ Len(t) <= Len(s) /\ \A k \in DOMAIN t : k \in DOMAIN s /\ t[k] = s[k]
  <1>1. PICK m : m = Len(s) /\ m \in Nat /\ DOMAIN s = 1 .. m
    BY SequenceIs
  <1>2. PICK l : l = (IF n < m THEN n ELSE m) /\ l \in Nat /\ l <= m /\ l <= n
    BY <1>1
  <1>3. t = SubSeq(s, 1, l)
    BY <1>1, <1>2 DEF Take
  <1>4. t = [i \in 1 .. l |-> s[i]]
    BY <1>1, <1>2, <1>3 DEF IsSequence
  <1>5. IsSequence(t) /\ Len(t) = l /\ DOMAIN t = 1 .. l
    <2>1. t = [i \in 1 .. l |-> t[i]]
      BY <1>4
    <2> QED BY <1>2, <2>1, FunctionIsSequence
  <1> QED BY <1>1, <1>2, <1>4, <1>5

\* Entry k of t is entry o[k][2] of list o[k][1].
FromLists(t, lists, o) ==
  /\ \A k \in DOMAIN t : /\ o[k][1] \in DOMAIN lists /\ o[k][2] \in DOMAIN lists[o[k][1]]
                         /\ t[k] = lists[o[k][1]][o[k][2]]
  /\ \A k, l \in DOMAIN t : k < l => o[k][1] < o[l][1] \/ (o[k][1] = o[l][1] /\ o[k][2] < o[l][2])
  /\ \A i \in DOMAIN lists : \A j \in DOMAIN lists[i] : \E k \in DOMAIN t : o[k] = <<i, j>>

\* Lists one after the other.
LEMMA JoinedIs ==
  ASSUME NEW lists, IsSequence(lists), \A i \in DOMAIN lists : IsSequence(lists[i]), NEW t, t = Joined(lists)
  PROVE  IsSequence(t) /\ \E o : FromLists(t, lists, o)
  <1>1. PICK n : n = Len(lists) /\ n \in Nat /\ DOMAIN lists = 1 .. n
    BY SequenceIs
  <1> DEFINE Row(i) == {<<i, j>> : j \in DOMAIN lists[i]}
             rows == {Row(i) : i \in 1 .. n}
  <1>2. ASSUME NEW i \in 1 .. n PROVE DOMAIN lists[i] \subseteq Int /\ IsFiniteSet(Row(i))
    <2>1. PICK m : m = Len(lists[i]) /\ m \in Nat /\ DOMAIN lists[i] = 1 .. m
      BY <1>1, SequenceIs
    <2>2. IsFiniteSet(1 .. m)
      BY <2>1, FS_Interval
    <2> DEFINE f == [j \in 1 .. m |-> <<i, j>>]
    <2>3. f \in Surjection(1 .. m, Row(i))
      BY <2>1 DEF Surjection
    <2> HIDE DEF f, Row
    <2>4. IsFiniteSet(Row(i))
      BY <2>2, <2>3, FS_Surjection
    <2> QED BY <2>1, <2>4
  <1>3. PICK S : S = Places(lists)
    OBVIOUS
  <1>4. IsFiniteSet(S)
    <2>1. IsFiniteSet(1 .. n)
      BY <1>1, FS_Interval
    <2> DEFINE g == [i \in 1 .. n |-> Row(i)]
    <2>2. g \in Surjection(1 .. n, rows)
      <3> HIDE DEF Row
      <3> QED BY DEF Surjection
    <2> HIDE DEF g, rows
    <2>3. IsFiniteSet(rows)
      BY <2>1, <2>2, FS_Surjection
    <2>4. \A T \in rows : IsFiniteSet(T)
      <3> HIDE DEF Row
      <3> QED BY <1>2 DEF rows
    <2>5. IsFiniteSet(UNION rows)
      BY <2>3, <2>4, FS_UNION
    <2>6. S = UNION rows
      BY <1>1, <1>3 DEF Places, rows
    <2> QED BY <2>5, <2>6
  <1> HIDE DEF Row, rows
  <1>5. /\ \A p \in S : p[1] \in 1 .. n /\ p[2] \in DOMAIN lists[p[1]] /\ p = <<p[1], p[2]>> /\ p[2] \in Int
        /\ \A i \in 1 .. n : \A j \in DOMAIN lists[i] : <<i, j>> \in S
    BY <1>1, <1>2, <1>3 DEF Places
  <1>6. PICK R : R = {p \in Places(lists) \X Places(lists) : p[1][1] < p[2][1] \/ (p[1][1] = p[2][1] /\ p[1][2] < p[2][2])}
    OBVIOUS
  <1>7. \A x, y \in S : <<x, y>> \in R <=> x[1] < y[1] \/ (x[1] = y[1] /\ x[2] < y[2])
    BY <1>3, <1>6
  <1>8. Strict(S, R)
    <2>1. \A x \in S : x[1] \in Int /\ x[2] \in Int
      BY <1>1, <1>5
    <2>2. \A x \in S : <<x, x>> \notin R
      BY <1>7, <2>1
    <2>3. \A x, y, z \in S : <<x, y>> \in R /\ <<y, z>> \in R => <<x, z>> \in R
      BY <1>7, <2>1
    <2>4. ASSUME NEW x \in S, NEW y \in S PROVE x = y \/ <<x, y>> \in R \/ <<y, x>> \in R
      <3>1. CASE x[1] = y[1] /\ x[2] = y[2]
        BY <1>5, <3>1
      <3>2. CASE ~(x[1] = y[1] /\ x[2] = y[2])
        BY <1>7, <2>1, <3>2
      <3> QED BY <3>1, <3>2
    <2> QED BY <2>2, <2>3, <2>4 DEF Strict
  <1>9. PICK o : o = Sorted(S, R)
    OBVIOUS
  <1>10. /\ IsSequence(o)
         /\ \A k \in DOMAIN o : o[k] \in S
         /\ \A k, l \in DOMAIN o : k < l => <<o[k], o[l]>> \in R
         /\ \A x \in S : \E k \in DOMAIN o : o[k] = x
    BY <1>4, <1>8, <1>9, SortedIs
  <1>11. PICK m : m \in Nat /\ DOMAIN o = 1 .. m
    BY <1>10, SequenceIs
  <1>12. t = [k \in 1 .. m |-> lists[o[k][1]][o[k][2]]]
    BY <1>3, <1>6, <1>9, <1>11 DEF Joined
  <1>13. IsSequence(t) /\ DOMAIN t = 1 .. m
    <2>1. t = [k \in 1 .. m |-> t[k]]
      BY <1>12
    <2> QED BY <1>11, <2>1, FunctionIsSequence
  <1>14. \A k, l \in 1 .. m : k < l => o[k][1] < o[l][1] \/ (o[k][1] = o[l][1] /\ o[k][2] < o[l][2])
    BY <1>7, <1>10, <1>11
  <1>15. \A k \in 1 .. m : o[k][1] \in DOMAIN lists /\ o[k][2] \in DOMAIN lists[o[k][1]] /\ t[k] = lists[o[k][1]][o[k][2]]
    BY <1>1, <1>5, <1>10, <1>11, <1>12
  <1>16. \A i \in DOMAIN lists : \A j \in DOMAIN lists[i] : \E k \in 1 .. m : o[k] = <<i, j>>
    BY <1>1, <1>5, <1>10, <1>11
  <1>17. FromLists(t, lists, o)
    BY <1>13, <1>14, <1>15, <1>16 DEF FromLists
  <1> QED BY <1>13, <1>17

Descends(s) == \A i, j \in DOMAIN s : i < j => s[i].score >= s[j].score

LEMMA ByScoreIs ==
  ASSUME NEW s, IsSequence(s), \A i \in DOMAIN s : s[i].score \in Int, NEW t, t = ByScore(s)
  PROVE  /\ IsSequence(t) /\ Len(t) = Len(s) /\ Descends(t)
         /\ \E o : /\ \A k \in DOMAIN t : o[k] \in DOMAIN s /\ t[k] = s[o[k]]
                   /\ \A k, l \in DOMAIN t : o[k] = o[l] => k = l
  <1>1. PICK n : n = Len(s) /\ n \in Nat /\ DOMAIN s = 1 .. n
    BY SequenceIs
  <1>2. IsFiniteSet(1 .. n) /\ Cardinality(1 .. n) = n
    <2>1. n \in Int /\ 1 \in Int /\ (1 > n => n = 0) /\ n - 1 + 1 = n
      BY <1>1
    <2> QED BY <2>1, FS_Interval
  <1>3. PICK R : R = Better(s)
    OBVIOUS
  <1>4. \A x, y \in 1 .. n : <<x, y>> \in R <=> s[x].score > s[y].score \/ (s[x].score = s[y].score /\ x < y)
    BY <1>1, <1>3 DEF Better
  <1>5. Strict(1 .. n, R)
    <2>1. \A x \in 1 .. n : x \in Int /\ s[x].score \in Int
      BY <1>1
    <2> QED BY <1>4, <2>1 DEF Strict
  <1>6. PICK o : o = Sorted(1 .. n, R)
    OBVIOUS
  <1>7. /\ IsSequence(o) /\ Len(o) = n
        /\ \A k \in DOMAIN o : o[k] \in 1 .. n
        /\ \A k, l \in DOMAIN o : k < l => <<o[k], o[l]>> \in R
        /\ \A k, l \in DOMAIN o : o[k] = o[l] => k = l
    BY <1>2, <1>5, <1>6, SortedIs
  <1>8. DOMAIN o = 1 .. n
    BY <1>7, SequenceIs
  <1>9. t = [k \in 1 .. n |-> s[o[k]]]
    BY <1>1, <1>3, <1>6, <1>8 DEF ByScore
  <1>10. IsSequence(t) /\ Len(t) = n /\ DOMAIN t = 1 .. n
    <2>1. t = [k \in 1 .. n |-> t[k]]
      BY <1>9
    <2> QED BY <1>1, <2>1, FunctionIsSequence
  <1>11. ASSUME NEW k \in 1 .. n, NEW l \in 1 .. n, k < l PROVE t[k].score >= t[l].score
    <2>1. <<o[k], o[l]>> \in R /\ o[k] \in 1 .. n /\ o[l] \in 1 .. n
      BY <1>7, <1>8, <1>11
    <2>2. s[o[k]].score \in Int /\ s[o[l]].score \in Int
      BY <1>1, <2>1
    <2>3. s[o[k]].score >= s[o[l]].score
      BY <1>4, <2>1, <2>2
    <2> QED BY <1>9, <2>3
  <1>12. (\A k \in DOMAIN t : o[k] \in DOMAIN s /\ t[k] = s[o[k]]) /\ \A k, l \in DOMAIN t : o[k] = o[l] => k = l
    BY <1>1, <1>7, <1>8, <1>9, <1>10
  <1>13. IsSequence(t) /\ Len(t) = Len(s) /\ Descends(t)
    BY <1>1, <1>10, <1>11 DEF Descends
  <1> QED BY ONLY <1>12, <1>13

LEMMA MapIs ==
  ASSUME NEW s, IsSequence(s), NEW f, f = [i \in DOMAIN s |-> f[i]]
  PROVE  IsSequence(f) /\ DOMAIN f = DOMAIN s /\ Len(f) = Len(s)
  <1>1. PICK n : n = Len(s) /\ n \in Nat /\ DOMAIN s = 1 .. n
    BY SequenceIs
  <1>2. f = [i \in 1 .. n |-> f[i]]
    BY <1>1
  <1> QED BY <1>1, <1>2, FunctionIsSequence

\* Hits of chunks in D, with numbers for scores; one of each key; part of a list.
Hits(s, D) == IsSequence(s) /\ \A i \in DOMAIN s : s[i].chunk \in D /\ s[i].score \in Int
Apart(s, key) == \A i, j \in DOMAIN s : s[i].chunk[key] = s[j].chunk[key] => i = j
From(t, s) == /\ IsSequence(t) /\ Len(t) <= Len(s)
              /\ \E o : /\ \A k \in DOMAIN t : o[k] \in DOMAIN s /\ t[k] = s[o[k]]
                        /\ \A k, l \in DOMAIN t : o[k] = o[l] => k = l

LEMMA FromKeeps ==
  ASSUME NEW s, NEW t, From(t, s)
  PROVE  /\ \A D : Hits(s, D) => Hits(t, D)
         /\ \A key : Apart(s, key) => Apart(t, key)
         /\ \A k \in DOMAIN t : \E i \in DOMAIN s : t[k] = s[i]
  <1>1. PICK o : /\ \A k \in DOMAIN t : o[k] \in DOMAIN s /\ t[k] = s[o[k]]
                 /\ \A k, l \in DOMAIN t : o[k] = o[l] => k = l
    BY DEF From
  <1>2. IsSequence(t)
    BY DEF From
  <1> QED BY <1>1, <1>2 DEF Hits, Apart

LEMMA FromIsPart == \A s, t : From(t, s) => \A k \in DOMAIN t : \E i \in DOMAIN s : t[k] = s[i]
  BY DEF From

LEMMA KeptFrom ==
  ASSUME NEW s, IsSequence(s), NEW S, S \subseteq DOMAIN s, NEW t, t = Kept(s, S)
  PROVE  From(t, s) /\ (Descends(s) => Descends(t)) /\ \A k \in DOMAIN t : \E i \in S : t[k] = s[i]
  <1>1. IsSequence(t) /\ Len(t) <= Len(s)
    BY KeptIs
  <1>2. PICK o : /\ \A k \in DOMAIN t : o[k] \in S /\ t[k] = s[o[k]]
                 /\ \A k, l \in DOMAIN t : k < l => o[k] < o[l]
    BY KeptIs
  <1>3. (\A k \in DOMAIN t : k \in Int) /\ \A k \in DOMAIN s : k \in Int
    BY <1>1, SequenceIs
  <1>4. \A k, l \in DOMAIN t : o[k] = o[l] => k = l
    <2> SUFFICES ASSUME NEW k \in DOMAIN t, NEW l \in DOMAIN t, o[k] = o[l], k # l PROVE FALSE
      OBVIOUS
    <2>1. o[k] \in Int /\ (k < l \/ l < k)
      BY <1>2, <1>3
    <2> QED BY <1>2, <2>1
  <1>5. From(t, s)
    BY <1>1, <1>2, <1>4 DEF From
  <1>6. Descends(s) => Descends(t)
    BY <1>2 DEF Descends
  <1> QED BY <1>2, <1>5, <1>6

LEMMA TakeFrom ==
  ASSUME NEW s, IsSequence(s), NEW n \in Nat, NEW t, t = Take(s, n)
  PROVE  From(t, s) /\ (Descends(s) => Descends(t)) /\ Len(t) <= n /\ \A k \in DOMAIN t : k \in DOMAIN s /\ t[k] = s[k]
  <1>1. IsSequence(t) /\ Len(t) <= n /\ Len(t) <= Len(s) /\ \A k \in DOMAIN t : k \in DOMAIN s /\ t[k] = s[k]
    BY TakeIs
  <1> DEFINE o == [k \in DOMAIN t |-> k]
  <1>2. (\A k \in DOMAIN t : o[k] \in DOMAIN s /\ t[k] = s[o[k]]) /\ \A k, l \in DOMAIN t : o[k] = o[l] => k = l
    BY <1>1
  <1> HIDE DEF o
  <1>3. From(t, s)
    BY <1>1, <1>2 DEF From
  <1> QED BY <1>1, <1>3 DEF Descends

LEMMA ByScoreFrom ==
  ASSUME NEW s, NEW D, Hits(s, D), NEW t, t = ByScore(s)
  PROVE  From(t, s) /\ Descends(t) /\ Len(t) = Len(s)
  <1>1. IsSequence(s) /\ \A i \in DOMAIN s : s[i].score \in Int
    BY DEF Hits
  <1>2. IsSequence(t) /\ Len(t) = Len(s) /\ Descends(t)
    BY <1>1, ByScoreIs
  <1>3. \E o : /\ \A k \in DOMAIN t : o[k] \in DOMAIN s /\ t[k] = s[o[k]]
               /\ \A k, l \in DOMAIN t : o[k] = o[l] => k = l
    BY <1>1, ByScoreIs, SMTT(20)
  <1>4. Len(t) <= Len(s)
    BY <1>1, <1>2, SequenceIs
  <1> QED BY <1>2, <1>3, <1>4 DEF From

LEMMA FirstOfIs ==
  ASSUME NEW s, IsSequence(s), NEW key, NEW t, t = FirstOf(s, key)
  PROVE  From(t, s) /\ (Descends(s) => Descends(t)) /\ Apart(t, key)
  <1> DEFINE S == {i \in DOMAIN s : \A j \in 1 .. i - 1 : s[j].chunk[key] # s[i].chunk[key]}
  <1>1. S \subseteq DOMAIN s /\ t = Kept(s, S)
    BY DEF FirstOf
  <1> HIDE DEF S
  <1>2. PICK o : /\ \A k \in DOMAIN t : o[k] \in S /\ t[k] = s[o[k]]
                 /\ \A k, l \in DOMAIN t : k < l => o[k] < o[l]
    BY <1>1, KeptIs
  <1>3. From(t, s) /\ (Descends(s) => Descends(t))
    BY <1>1, KeptFrom
  <1>4. IsSequence(t) /\ IsSequence(s)
    BY <1>3 DEF From
  <1>5. \A i, j \in S : i < j => s[i].chunk[key] # s[j].chunk[key]
    <2> SUFFICES ASSUME NEW i \in S, NEW j \in S, i < j PROVE s[i].chunk[key] # s[j].chunk[key]
      OBVIOUS
    <2>1. i \in 1 .. j - 1
      BY <1>1, <1>4, SequenceIs
    <2> QED BY <2>1 DEF S
  <1>6. Apart(t, key)
    <2> SUFFICES ASSUME NEW k \in DOMAIN t, NEW l \in DOMAIN t, t[k].chunk[key] = t[l].chunk[key], k # l PROVE FALSE
      BY DEF Apart
    <2>1. k < l \/ l < k
      BY <1>4, SequenceIs
    <2>2. o[k] < o[l] \/ o[l] < o[k]
      BY <1>2, <2>1
    <2> QED BY <1>2, <1>5, <2>2
  <1> QED BY <1>3, <1>6

-----------------------------------------------------------------------------
(* What the searches for chunks find *)

InReach(labels) == {p \in Known : InScope(p, labels)}

LEMMA ChunkIs ==
  ASSUME NEW p \in Known
  PROVE  /\ {p.index, p.rerank} \subseteq Int /\ \A q \in 1 .. Variants : p.cosine[q] \in Int
         /\ \A x \in Known : p.id = x.id => p.doc = x.doc
  <1>1. PICK c \in Corpora : \E i \in DOMAIN c : p = c[i]
    BY DEF Known, ToSet
  <1>2. ASSUME NEW x \in Known, p.id = x.id PROVE p.doc = x.doc
    <2>1. PICK e \in Corpora : \E j \in DOMAIN e : x = e[j]
      BY DEF Known, ToSet
    <2>2. \A i \in DOMAIN c, j \in DOMAIN e : c[i].id = e[j].id => c[i].doc = e[j].doc
      BY NasAssumption DEF NasAssumption
    <2> QED BY <1>1, <1>2, <2>1, <2>2
  <1>3. \A i \in DOMAIN c : {c[i].index, c[i].rerank} \subseteq Int /\ \A q \in 1 .. Variants : c[i].cosine[q] \in Int
    BY NasAssumption DEF NasAssumption
  <1> QED BY <1>1, <1>2, <1>3

LEMMA CorpusIs ==
  ASSUME NEW c \in Corpora
  PROVE  /\ IsSequence(c)
         /\ \A i \in DOMAIN c : c[i] \in Known
         /\ \A i, j \in DOMAIN c : c[i].id = c[j].id \/ (c[i].doc = c[j].doc /\ c[i].index = c[j].index) => i = j
  <1>1. c \in Seq(ToSet(c)) /\ ToSet(c) = {c[i] : i \in DOMAIN c}
    BY NasAssumption DEF NasAssumption, ToSet
  <1>2. IsSequence(c)
    BY <1>1 DEF IsSequence
  <1>3. \A i \in DOMAIN c : c[i] \in Known
    BY <1>1 DEF Known
  <1>4. \A i, j \in DOMAIN c : c[i].id = c[j].id \/ (c[i].doc = c[j].doc /\ c[i].index = c[j].index) => i = j
    BY NasAssumption DEF NasAssumption
  <1> QED BY <1>2, <1>3, <1>4

LEMMA PointsAre ==
  ASSUME NEW c \in Corpora, NEW labels, NEW t, t = Points(c, labels)
  PROVE  /\ IsSequence(t)
         /\ \A i \in DOMAIN t : t[i] \in InReach(labels)
         /\ \A i, j \in DOMAIN t : t[i].id = t[j].id => i = j
  <1> DEFINE S == {i \in DOMAIN c : InScope(c[i], labels)}
  <1>1. IsSequence(c) /\ S \subseteq DOMAIN c /\ t = Kept(c, S)
    BY CorpusIs DEF Points
  <1>2. \A i \in S : c[i] \in InReach(labels)
    BY CorpusIs DEF InReach
  <1> HIDE DEF S
  <1>3. From(t, c) /\ \A k \in DOMAIN t : \E i \in S : t[k] = c[i]
    BY <1>1, KeptFrom
  <1>4. PICK o : /\ \A k \in DOMAIN t : o[k] \in DOMAIN c /\ t[k] = c[o[k]]
                 /\ \A k, l \in DOMAIN t : o[k] = o[l] => k = l
    BY <1>3 DEF From
  <1>5. \A i, j \in DOMAIN t : t[i].id = t[j].id => i = j
    BY <1>4, CorpusIs
  <1> QED BY <1>2, <1>3, <1>5 DEF From

LEMMA NearestIs ==
  ASSUME NEW c \in Corpora, NEW q \in 1 .. Variants, NEW labels, NEW n \in Nat, NEW t, t = Nearest(c, q, labels, n)
  PROVE  /\ Hits(t, InReach(labels)) /\ Apart(t, "id") /\ Descends(t) /\ Len(t) <= n
         /\ \A i \in DOMAIN t : t[i].score = t[i].chunk.cosine[q]
  <1>1. PICK p : p = Points(c, labels)
    OBVIOUS
  <1>2. /\ IsSequence(p)
        /\ \A i \in DOMAIN p : p[i] \in InReach(labels)
        /\ \A i, j \in DOMAIN p : p[i].id = p[j].id => i = j
    BY <1>1, PointsAre
  <1>3. PICK f : f = [i \in DOMAIN p |-> Scored(p[i], p[i].cosine[q])]
    OBVIOUS
  <1>4. IsSequence(f) /\ DOMAIN f = DOMAIN p
    <2>1. f = [i \in DOMAIN p |-> f[i]]
      BY <1>3
    <2> QED BY <1>2, <2>1, MapIs
  <1>5. \A i \in DOMAIN f : f[i].chunk = p[i] /\ f[i].score = p[i].cosine[q]
    BY <1>3, <1>4 DEF Scored
  <1>6. \A i \in DOMAIN p : p[i].cosine[q] \in Int
    BY <1>2, ChunkIs DEF InReach
  <1>7. Hits(f, InReach(labels)) /\ Apart(f, "id")
    BY <1>2, <1>4, <1>5, <1>6 DEF Hits, Apart
  <1>8. PICK b : b = ByScore(f)
    OBVIOUS
  <1>9. From(b, f) /\ Descends(b)
    BY <1>7, <1>8, ByScoreFrom
  <1>10. Hits(b, InReach(labels)) /\ Apart(b, "id") /\ \A i \in DOMAIN b : b[i].score = b[i].chunk.cosine[q]
    BY <1>5, <1>7, <1>9, FromKeeps
  <1>11. t = Take(b, n) /\ IsSequence(b)
    BY <1>1, <1>3, <1>8, <1>10 DEF Nearest, Hits
  <1>12. From(t, b) /\ (Descends(b) => Descends(t)) /\ Len(t) <= n
    BY <1>11, TakeFrom
  <1> QED BY <1>9, <1>10, <1>12, FromKeeps

LEMMA RankedIs == \A lists, key, k : IsSequence(lists) => Ranked(lists, key, k) \in Int
  <1> SUFFICES ASSUME NEW lists, NEW key, NEW k, IsSequence(lists) PROVE Ranked(lists, key, k) \in Int
    OBVIOUS
  <1> DEFINE V == {v \in (DOMAIN lists) \X (1 .. Scale) :
                     \E i \in DOMAIN lists[v[1]] : lists[v[1]][i].chunk[key] = k /\ v[2] <= Scale \div (RrfK + i)}
  <1>1. Scale \in Nat
    BY NasAssumption DEF NasAssumption
  <1>2. IsFiniteSet(DOMAIN lists) /\ IsFiniteSet(1 .. Scale)
    BY <1>1, SequenceIs, FS_Interval
  <1>3. IsFiniteSet((DOMAIN lists) \X (1 .. Scale))
    BY <1>2, FS_Product
  <1>4. V \subseteq (DOMAIN lists) \X (1 .. Scale)
    OBVIOUS
  <1>5. Ranked(lists, key, k) = Cardinality(V)
    BY DEF Ranked
  <1> HIDE DEF V
  <1>6. IsFiniteSet(V)
    BY <1>3, <1>4, FS_Subset
  <1> QED BY <1>5, <1>6, FS_CardinalityType

LEMMA JoinedHits ==
  ASSUME NEW lists, IsSequence(lists), NEW D, \A i \in DOMAIN lists : Hits(lists[i], D), NEW t, t = Joined(lists)
  PROVE  Hits(t, D)
  <1>1. \A i \in DOMAIN lists : IsSequence(lists[i])
    BY DEF Hits
  <1>2. IsSequence(t) /\ \E o : FromLists(t, lists, o)
    BY <1>1, JoinedIs
  <1> QED BY <1>2 DEF FromLists, Hits

LEMMA FusedIs ==
  ASSUME NEW lists, IsSequence(lists), NEW D, \A i \in DOMAIN lists : Hits(lists[i], D), NEW key, NEW t, t = Fused(lists, key)
  PROVE  Hits(t, D) /\ Apart(t, key) /\ Descends(t)
  <1>1. PICK h : h = FirstOf(Joined(lists), key)
    OBVIOUS
  <1>2. Hits(h, D) /\ Apart(h, key)
    <2>1. PICK j : j = Joined(lists)
      OBVIOUS
    <2>2. Hits(j, D)
      BY <2>1, JoinedHits
    <2>3. IsSequence(j) /\ h = FirstOf(j, key)
      BY <1>1, <2>1, <2>2 DEF Hits
    <2>4. From(h, j) /\ Apart(h, key)
      BY <2>3, FirstOfIs
    <2> QED BY <2>2, <2>4, FromKeeps
  <1>3. PICK f : f = [i \in DOMAIN h |-> Scored(h[i].chunk, Ranked(lists, key, h[i].chunk[key]))]
    OBVIOUS
  <1>4. IsSequence(f) /\ DOMAIN f = DOMAIN h
    <2>1. f = [i \in DOMAIN h |-> f[i]]
      BY <1>3
    <2> QED BY <1>2, <2>1, MapIs DEF Hits
  <1>5. Hits(f, D) /\ Apart(f, key)
    <2>1. \A i \in DOMAIN f : f[i].chunk = h[i].chunk /\ f[i].score = Ranked(lists, key, h[i].chunk[key])
      BY <1>3, <1>4 DEF Scored
    <2>2. \A i \in DOMAIN f : f[i].score \in Int
      BY <2>1, RankedIs
    <2> QED BY <1>2, <1>4, <2>1, <2>2 DEF Hits, Apart
  <1>6. t = ByScore(f)
    BY <1>1, <1>3 DEF Fused
  <1>7. From(t, f) /\ Descends(t)
    BY <1>5, <1>6, ByScoreFrom
  <1> QED BY <1>5, <1>7, FromKeeps

\* A bonus keeps the hits and puts them in order again.
LEMMA BoostedIs ==
  ASSUME NEW s, NEW D, Hits(s, D), NEW bonus \in Int, NEW t, t = Boosted(s, bonus)
  PROVE  /\ Hits(t, D) /\ Descends(t) /\ Len(t) = Len(s)
         /\ \A key : Apart(s, key) => Apart(t, key)
         /\ \A k \in DOMAIN t : \E i \in DOMAIN s : t[k].chunk = s[i].chunk
  <1>1. PICK f : f = [i \in DOMAIN s |-> Scored(s[i].chunk, IF s[i].chunk.own THEN s[i].score + bonus ELSE s[i].score)]
    OBVIOUS
  <1>2. IsSequence(f) /\ DOMAIN f = DOMAIN s /\ Len(f) = Len(s)
    <2>1. f = [i \in DOMAIN s |-> f[i]]
      BY <1>1
    <2> QED BY <2>1, MapIs DEF Hits
  <1>3. \A i \in DOMAIN f : f[i].chunk = s[i].chunk /\ f[i].score = IF s[i].chunk.own THEN s[i].score + bonus ELSE s[i].score
    BY <1>1, <1>2 DEF Scored
  <1>4. Hits(f, D) /\ \A key : Apart(s, key) => Apart(f, key)
    <2>1. \A i \in DOMAIN f : f[i].score \in Int /\ f[i].chunk \in D
      BY <1>2, <1>3 DEF Hits
    <2> QED BY <1>2, <1>3, <2>1 DEF Hits, Apart
  <1>5. t = ByScore(f)
    BY <1>1 DEF Boosted
  <1>6. From(t, f) /\ Descends(t) /\ Len(t) = Len(f)
    BY <1>4, <1>5, ByScoreFrom
  <1>7. \A k \in DOMAIN t : \E i \in DOMAIN f : t[k] = f[i]
    BY <1>6, FromKeeps
  <1>8. Hits(t, D) /\ \A key : Apart(s, key) => Apart(t, key)
    BY <1>4, <1>6, FromKeeps
  <1>9. \A k \in DOMAIN t : \E i \in DOMAIN s : t[k].chunk = s[i].chunk
    BY <1>2, <1>3, <1>7
  <1> QED BY <1>2, <1>6, <1>8, <1>9

LEMMA RelevantIs ==
  ASSUME NEW s, NEW D, Hits(s, D), NEW t, t = Relevant(s)
  PROVE  From(t, s) /\ (Descends(s) => Descends(t)) /\ \A k \in DOMAIN t : t[k].score >= MinRerank
  <1> DEFINE S == {i \in DOMAIN s : s[i].score >= MinRerank}
  <1>1. IsSequence(s) /\ S \subseteq DOMAIN s /\ t = Kept(s, S)
    BY DEF Relevant, Hits
  <1>2. \A i \in S : s[i].score >= MinRerank
    OBVIOUS
  <1> HIDE DEF S
  <1> QED BY <1>1, <1>2, KeptFrom

LEMMA RerankedIs ==
  ASSUME NEW s, NEW labels, Hits(s, InReach(labels)), NEW t, t = Reranked(s)
  PROVE  /\ Hits(t, InReach(labels)) /\ Len(t) = Len(s)
         /\ \A key : Apart(s, key) => Apart(t, key)
         /\ \A k \in DOMAIN t : t[k].score = t[k].chunk.rerank
  <1>1. t = [i \in DOMAIN s |-> Scored(s[i].chunk, s[i].chunk.rerank)]
    BY DEF Reranked
  <1>2. IsSequence(t) /\ DOMAIN t = DOMAIN s /\ Len(t) = Len(s)
    <2>1. t = [i \in DOMAIN s |-> t[i]]
      BY <1>1
    <2> QED BY <2>1, MapIs DEF Hits
  <1>3. \A i \in DOMAIN t : t[i].chunk = s[i].chunk /\ t[i].score = s[i].chunk.rerank
    BY <1>1, <1>2 DEF Scored
  <1>4. \A i \in DOMAIN t : t[i].chunk \in InReach(labels) /\ t[i].score \in Int
    BY <1>2, <1>3, ChunkIs DEF Hits, InReach
  <1> QED BY <1>2, <1>3, <1>4 DEF Hits, Apart

\* What every search for chunks finds.
Page(t, labels, n) == Hits(t, InReach(labels)) /\ Apart(t, "id") /\ Descends(t) /\ Len(t) <= n

LEMMA TakenPage ==
  ASSUME NEW s, NEW labels, Hits(s, InReach(labels)), Apart(s, "id"), Descends(s), NEW n \in Nat, NEW t, t = Take(s, n)
  PROVE  Page(t, labels, n) /\ From(t, s)
  <1>1. IsSequence(s)
    BY DEF Hits
  <1>2. From(t, s) /\ (Descends(s) => Descends(t)) /\ Len(t) <= n
    BY <1>1, TakeFrom
  <1> QED BY <1>2, FromKeeps DEF Page

LEMMA ChunksFound ==
  ASSUME NEW c \in Corpora, NEW q \in 1 .. Variants, NEW labels, NEW n \in Nat, NEW reranker \in Rerankers,
         NEW t, t = Chunks(c, q, labels, n, reranker)
  PROVE  /\ Page(t, labels, n)
         /\ reranker = "works" /\ Len(t) > 1 => \A k \in DOMAIN t : t[k].chunk.rerank >= MinRerank
  <1> DEFINE wanted == IF reranker = "off" THEN 2 * n ELSE 3 * n
             most == IF wanted < RerankPool THEN wanted ELSE RerankPool
  <1>1. most \in Nat /\ Boost \in Int
    <2>1. RerankPool \in Nat /\ Boost \in Int
      BY NasAssumption DEF NasAssumption
    <2> QED BY <2>1
  <1>2. PICK h : h = Nearest(c, q, labels, most)
    OBVIOUS
  <1>3. t = CASE reranker = "off" \/ Len(h) <= 1 -> Take(Boosted(h, Boost), n)
              [] reranker = "works" /\ Len(h) > 1 -> Take(Gated(Reranked(h)), n)
              [] reranker = "fails" /\ Len(h) > 1 -> Take(h, n)
    BY <1>2 DEF Chunks
  <1> HIDE DEF wanted, most
  <1>4. Hits(h, InReach(labels)) /\ Apart(h, "id") /\ Descends(h)
    BY <1>1, <1>2, NearestIs
  <1>5. Len(h) \in Nat
    BY <1>4, SequenceIs DEF Hits
  <1>6. CASE reranker = "off" \/ Len(h) <= 1
    <2>1. PICK b : b = Boosted(h, Boost)
      OBVIOUS
    <2>2. Hits(b, InReach(labels)) /\ Descends(b) /\ Apart(b, "id") /\ Len(b) = Len(h)
      BY <1>1, <1>4, <2>1, BoostedIs
    <2>3. t = Take(b, n)
      BY <1>3, <1>5, <1>6, <2>1
    <2>4. Page(t, labels, n) /\ From(t, b)
      BY <2>2, <2>3, TakenPage
    <2>5. Len(t) <= Len(h) /\ Len(t) \in Nat
      BY <2>2, <2>4, SequenceIs DEF From
    <2> QED BY <1>5, <1>6, <2>4, <2>5
  <1>7. CASE reranker = "works" /\ Len(h) > 1
    <2>1. PICK r, b, g : r = Reranked(h) /\ b = ByScore(r) /\ g = Relevant(b)
      OBVIOUS
    <2>2. /\ Hits(r, InReach(labels)) /\ Apart(r, "id")
          /\ \A k \in DOMAIN r : r[k].score = r[k].chunk.rerank
      BY <1>4, <2>1, RerankedIs
    <2>3. From(b, r)
      BY <2>1, <2>2, ByScoreFrom
    <2>4. /\ Hits(b, InReach(labels)) /\ Apart(b, "id")
          /\ \A k \in DOMAIN b : b[k].score = b[k].chunk.rerank
      BY <2>2, <2>3, FromKeeps
    <2>5. From(g, b) /\ \A k \in DOMAIN g : g[k].score >= MinRerank
      BY <2>1, <2>4, RelevantIs
    <2>6. /\ Hits(g, InReach(labels)) /\ Apart(g, "id")
          /\ \A k \in DOMAIN g : g[k].chunk.rerank >= MinRerank
      BY <2>4, <2>5, FromKeeps
    <2>7. PICK f : f = Boosted(g, Boost)
      OBVIOUS
    <2>8. /\ Hits(f, InReach(labels)) /\ Descends(f) /\ Apart(f, "id")
          /\ \A k \in DOMAIN f : f[k].chunk.rerank >= MinRerank
      BY <1>1, <2>6, <2>7, BoostedIs
    <2>9. t = Take(f, n)
      BY <1>3, <1>5, <1>7, <2>1, <2>7 DEF Gated
    <2>10. Page(t, labels, n) /\ From(t, f)
      BY <2>8, <2>9, TakenPage
    <2> QED BY <2>8, <2>10, FromKeeps
  <1>8. CASE reranker = "fails" /\ Len(h) > 1
    <2>1. t = Take(h, n)
      BY <1>3, <1>5, <1>8
    <2> QED BY <1>4, <1>8, <2>1, TakenPage
  <1> QED BY <1>5, <1>6, <1>7, <1>8 DEF Rerankers

\* Queries of the variants.
Asked(s) == IsSequence(s) /\ \A i \in DOMAIN s : s[i] \in 1 .. Variants

LEMMA AskedIs ==
  /\ Asked(Queries)
  /\ \A n \in 1 .. Variants : Asked(Take(Queries, n))
  /\ \A s, failing : Asked(s) => Asked(Answered(s, failing))
  <1>1. Variants \in Nat
    BY NasAssumption DEF NasAssumption
  <1>2. Asked(Queries)
    <2>1. Queries = [i \in 1 .. Variants |-> Queries[i]] /\ \A i \in 1 .. Variants : Queries[i] = i
      BY DEF Queries
    <2>2. IsSequence(Queries) /\ DOMAIN Queries = 1 .. Variants
      BY <1>1, <2>1, FunctionIsSequence
    <2> QED BY <2>1, <2>2 DEF Asked
  <1>3. ASSUME NEW n \in 1 .. Variants PROVE Asked(Take(Queries, n))
    <2>1. PICK t : t = Take(Queries, n)
      OBVIOUS
    <2>2. n \in Nat /\ IsSequence(Queries)
      BY <1>2 DEF Asked
    <2>3. IsSequence(t) /\ \A k \in DOMAIN t : k \in DOMAIN Queries /\ t[k] = Queries[k]
      BY <2>1, <2>2, TakeIs
    <2> QED BY <1>2, <2>1, <2>3 DEF Asked
  <1>4. ASSUME NEW s, NEW failing, Asked(s) PROVE Asked(Answered(s, failing))
    <2> DEFINE S == {i \in DOMAIN s : s[i] \notin failing}
    <2>1. PICK t : t = Answered(s, failing)
      OBVIOUS
    <2>2. t = Kept(s, S) /\ S \subseteq DOMAIN s /\ IsSequence(s)
      BY <1>4, <2>1 DEF Answered, Asked
    <2> HIDE DEF S
    <2>3. From(t, s) /\ \A k \in DOMAIN t : \E i \in S : t[k] = s[i]
      BY <2>2, KeptFrom
    <2> QED BY <1>4, <2>1, <2>2, <2>3 DEF From, Asked
  <1> QED BY <1>2, <1>3, <1>4

LEMMA LanguagesFound ==
  ASSUME NEW c \in Corpora, NEW queries, Asked(queries), NEW failing, NEW labels, NEW n \in Nat,
         NEW t, t = InLanguages(c, queries, failing, labels, n)
  PROVE  Page(t, labels, n)
  <1> DEFINE pool == IF 2 * n < RerankPool THEN 2 * n ELSE RerankPool
  <1>1. pool \in Nat /\ Scale \div (RrfK + 1) \in Int
    <2>1. RerankPool \in Nat /\ Scale \in Nat /\ RrfK \in Nat
      BY NasAssumption DEF NasAssumption
    <2>2. RrfK + 1 \in Nat \ {0}
      BY <2>1
    <2>3. Scale \div (RrfK + 1) \in Int
      BY <2>1, <2>2
    <2> QED BY <2>1, <2>3
  <1>2. PICK a : a = Answered(queries, failing)
    OBVIOUS
  <1>3. Asked(a)
    BY <1>2, AskedIs
  <1>4. PICK lists : lists = [i \in DOMAIN a |-> Nearest(c, a[i], labels, pool)]
    OBVIOUS
  <1>5. t = IF Len(queries) = 1 /\ a # <<>> THEN Chunks(c, queries[1], labels, n, "off")
            ELSE Take(Boosted(Fused(lists, "id"), Scale \div (RrfK + 1)), n)
    BY <1>2, <1>4 DEF InLanguages
  <1> HIDE DEF pool
  <1>6. CASE Len(queries) = 1 /\ a # <<>>
    <2>1. queries[1] \in 1 .. Variants
      <3>1. 1 \in DOMAIN queries
        BY <1>6, SequenceIs DEF Asked
      <3> QED BY <3>1 DEF Asked
    <2>2. t = Chunks(c, queries[1], labels, n, "off") /\ "off" \in Rerankers
      BY <1>5, <1>6 DEF Rerankers
    <2> QED BY <2>1, <2>2, ChunksFound
  <1>7. CASE ~(Len(queries) = 1 /\ a # <<>>)
    <2>1. IsSequence(lists) /\ DOMAIN lists = DOMAIN a
      <3>1. lists = [i \in DOMAIN a |-> lists[i]]
        BY <1>4
      <3> QED BY <1>3, <3>1, MapIs DEF Asked
    <2>2. \A i \in DOMAIN lists : Hits(lists[i], InReach(labels))
      <3> SUFFICES ASSUME NEW i \in DOMAIN lists PROVE Hits(lists[i], InReach(labels))
        OBVIOUS
      <3>1. lists[i] = Nearest(c, a[i], labels, pool) /\ a[i] \in 1 .. Variants
        BY <1>3, <1>4, <2>1 DEF Asked
      <3> QED BY <1>1, <3>1, NearestIs
    <2>3. PICK f : f = Fused(lists, "id")
      OBVIOUS
    <2>4. Hits(f, InReach(labels)) /\ Apart(f, "id")
      BY <2>1, <2>2, <2>3, FusedIs
    <2>5. PICK b : b = Boosted(f, Scale \div (RrfK + 1))
      OBVIOUS
    <2>6. Hits(b, InReach(labels)) /\ Descends(b) /\ Apart(b, "id")
      BY <1>1, <2>4, <2>5, BoostedIs
    <2>7. t = Take(b, n)
      BY <1>5, <1>7, <2>3, <2>5
    <2> QED BY <2>6, <2>7, TakenPage
  <1> QED BY <1>6, <1>7

\* Of the hits of one chunk the one with the best score is one of them.
LEMMA BestIs ==
  ASSUME NEW s, NEW D, Hits(s, D), NEW h, \E i \in DOMAIN s : IdOf(s[i]) = IdOf(h),
         NEW b, b = ByScore(Kept(s, {i \in DOMAIN s : IdOf(s[i]) = IdOf(h)}))[1]
  PROVE  b.chunk \in D /\ b.score \in Int /\ IdOf(b) = IdOf(h)
  <1> DEFINE S == {i \in DOMAIN s : IdOf(s[i]) = IdOf(h)}
  <1>1. PICK k, r : k = Kept(s, S) /\ r = ByScore(k)
    OBVIOUS
  <1>2. S \subseteq DOMAIN s /\ IsSequence(s) /\ S # {} /\ \A i \in S : IdOf(s[i]) = IdOf(h)
    BY DEF Hits
  <1>3. b = r[1]
    BY <1>1
  <1> HIDE DEF S
  <1>4. From(k, s) /\ \A x \in DOMAIN k : \E i \in S : k[x] = s[i]
    BY <1>1, <1>2, KeptFrom
  <1>5. DOMAIN k # {}
    BY <1>1, <1>2, KeptIs
  <1>6. Hits(k, D)
    BY <1>4, FromKeeps
  <1>7. From(r, k) /\ Len(r) = Len(k)
    BY <1>1, <1>6, ByScoreFrom
  <1>8. 1 \in DOMAIN r
    <2>1. IsSequence(k) /\ IsSequence(r)
      BY <1>6, <1>7 DEF Hits, From
    <2> QED BY <1>5, <1>7, <2>1, SequenceIs
  <1>9. PICK x \in DOMAIN k : r[1] = k[x]
    <2>1. \A y \in DOMAIN r : \E x \in DOMAIN k : r[y] = k[x]
      BY <1>7, FromIsPart
    <2> QED BY <1>8, <2>1
  <1>10. PICK i \in S : k[x] = s[i]
    BY <1>4
  <1> QED BY <1>2, <1>3, <1>9, <1>10 DEF Hits

LEMMA VariablesFound ==
  ASSUME NEW c \in Corpora, NEW queries, Asked(queries), NEW failing, NEW labels,
         NEW t, t = ForVariables(c, queries, failing, labels)
  PROVE  Hits(t, InReach(labels)) /\ Apart(t, "id") /\ Descends(t)
  <1>1. PerVariable \in Nat
    BY NasAssumption DEF NasAssumption
  <1>2. PICK a : a = Answered(queries, failing)
    OBVIOUS
  <1>3. Asked(a)
    BY <1>2, AskedIs
  <1>4. PICK lists : lists = [i \in DOMAIN a |-> Nearest(c, a[i], labels, PerVariable)]
    OBVIOUS
  <1>5. IsSequence(lists) /\ DOMAIN lists = DOMAIN a
    <2>1. lists = [i \in DOMAIN a |-> lists[i]]
      BY <1>4
    <2> QED BY <1>3, <2>1, MapIs DEF Asked
  <1>6. \A i \in DOMAIN lists : Hits(lists[i], InReach(labels))
    <2> SUFFICES ASSUME NEW i \in DOMAIN lists PROVE Hits(lists[i], InReach(labels))
      OBVIOUS
    <2>1. lists[i] = Nearest(c, a[i], labels, PerVariable) /\ a[i] \in 1 .. Variants
      BY <1>3, <1>4, <1>5 DEF Asked
    <2> QED BY <1>1, <2>1, NearestIs
  <1>7. PICK all : all = Joined(lists)
    OBVIOUS
  <1>8. Hits(all, InReach(labels)) /\ IsSequence(all)
    <2>1. Hits(all, InReach(labels))
      BY <1>5, <1>6, <1>7, JoinedHits
    <2> QED BY <2>1 DEF Hits
  <1>9. PICK distinct : distinct = FirstOf(all, "id")
    OBVIOUS
  <1>10. From(distinct, all) /\ Apart(distinct, "id") /\ IsSequence(distinct)
    <2>1. From(distinct, all) /\ Apart(distinct, "id")
      BY <1>8, <1>9, FirstOfIs
    <2> QED BY <2>1 DEF From
  <1> DEFINE best(h) == ByScore(Kept(all, {i \in DOMAIN all : IdOf(all[i]) = IdOf(h)}))[1]
  <1>11. PICK f : f = [i \in DOMAIN distinct |-> best(distinct[i])]
    OBVIOUS
  <1>12. t = ByScore(f)
    BY <1>2, <1>4, <1>7, <1>9, <1>11 DEF ForVariables
  <1>13. ASSUME NEW i \in DOMAIN distinct
         PROVE  best(distinct[i]).chunk \in InReach(labels) /\ best(distinct[i]).score \in Int /\ IdOf(best(distinct[i])) = IdOf(distinct[i])
    <2>1. \E j \in DOMAIN all : IdOf(all[j]) = IdOf(distinct[i])
      BY <1>10, FromKeeps
    <2> QED BY <1>8, <2>1, BestIs
  <1> HIDE DEF best
  <1>14. IsSequence(f) /\ DOMAIN f = DOMAIN distinct
    <2>1. f = [i \in DOMAIN distinct |-> f[i]]
      BY <1>11
    <2> QED BY <1>10, <2>1, MapIs
  <1>15. Hits(f, InReach(labels)) /\ Apart(f, "id")
    <2>1. \A i \in DOMAIN f : f[i].chunk \in InReach(labels) /\ f[i].score \in Int /\ f[i].chunk.id = distinct[i].chunk.id
      BY <1>11, <1>13, <1>14 DEF IdOf
    <2>2. \A i, j \in DOMAIN distinct : distinct[i].chunk.id = distinct[j].chunk.id => i = j
      BY <1>10 DEF Apart
    <2> QED BY <1>14, <2>1, <2>2 DEF Hits, Apart
  <1>16. From(t, f) /\ Descends(t)
    BY <1>12, <1>15, ByScoreFrom
  <1> QED BY <1>15, <1>16, FromKeeps

LEMMA ChatFound ==
  ASSUME NEW c \in Corpora, NEW queries, Asked(queries), NEW failing, NEW n \in Nat,
         NEW t, t = ForChat(c, queries, failing, n)
  PROVE  Page(t, {}, n)
  <1>1. PICK h : h = InLanguages(c, queries, failing, {}, 2 * n)
    OBVIOUS
  <1>2. Page(h, {}, 2 * n)
    <2>1. 2 * n \in Nat
      OBVIOUS
    <2> QED BY <1>1, <2>1, LanguagesFound
  <1> DEFINE early(i) == Cardinality({j \in 1 .. i : DocOf(h[j]) = DocOf(h[i])}) <= PerChat
             S == {i \in DOMAIN h : early(i)}
  <1>3. PICK k : k = Kept(h, S)
    OBVIOUS
  <1>4. t = Take(k, n)
    BY <1>1, <1>3 DEF ForChat
  <1>5. S \subseteq DOMAIN h /\ IsSequence(h) /\ Hits(h, InReach({})) /\ Descends(h) /\ Apart(h, "id")
    BY <1>2 DEF Page, Hits
  <1> HIDE DEF S
  <1>6. From(k, h) /\ (Descends(h) => Descends(k))
    BY <1>3, <1>5, KeptFrom
  <1>7. Hits(k, InReach({})) /\ Descends(k) /\ Apart(k, "id")
    BY <1>5, <1>6, FromKeeps
  <1> QED BY <1>4, <1>7, TakenPage

-----------------------------------------------------------------------------
(* What the search for documents finds *)

\* The words of a chunk, and whether they are strong.
WordsOf(p) == Cardinality(p.terms \cap Terms)
SaysWords(p) == IsStrong(Scored(p, WordsOf(p)))

LEMMA WordsAre == \A p : WordsOf(p) \in Int
  <1> SUFFICES ASSUME NEW p PROVE WordsOf(p) \in Int
    OBVIOUS
  <1>1. IsFiniteSet(Terms)
    BY NasAssumption DEF NasAssumption
  <1>2. IsFiniteSet(p.terms \cap Terms)
    BY <1>1, FS_Subset
  <1> QED BY <1>2, FS_CardinalityType DEF WordsOf

VectorFits(s, labels) ==
  Hits(s, InReach(labels)) /\ Apart(s, "doc") /\ \A i \in DOMAIN s : s[i].score \in Cosines
KeywordFits(s, labels) ==
  Hits(s, InReach(labels)) /\ Apart(s, "doc") /\ \A i \in DOMAIN s : s[i].score = WordsOf(s[i].chunk)

LEMMA VectorArmIs ==
  ASSUME NEW c \in Corpora, NEW labels, NEW s, s = VectorArm(c, labels)
  PROVE  VectorFits(s, labels)
  <1>1. PICK n : n = Overfetch * PageSize
    OBVIOUS
  <1>2. n \in Nat /\ 1 \in 1 .. Variants
    <2>1. Overfetch \in Nat /\ PageSize \in Nat /\ Variants \in Nat /\ Variants # 0
      BY NasAssumption DEF NasAssumption
    <2> QED BY <1>1, <2>1
  <1>3. PICK t : t = Nearest(c, 1, labels, n)
    OBVIOUS
  <1>4. Hits(t, InReach(labels)) /\ \A i \in DOMAIN t : t[i].score = t[i].chunk.cosine[1]
    BY <1>2, <1>3, NearestIs
  <1>5. s = FirstOf(t, "doc") /\ IsSequence(t)
    BY <1>1, <1>3, <1>4 DEF VectorArm, Hits
  <1>6. From(s, t) /\ Apart(s, "doc")
    BY <1>5, FirstOfIs
  <1>7. \A i \in DOMAIN t : t[i].score \in Cosines
    BY <1>4 DEF Hits, InReach, Cosines
  <1> QED BY <1>4, <1>6, <1>7, FromKeeps DEF VectorFits

LEMMA KeywordArmIs ==
  ASSUME NEW c \in Corpora, NEW labels, NEW s, s = KeywordArm(c, labels)
  PROVE  KeywordFits(s, labels)
  <1>1. PICK n : n = Overfetch * PageSize
    OBVIOUS
  <1>2. n \in Nat /\ KeywordScan \in Nat
    <2>1. Overfetch \in Nat /\ PageSize \in Nat /\ KeywordScan \in Nat
      BY NasAssumption DEF NasAssumption
    <2> QED BY <1>1, <2>1
  <1>3. PICK p : p = Points(c, labels)
    OBVIOUS
  <1>4. IsSequence(p) /\ \A i \in DOMAIN p : p[i] \in InReach(labels)
    BY <1>3, PointsAre
  <1>5. PICK h : h = Holding(p)
    OBVIOUS
  <1>6. From(h, p)
    <2> DEFINE S == {i \in DOMAIN p : p[i].terms \cap Terms # {}}
    <2>1. h = Kept(p, S) /\ S \subseteq DOMAIN p
      BY <1>5 DEF Holding
    <2> HIDE DEF S
    <2> QED BY <1>4, <2>1, KeptFrom
  <1>7. PICK r : r = Take(h, KeywordScan)
    OBVIOUS
  <1>8. IsSequence(r) /\ \A i \in DOMAIN r : r[i] \in InReach(labels)
    <2>1. IsSequence(h)
      BY <1>6 DEF From
    <2>2. From(r, h)
      BY <1>2, <1>7, <2>1, TakeFrom
    <2>3. \A i \in DOMAIN h : h[i] \in InReach(labels)
      BY <1>4, <1>6, FromKeeps
    <2> QED BY <2>2, <2>3, FromKeeps DEF From
  <1>9. PICK f : f = [i \in DOMAIN r |-> Scored(r[i], Cardinality(r[i].terms \cap Terms))]
    OBVIOUS
  <1>10. IsSequence(f) /\ DOMAIN f = DOMAIN r
    <2>1. f = [i \in DOMAIN r |-> f[i]]
      BY <1>9
    <2> QED BY <1>8, <2>1, MapIs
  <1>11. \A i \in DOMAIN f : f[i].chunk = r[i] /\ f[i].score = WordsOf(f[i].chunk)
    BY <1>9, <1>10 DEF Scored, WordsOf
  <1>12. Hits(f, InReach(labels))
    BY <1>8, <1>10, <1>11, WordsAre DEF Hits
  <1>13. PICK g, b : g = FirstOf(f, "doc") /\ b = ByScore(g)
    OBVIOUS
  <1>14. From(g, f) /\ Apart(g, "doc")
    BY <1>10, <1>13, FirstOfIs
  <1>15. Hits(g, InReach(labels)) /\ \A i \in DOMAIN g : g[i].score = WordsOf(g[i].chunk)
    BY <1>11, <1>12, <1>14, FromKeeps
  <1>16. From(b, g)
    BY <1>13, <1>15, ByScoreFrom
  <1>17. Hits(b, InReach(labels)) /\ Apart(b, "doc") /\ \A i \in DOMAIN b : b[i].score = WordsOf(b[i].chunk)
    BY <1>14, <1>15, <1>16, FromKeeps
  <1>18. s = Take(b, n) /\ IsSequence(b)
    BY <1>1, <1>3, <1>5, <1>7, <1>9, <1>13, <1>17 DEF KeywordArm, Hits
  <1>19. From(s, b)
    BY <1>2, <1>18, TakeFrom
  <1> QED BY <1>17, <1>19, FromKeeps DEF KeywordFits

LEMMA HitOfIs ==
  ASSUME NEW arm, IsSequence(arm), NEW doc, NEW h, h = HitOf(arm, doc), h # <<>>
  PROVE  \E i \in DOMAIN arm : h[1] = arm[i] /\ DocOf(arm[i]) = doc
  <1> DEFINE S == {i \in DOMAIN arm : DocOf(arm[i]) = doc}
  <1>1. h = Kept(arm, S) /\ S \subseteq DOMAIN arm /\ \A i \in S : DocOf(arm[i]) = doc
    BY DEF HitOf
  <1> HIDE DEF S
  <1>2. From(h, arm) /\ \A k \in DOMAIN h : \E i \in S : h[k] = arm[i]
    BY <1>1, KeptFrom
  <1>3. 1 \in DOMAIN h
    <2>1. IsSequence(h)
      BY <1>2 DEF From
    <2>2. Len(h) # 0
      BY <2>1, EmptySeq DEF IsSequence
    <2> QED BY <2>1, <2>2, SequenceIs
  <1> QED BY <1>1, <1>2, <1>3

\* At most one hit of the document, with a score that says why.
LEMMA CandidateIs ==
  ASSUME NEW labels, NEW v, VectorFits(v, labels), NEW k, KeywordFits(k, labels), NEW doc,
         NEW t, t = Candidate(v, k, doc)
  PROVE  /\ Hits(t, InReach(labels)) /\ Len(t) <= 1
         /\ \A i \in DOMAIN t : /\ DocOf(t[i]) = doc /\ t[i].score >= MinRelevance
                                /\ t[i].score \in Cosines \/ SaysWords(t[i].chunk)
  <1>1. PICK a, b : a = HitOf(v, doc) /\ b = HitOf(k, doc)
    OBVIOUS
  <1>2. PICK shown, cosine : shown = (IF b # <<>> THEN b[1].chunk ELSE a[1].chunk) /\ cosine = (IF a = <<>> THEN 0 ELSE a[1].score)
    OBVIOUS
  <1>3. t = IF b # <<>> /\ IsStrong(b[1]) THEN <<Scored(shown, IF cosine > Strong THEN cosine ELSE Strong)>>
            ELSE IF a # <<>> /\ cosine >= MinRelevance THEN <<Scored(shown, cosine)>> ELSE <<>>
    BY <1>1, <1>2 DEF Candidate
  <1>4. Strong \in Int /\ MinRelevance \in Int /\ MinRelevance <= Strong
    BY NasAssumption DEF NasAssumption
  <1>5. a # <<>> => a[1].chunk \in InReach(labels) /\ DocOf(a[1]) = doc /\ a[1].score \in Cosines /\ a[1].score \in Int
    <2> SUFFICES ASSUME a # <<>> PROVE a[1].chunk \in InReach(labels) /\ DocOf(a[1]) = doc /\ a[1].score \in Cosines /\ a[1].score \in Int
      OBVIOUS
    <2>1. PICK i \in DOMAIN v : a[1] = v[i] /\ DocOf(v[i]) = doc
      BY <1>1, HitOfIs DEF VectorFits, Hits
    <2> QED BY <2>1 DEF VectorFits, Hits
  <1>6. b # <<>> => b[1].chunk \in InReach(labels) /\ DocOf(b[1]) = doc /\ b[1].score = WordsOf(b[1].chunk)
    <2> SUFFICES ASSUME b # <<>> PROVE b[1].chunk \in InReach(labels) /\ DocOf(b[1]) = doc /\ b[1].score = WordsOf(b[1].chunk)
      OBVIOUS
    <2>1. PICK i \in DOMAIN k : b[1] = k[i] /\ DocOf(k[i]) = doc
      BY <1>1, HitOfIs DEF KeywordFits, Hits
    <2> QED BY <2>1 DEF KeywordFits, Hits
  <1>7. ASSUME NEW x, x.chunk \in InReach(labels), x.score \in Int, DocOf(x) = doc, x.score >= MinRelevance,
               x.score \in Cosines \/ SaysWords(x.chunk), t = <<x>>
        PROVE  /\ Hits(t, InReach(labels)) /\ Len(t) <= 1
               /\ \A i \in DOMAIN t : /\ DocOf(t[i]) = doc /\ t[i].score >= MinRelevance
                                      /\ t[i].score \in Cosines \/ SaysWords(t[i].chunk)
    <2>1. t = [i \in 1 .. 1 |-> t[i]] /\ 1 \in Nat
      BY <1>7
    <2>2. IsSequence(t) /\ Len(t) = 1 /\ DOMAIN t = 1 .. 1
      BY <2>1, FunctionIsSequence
    <2>3. \A i \in 1 .. 1 : t[i] = x
      BY <1>7
    <2> QED BY <1>7, <2>2, <2>3 DEF Hits
  <1>8. CASE b # <<>> /\ IsStrong(b[1])
    <2>1. PICK x : x = Scored(shown, IF cosine > Strong THEN cosine ELSE Strong)
      OBVIOUS
    <2>2. x.chunk = b[1].chunk /\ x.score = (IF cosine > Strong THEN cosine ELSE Strong) /\ t = <<x>>
      BY <1>2, <1>3, <1>8, <2>1 DEF Scored
    <2>3. cosine \in Int
      BY <1>2, <1>5
    <2>4. x.score \in Int /\ x.score >= MinRelevance
      BY <1>4, <2>2, <2>3
    <2>5. SaysWords(x.chunk) /\ DocOf(x) = doc
      BY <1>6, <1>8, <2>2 DEF SaysWords, IsStrong, Scored, DocOf
    <2> QED BY <1>6, <1>7, <1>8, <2>2, <2>4, <2>5
  <1>9. CASE ~(b # <<>> /\ IsStrong(b[1])) /\ a # <<>> /\ cosine >= MinRelevance
    <2>1. PICK x : x = Scored(shown, cosine)
      OBVIOUS
    <2>2. x.chunk = shown /\ x.score = cosine /\ t = <<x>>
      BY <1>3, <1>9, <2>1 DEF Scored
    <2>3. cosine \in Int /\ cosine \in Cosines
      BY <1>2, <1>5, <1>9
    <2>4. shown \in InReach(labels) /\ shown.doc = doc
      BY <1>2, <1>5, <1>6, <1>9 DEF DocOf
    <2> QED BY <1>7, <1>9, <2>2, <2>3, <2>4 DEF DocOf
  <1>10. CASE ~(b # <<>> /\ IsStrong(b[1])) /\ ~(a # <<>> /\ cosine >= MinRelevance)
    <2>1. t = <<>>
      BY <1>3, <1>10
    <2>2. IsSequence(t) /\ Len(t) = 0 /\ DOMAIN t = {}
      BY <2>1, SequenceIs DEF IsSequence
    <2> QED BY <2>2 DEF Hits
  <1> QED BY <1>8, <1>9, <1>10

LEMMA ApartById ==
  ASSUME NEW s, NEW labels, Hits(s, InReach(labels)), Apart(s, "doc")
  PROVE  Apart(s, "id")
  <1> SUFFICES ASSUME NEW i \in DOMAIN s, NEW j \in DOMAIN s, s[i].chunk.id = s[j].chunk.id PROVE i = j
    BY DEF Apart
  <1>1. s[i].chunk \in Known /\ s[j].chunk \in Known
    BY DEF Hits, InReach
  <1>2. s[i].chunk.doc = s[j].chunk.doc
    BY <1>1, ChunkIs
  <1> QED BY <1>2 DEF Apart

LEMMA DocumentsFound ==
  ASSUME NEW labels, NEW v, VectorFits(v, labels), NEW k, KeywordFits(k, labels), NEW reranker,
         NEW t, t = Documents(v, k, reranker)
  PROVE  /\ Page(t, labels, PageSize) /\ Apart(t, "doc")
         /\ reranker = "works" /\ Len(t) > 1 => \A i \in DOMAIN t : t[i].chunk.rerank >= MinRerank
         /\ reranker # "works" => \A i \in DOMAIN t : /\ t[i].score >= MinRelevance
                                                      /\ t[i].score \in Cosines \/ SaysWords(t[i].chunk)
  <1>1. PageSize \in Nat /\ RerankTop \in Nat
    BY NasAssumption DEF NasAssumption
  <1>2. PICK ranked : ranked = Fused(<<v, k>>, "doc")
    OBVIOUS
  <1>3. IsSequence(ranked) /\ Apart(ranked, "doc")
    <2>1. PICK arms : arms = <<v, k>>
      OBVIOUS
    <2>2. arms = [i \in 1 .. 2 |-> arms[i]] /\ 2 \in Nat /\ arms[1] = v /\ arms[2] = k
      BY <2>1
    <2>3. IsSequence(arms) /\ DOMAIN arms = 1 .. 2
      BY <2>2, FunctionIsSequence
    <2>4. \A i \in DOMAIN arms : Hits(arms[i], InReach(labels))
      BY <2>2, <2>3 DEF VectorFits, KeywordFits
    <2>5. Hits(ranked, InReach(labels)) /\ Apart(ranked, "doc")
      BY <1>2, <2>1, <2>3, <2>4, FusedIs
    <2> QED BY <2>5 DEF Hits
  <1>4. PICK lists : lists = [i \in DOMAIN ranked |-> Candidate(v, k, DocOf(ranked[i]))]
    OBVIOUS
  <1>5. IsSequence(lists) /\ DOMAIN lists = DOMAIN ranked
    <2>1. lists = [i \in DOMAIN ranked |-> lists[i]]
      BY <1>4
    <2> QED BY <1>3, <2>1, MapIs
  <1>6. ASSUME NEW i \in DOMAIN lists
        PROVE  /\ Hits(lists[i], InReach(labels)) /\ Len(lists[i]) <= 1
               /\ \A j \in DOMAIN lists[i] : /\ DocOf(lists[i][j]) = DocOf(ranked[i]) /\ lists[i][j].score >= MinRelevance
                                             /\ lists[i][j].score \in Cosines \/ SaysWords(lists[i][j].chunk)
    <2>1. lists[i] = Candidate(v, k, DocOf(ranked[i]))
      BY <1>4, <1>5
    <2> QED BY <2>1, CandidateIs
  <1>7. PICK found : found = Joined(lists)
    OBVIOUS
  <1>8. Hits(found, InReach(labels)) /\ IsSequence(found)
    <2>1. Hits(found, InReach(labels))
      BY <1>5, <1>6, <1>7, JoinedHits
    <2> QED BY <2>1 DEF Hits
  <1>9. PICK o : FromLists(found, lists, o)
    BY <1>5, <1>6, <1>7, JoinedIs DEF Hits
  <1>10. \A n \in DOMAIN found : found[n].score >= MinRelevance /\ (found[n].score \in Cosines \/ SaysWords(found[n].chunk))
    BY <1>6, <1>9 DEF FromLists
  <1>11. Apart(found, "doc")
    <2> SUFFICES ASSUME NEW m \in DOMAIN found, NEW n \in DOMAIN found, found[m].chunk.doc = found[n].chunk.doc, m # n PROVE FALSE
      BY DEF Apart
    <2>1. \A x \in DOMAIN found : /\ o[x][1] \in DOMAIN lists /\ o[x][2] \in DOMAIN lists[o[x][1]]
                                  /\ found[x] = lists[o[x][1]][o[x][2]]
      BY <1>9 DEF FromLists
    <2>2. \A x \in DOMAIN found : found[x].chunk.doc = ranked[o[x][1]].chunk.doc
      BY <1>6, <2>1 DEF DocOf
    <2>3. o[m][1] = o[n][1]
      BY <1>3, <1>5, <2>1, <2>2 DEF Apart
    <2>4. \A i \in DOMAIN lists : \A j \in DOMAIN lists[i] : j = 1
      <3> SUFFICES ASSUME NEW i \in DOMAIN lists, NEW j \in DOMAIN lists[i] PROVE j = 1
        OBVIOUS
      <3>1. IsSequence(lists[i]) /\ Len(lists[i]) <= 1
        BY <1>6 DEF Hits
      <3> QED BY <3>1, SequenceIs
    <2>5. o[m][2] = 1 /\ o[n][2] = 1
      BY <2>1, <2>4
    <2>6. m < n \/ n < m
      BY <1>8, SequenceIs
    <2>7. o[m][1] < o[n][1] \/ o[n][1] < o[m][1] \/ o[m][2] < o[n][2] \/ o[n][2] < o[m][2]
      BY <1>9, <2>6 DEF FromLists
    <2>8. o[m][1] \in Int
      BY <1>5, <2>1, SequenceIs
    <2> QED BY <2>3, <2>5, <2>7, <2>8
  <1>12. CASE reranker = "works" /\ Len(found) > 1
    <2>1. PICK a : a = Take(found, RerankTop)
      OBVIOUS
    <2>2. Hits(a, InReach(labels)) /\ Apart(a, "doc")
      <3>1. From(a, found)
        BY <1>1, <1>8, <2>1, TakeFrom
      <3> QED BY <1>8, <1>11, <3>1, FromKeeps
    <2>3. PICK r : r = Reranked(a)
      OBVIOUS
    <2>4. Hits(r, InReach(labels)) /\ Apart(r, "doc") /\ \A i \in DOMAIN r : r[i].score = r[i].chunk.rerank
      BY <2>2, <2>3, RerankedIs
    <2>5. PICK b : b = ByScore(r)
      OBVIOUS
    <2>6. From(b, r) /\ Descends(b)
      BY <2>4, <2>5, ByScoreFrom
    <2>7. Hits(b, InReach(labels)) /\ Apart(b, "doc") /\ \A i \in DOMAIN b : b[i].score = b[i].chunk.rerank
      BY <2>4, <2>6, FromKeeps
    <2>8. PICK g : g = Relevant(b)
      OBVIOUS
    <2>9. From(g, b) /\ Descends(g) /\ \A i \in DOMAIN g : g[i].score >= MinRerank
      BY <2>6, <2>7, <2>8, RelevantIs
    <2>10. Hits(g, InReach(labels)) /\ Apart(g, "doc") /\ \A i \in DOMAIN g : g[i].chunk.rerank >= MinRerank
      BY <2>7, <2>9, FromKeeps
    <2>11. t = Take(g, PageSize)
      BY <1>2, <1>4, <1>7, <1>12, <2>1, <2>3, <2>5, <2>8 DEF Documents
    <2>12. Page(t, labels, PageSize) /\ From(t, g)
      <3>1. Apart(g, "id")
        BY <2>10, ApartById
      <3> QED BY <1>1, <2>9, <2>10, <2>11, <3>1, TakenPage
    <2> QED BY <1>12, <2>10, <2>12, FromKeeps
  <1>13. CASE ~(reranker = "works" /\ Len(found) > 1)
    <2>1. PICK b : b = ByScore(found)
      OBVIOUS
    <2>2. From(b, found) /\ Descends(b) /\ Len(b) = Len(found)
      BY <1>8, <2>1, ByScoreFrom
    <2>3. Hits(b, InReach(labels)) /\ Apart(b, "doc")
      BY <1>8, <1>11, <2>2, FromKeeps
    <2>4. t = Take(b, PageSize)
      BY <1>2, <1>4, <1>7, <1>13, <2>1 DEF Documents
    <2>5. Page(t, labels, PageSize) /\ From(t, b)
      <3>1. Apart(b, "id")
        BY <2>3, ApartById
      <3> QED BY <1>1, <2>2, <2>3, <2>4, <3>1, TakenPage
    <2>6. \A i \in DOMAIN b : b[i].score >= MinRelevance /\ (b[i].score \in Cosines \/ SaysWords(b[i].chunk))
      BY <1>10, <2>2, FromKeeps
    <2>7. \A i \in DOMAIN t : t[i].score >= MinRelevance /\ (t[i].score \in Cosines \/ SaysWords(t[i].chunk))
      BY <2>5, <2>6, FromKeeps
    <2>8. Apart(t, "doc")
      BY <2>3, <2>5, FromKeeps
    <2>9. reranker = "works" => ~(Len(t) > 1)
      <3>1. Len(t) <= Len(found) /\ IsSequence(t)
        BY <2>2, <2>5 DEF From
      <3>2. Len(t) \in Nat /\ Len(found) \in Nat
        BY <1>8, <3>1, SequenceIs
      <3> QED BY <1>13, <3>1, <3>2
    <2> QED BY <2>5, <2>7, <2>8, <2>9
  <1> QED BY <1>12, <1>13

\* Points of one corpus, each of another document or at another place in it.
PlacesApart(s) == \A i, j \in DOMAIN s : s[i].id = s[j].id \/ (s[i].doc = s[j].doc /\ s[i].index = s[j].index) => i = j
SeenFits(s) == IsSequence(s) /\ (\A i \in DOMAIN s : s[i] \in Known) /\ PlacesApart(s)

LEMMA ScrolledIs ==
  ASSUME NEW c \in Corpora, NEW docs, docs \subseteq {c[i].doc : i \in DOMAIN c}, NEW s, s = Scrolled(c, docs)
  PROVE  SeenFits(s)
  <1> DEFINE names == {c[i].doc : i \in DOMAIN c}
  <1>1. IsSequence(c)
    BY CorpusIs
  <1>2. Cardinality(docs) \in Nat
    <2>1. IsFiniteSet(DOMAIN c)
      BY <1>1, SequenceIs, FS_Interval
    <2> DEFINE f == [i \in DOMAIN c |-> c[i].doc]
    <2>2. f \in Surjection(DOMAIN c, names)
      BY DEF Surjection
    <2>3. docs \subseteq names
      OBVIOUS
    <2> HIDE DEF f, names
    <2>4. IsFiniteSet(names)
      BY <2>1, <2>2, FS_Surjection
    <2>5. IsFiniteSet(docs)
      BY <2>3, <2>4, FS_Subset
    <2> QED BY <2>5, FS_CardinalityType
  <1> DEFINE most == IF Cardinality(docs) * PerFile * 4 > ScrollFloor THEN Cardinality(docs) * PerFile * 4 ELSE ScrollFloor
             S == {i \in DOMAIN c : c[i].doc \in docs}
  <1>3. most \in Nat
    <2>1. PerFile \in Nat /\ ScrollFloor \in Nat
      BY NasAssumption DEF NasAssumption
    <2>2. Cardinality(docs) * PerFile \in Nat
      BY <1>2, <2>1
    <2>3. Cardinality(docs) * PerFile * 4 \in Nat
      BY <2>2
    <2> QED BY <2>1, <2>3
  <1>4. PICK k : k = Kept(c, S)
    OBVIOUS
  <1>5. s = Take(k, most) /\ S \subseteq DOMAIN c
    BY <1>4 DEF Scrolled
  <1> HIDE DEF most, S, names
  <1>6. From(k, c) /\ IsSequence(k)
    <2>1. From(k, c)
      BY <1>1, <1>4, <1>5, KeptFrom
    <2> QED BY <2>1 DEF From
  <1>7. From(s, k)
    BY <1>3, <1>5, <1>6, TakeFrom
  <1>8. \A i \in DOMAIN k : k[i] \in Known
    BY <1>6, CorpusIs, FromKeeps
  <1>9. \A t, r : PlacesApart(r) /\ From(t, r) => PlacesApart(t)
    <2> SUFFICES ASSUME NEW t, NEW r, PlacesApart(r), From(t, r) PROVE PlacesApart(t)
      OBVIOUS
    <2>1. PICK o : /\ \A i \in DOMAIN t : o[i] \in DOMAIN r /\ t[i] = r[o[i]]
                   /\ \A i, j \in DOMAIN t : o[i] = o[j] => i = j
      BY DEF From
    <2> QED BY <2>1 DEF PlacesApart
  <1>10. PlacesApart(c)
    BY CorpusIs DEF PlacesApart
  <1>11. PlacesApart(s)
    BY <1>6, <1>7, <1>9, <1>10
  <1>12. IsSequence(s) /\ \A i \in DOMAIN s : s[i] \in Known
    <2>1. \A i \in DOMAIN s : \E j \in DOMAIN k : s[i] = k[j]
      BY <1>7, FromKeeps
    <2>2. IsSequence(s)
      BY <1>7 DEF From
    <2> QED BY <1>8, <2>1, <2>2
  <1> QED BY <1>11, <1>12 DEF SeenFits

\* Of the points of one document those at its beginning, in their order.
LEMMA OpeningIs ==
  ASSUME NEW s, SeenFits(s), NEW doc, NEW t, t = Opening(s, doc)
  PROVE  /\ IsSequence(t) /\ \A k \in DOMAIN t : t[k] \in ToSet(s) /\ t[k].doc = doc
         /\ \A k, l \in DOMAIN t : k < l => t[k].index < t[l].index
  <1> DEFINE chunks == {p \in ToSet(s) : p.doc = doc}
             R == {p \in chunks \X chunks : p[1].index < p[2].index}
  <1>1. /\ ToSet(s) = {s[i] : i \in DOMAIN s}
        /\ IsSequence(s) /\ (\A i \in DOMAIN s : s[i] \in Known) /\ PlacesApart(s)
    BY DEF ToSet, SeenFits
  <1>2. IsFiniteSet(chunks)
    <2>1. IsFiniteSet(DOMAIN s)
      BY <1>1, SequenceIs, FS_Interval
    <2> DEFINE f == [i \in DOMAIN s |-> s[i]]
    <2>2. f \in Surjection(DOMAIN s, ToSet(s))
      BY <1>1 DEF Surjection
    <2> HIDE DEF f
    <2>3. IsFiniteSet(ToSet(s))
      BY <2>1, <2>2, FS_Surjection
    <2> QED BY <2>3, FS_Subset
  <1>3. Strict(chunks, R)
    <2>1. \A x, y \in chunks : <<x, y>> \in R <=> x.index < y.index
      OBVIOUS
    <2>2. \A x \in chunks : x.index \in Int
      BY <1>1, ChunkIs
    <2>3. \A x, y \in chunks : x.index = y.index => x = y
      BY <1>1 DEF PlacesApart
    <2> HIDE DEF chunks, R
    <2>4. ASSUME NEW x \in chunks, NEW y \in chunks PROVE x = y \/ <<x, y>> \in R \/ <<y, x>> \in R
      <3>1. x.index = y.index \/ x.index < y.index \/ y.index < x.index
        BY <2>2
      <3>2. (<<x, y>> \in R <=> x.index < y.index) /\ (<<y, x>> \in R <=> y.index < x.index)
        BY <2>1
      <3> QED BY <2>3, <3>1, <3>2
    <2>5. \A x \in chunks : <<x, x>> \notin R
      BY <2>1, <2>2
    <2>6. ASSUME NEW x \in chunks, NEW y \in chunks, NEW z \in chunks, <<x, y>> \in R, <<y, z>> \in R PROVE <<x, z>> \in R
      BY <2>1, <2>2, <2>6
    <2> QED BY <2>4, <2>5, <2>6 DEF Strict
  <1>4. PICK o : o = Sorted(chunks, R)
    OBVIOUS
  <1>5. t = Take(o, PerFile) /\ PerFile \in Nat
    <2>1. PerFile \in Nat
      BY NasAssumption DEF NasAssumption
    <2> QED BY <1>4, <2>1 DEF Opening
  <1>6. (\A x, y : <<x, y>> \in R => x.index < y.index) /\ \A x \in chunks : x \in ToSet(s) /\ x.doc = doc
    OBVIOUS
  <1> HIDE DEF chunks, R
  <1>7. /\ IsSequence(o) /\ \A k \in DOMAIN o : o[k] \in chunks
        /\ \A k, l \in DOMAIN o : k < l => <<o[k], o[l]>> \in R
    BY <1>2, <1>3, <1>4, SortedIs
  <1>8. IsSequence(t) /\ \A k \in DOMAIN t : k \in DOMAIN o /\ t[k] = o[k]
    BY <1>5, <1>7, TakeIs
  <1> QED BY <1>6, <1>7, <1>8

LEMMA ChosenFound ==
  ASSUME NEW c \in Corpora, NEW docs, docs \subseteq {c[i].doc : i \in DOMAIN c}, NEW t, t = ForDocuments(c, docs)
  PROVE  /\ Hits(t, InReach({})) /\ Apart(t, "id")
         /\ \A i, j \in DOMAIN t : i < j /\ DocOf(t[i]) = DocOf(t[j]) => t[i].chunk.index < t[j].chunk.index
  <1>1. PICK seen : seen = Scrolled(c, docs)
    OBVIOUS
  <1>2. SeenFits(seen) /\ IsSequence(seen) /\ (\A i \in DOMAIN seen : seen[i] \in Known) /\ PlacesApart(seen)
    <2>1. SeenFits(seen)
      BY <1>1, ScrolledIs
    <2> QED BY <2>1 DEF SeenFits
  <1>3. PICK f : f = [i \in DOMAIN seen |-> Scored(seen[i], 0)]
    OBVIOUS
  <1>4. PICK names : names = FirstOf(f, "doc")
    OBVIOUS
  <1>5. IsSequence(names) /\ Apart(names, "doc")
    <2>1. IsSequence(f)
      <3>1. f = [i \in DOMAIN seen |-> f[i]]
        BY <1>3
      <3> QED BY <1>2, <3>1, MapIs
    <2> QED BY <1>4, <2>1, FirstOfIs DEF From
  <1>6. PICK lists : lists = [i \in DOMAIN names |-> Opening(seen, DocOf(names[i]))]
    OBVIOUS
  <1>7. IsSequence(lists) /\ DOMAIN lists = DOMAIN names
    <2>1. lists = [i \in DOMAIN names |-> lists[i]]
      BY <1>6
    <2> QED BY <1>5, <2>1, MapIs
  <1>8. ASSUME NEW i \in DOMAIN lists
        PROVE  /\ IsSequence(lists[i]) /\ \A j \in DOMAIN lists[i] : lists[i][j] \in ToSet(seen) /\ lists[i][j].doc = DocOf(names[i])
               /\ \A j, k \in DOMAIN lists[i] : j < k => lists[i][j].index < lists[i][k].index
    <2>1. lists[i] = Opening(seen, DocOf(names[i]))
      BY <1>6, <1>7
    <2> QED BY <1>2, <2>1, OpeningIs
  <1>9. PICK parts : parts = Joined(lists)
    OBVIOUS
  <1>10. IsSequence(parts) /\ \E o : FromLists(parts, lists, o)
    BY <1>7, <1>8, <1>9, JoinedIs
  <1>11. PICK o : FromLists(parts, lists, o)
    BY <1>10
  <1>12. \A n \in DOMAIN parts : /\ o[n][1] \in DOMAIN lists /\ o[n][2] \in DOMAIN lists[o[n][1]]
                                 /\ parts[n] = lists[o[n][1]][o[n][2]]
                                 /\ parts[n] \in ToSet(seen) /\ parts[n].doc = names[o[n][1]].chunk.doc
    BY <1>8, <1>11 DEF FromLists, DocOf
  <1>13. ASSUME NEW m \in DOMAIN parts, NEW n \in DOMAIN parts, m < n, parts[m].doc = parts[n].doc
         PROVE  parts[m].index < parts[n].index
    <2>1. PICK i : i = o[m][1] /\ i \in DOMAIN lists
      BY <1>12
    <2>2. o[n][1] = i
      BY <1>5, <1>7, <1>12, <1>13, <2>1 DEF Apart
    <2>3. o[m][2] < o[n][2]
      <3>1. i \in Int
        BY <1>7, <2>1, SequenceIs
      <3>2. o[m][1] < o[n][1] \/ o[m][2] < o[n][2]
        BY <1>11, <1>13 DEF FromLists
      <3> QED BY <2>1, <2>2, <3>1, <3>2
    <2>4. /\ o[m][2] \in DOMAIN lists[i] /\ parts[m] = lists[i][o[m][2]]
          /\ o[n][2] \in DOMAIN lists[i] /\ parts[n] = lists[i][o[n][2]]
      BY <1>12, <2>1, <2>2
    <2> QED BY <1>8, <2>1, <2>3, <2>4
  <1>14. \A n \in DOMAIN parts : parts[n] \in Known /\ parts[n].index \in Int
    <2>1. \A p \in ToSet(seen) : p \in Known
      BY <1>2 DEF ToSet
    <2> QED BY <1>12, <2>1, ChunkIs
  <1>15. ASSUME NEW m \in DOMAIN parts, NEW n \in DOMAIN parts, parts[m].id = parts[n].id PROVE m = n
    <2>1. parts[m] = parts[n]
      <3>1. PICK i \in DOMAIN seen : parts[m] = seen[i]
        BY <1>12 DEF ToSet
      <3>2. PICK j \in DOMAIN seen : parts[n] = seen[j]
        BY <1>12 DEF ToSet
      <3> QED BY <1>2, <1>15, <3>1, <3>2 DEF PlacesApart
    <2>2. CASE m < n
      BY <1>13, <1>14, <2>1, <2>2
    <2>3. CASE n < m
      BY <1>13, <1>14, <2>1, <2>3
    <2>4. m \in Int /\ n \in Int
      BY <1>10, SequenceIs
    <2> QED BY <2>2, <2>3, <2>4
  <1>16. t = [i \in DOMAIN parts |-> Scored(parts[i], 0)]
    BY <1>1, <1>3, <1>4, <1>6, <1>9 DEF ForDocuments
  <1>17. IsSequence(t) /\ DOMAIN t = DOMAIN parts
    <2>1. t = [i \in DOMAIN parts |-> t[i]]
      BY <1>16
    <2> QED BY <1>10, <2>1, MapIs
  <1>18. \A i \in DOMAIN t : t[i].chunk = parts[i] /\ t[i].score = 0
    BY <1>16, <1>17 DEF Scored
  <1>19. \A i \in DOMAIN t : t[i].chunk \in InReach({})
    BY <1>14, <1>17, <1>18 DEF InReach, InScope
  <1>20. Hits(t, InReach({})) /\ Apart(t, "id")
    BY <1>15, <1>17, <1>18, <1>19 DEF Hits, Apart
  <1>21. \A i, j \in DOMAIN t : i < j /\ DocOf(t[i]) = DocOf(t[j]) => t[i].chunk.index < t[j].chunk.index
    BY <1>13, <1>17, <1>18 DEF DocOf
  <1> QED BY <1>20, <1>21

-----------------------------------------------------------------------------
(* What a search says *)

LEMMA DistinctIs ==
  ASSUME NEW h, IsSequence(h), NEW key, Apart(h, key)
  PROVE  Distinct(h, key)
  <1> DEFINE T == {h[i].chunk[key] : i \in DOMAIN h}
             f == [i \in DOMAIN h |-> h[i].chunk[key]]
  <1>1. PICK n : n = Len(h) /\ n \in Nat /\ DOMAIN h = 1 .. n
    BY SequenceIs
  <1>2. IsFiniteSet(1 .. n) /\ Cardinality(1 .. n) = n
    <2>1. n \in Int /\ 1 \in Int /\ (1 > n => n = 0) /\ n - 1 + 1 = n
      BY <1>1
    <2> QED BY <2>1, FS_Interval
  <1>3. f \in [1 .. n -> T] /\ (\A x, y \in 1 .. n : f[x] = f[y] => x = y) /\ \A z \in T : \E x \in 1 .. n : f[x] = z
    BY <1>1 DEF Apart
  <1>4. Distinct(h, key) <=> Cardinality(T) = n
    BY <1>1 DEF Distinct
  <1> HIDE DEF T, f
  <1>5. f \in Bijection(1 .. n, T)
    BY <1>3 DEF Bijection, Injection, Surjection, IsInjective
  <1>6. Cardinality(T) = n
    BY <1>2, <1>5, FS_Bijection DEF ExistsBijection
  <1> QED BY <1>4, <1>6

LEMMA FitsIs ==
  ASSUME NEW h, NEW kind, NEW labels, Hits(h, InReach(labels)), Apart(h, "id"),
         kind \in {"documents", "reranked"} => Apart(h, "doc"),
         kind # "chosen" => Descends(h),
         kind \notin {"chosen", "variables"} => Len(h) <= PageSize,
         kind \in {"gated", "reranked"} /\ Len(h) > 1 => \A i \in DOMAIN h : h[i].chunk.rerank >= MinRerank,
         kind = "documents" => \A i \in DOMAIN h : /\ h[i].score >= MinRelevance
                                                   /\ h[i].score \in Cosines \/ SaysWords(h[i].chunk),
         kind = "chosen" => \A i, j \in DOMAIN h : i < j /\ DocOf(h[i]) = DocOf(h[j]) => h[i].chunk.index < h[j].chunk.index
  PROVE  Fits(h, kind, labels)
  <1>1. IsSequence(h) /\ \A i \in DOMAIN h : InScope(h[i].chunk, labels)
    BY DEF Hits, InReach
  <1>2. Distinct(h, "id") /\ (kind \in {"documents", "reranked"} => Distinct(h, "doc"))
    BY <1>1, DistinctIs
  <1>3. kind \notin {"chosen"} => Falls(h)
    <2> SUFFICES ASSUME kind # "chosen", NEW i \in DOMAIN h, i > 1 PROVE h[i - 1].score >= h[i].score
      BY DEF Falls
    <2>1. i - 1 \in DOMAIN h /\ i - 1 < i
      BY <1>1, SequenceIs
    <2> QED BY <2>1 DEF Descends
  <1>4. kind = "documents" => \A i \in DOMAIN h :
          LET said == Scored(h[i].chunk, Cardinality(h[i].chunk.terms \cap Terms))
          IN  h[i].score >= MinRelevance /\ (h[i].score \notin Cosines => IsStrong(said))
    BY DEF SaysWords, WordsOf
  <1> QED BY <1>1, <1>2, <1>3, <1>4 DEF Fits

LEMMA EffectiveIs == \A manual, auto : InReach(Effective(manual, auto)) \subseteq InReach(auto)
  BY DEF InReach, InScope, Effective

LEMMA MoreInReach ==
  ASSUME NEW labels, NEW more, InReach(labels) \subseteq InReach(more), NEW s
  PROVE  (VectorFits(s, labels) => VectorFits(s, more)) /\ (KeywordFits(s, labels) => KeywordFits(s, more))
  BY DEF VectorFits, KeywordFits, Hits

AskFits(a) ==
  /\ a.pc = "vector" => VectorFits(a.vector, a.auto) /\ InReach(a.labels) \subseteq InReach(a.auto)
  /\ a.pc = "done" => Fits(a.hits, a.kind, a.labels)
NasInv ==
  /\ corpus \in Corpora
  /\ asks = [r \in Searchers |-> asks[r]]
  /\ \A r \in Searchers : AskFits(asks[r])

LEMMA AskKeeps ==
  ASSUME NasInv, NEW r \in Searchers, NEW a, AskFits(a), asks' = [asks EXCEPT ![r] = a], UNCHANGED corpus
  PROVE  NasInv'
  <1>1. asks' = [x \in Searchers |-> IF x = r THEN a ELSE asks[x]]
    BY DEF NasInv
  <1>2. \A x \in Searchers : asks'[x] = IF x = r THEN a ELSE asks[x]
    BY <1>1
  <1>3. asks' = [x \in Searchers |-> asks'[x]]
    BY <1>1
  <1>4. \A x \in Searchers : AskFits(asks'[x])
    BY <1>2 DEF NasInv
  <1>5. corpus' \in Corpora
    BY DEF NasInv
  <1> QED BY <1>3, <1>4, <1>5 DEF NasInv, AskFits, Fits, Distinct, Falls, VectorFits, Hits, Apart

LEMMA StayKeeps ==
  ASSUME NasInv, corpus' \in Corpora, asks' = asks
  PROVE  NasInv'
  <1>1. \A x \in Searchers : AskFits(asks'[x])
    BY DEF NasInv
  <1>2. asks' = [x \in Searchers |-> asks'[x]]
    BY DEF NasInv
  <1> QED BY <1>1, <1>2 DEF NasInv, AskFits, Fits, Distinct, Falls, VectorFits, Hits, Apart

LEMMA AnswerKeeps ==
  ASSUME NasInv, NEW r \in Searchers, NEW kind, NEW labels, NEW h, AnswerSearch(r, kind, labels, h), Fits(h, kind, labels)
  PROVE  NasInv'
  <1>1. PICK a : a = [pc |-> "done", kind |-> kind, labels |-> labels, hits |-> h]
    OBVIOUS
  <1>2. a.pc = "done" /\ a.kind = kind /\ a.labels = labels /\ a.hits = h
    BY <1>1
  <1>3. AskFits(a)
    BY <1>2 DEF AskFits
  <1>4. asks' = [asks EXCEPT ![r] = a] /\ UNCHANGED corpus
    BY <1>1 DEF AnswerSearch
  <1> QED BY <1>3, <1>4, AskKeeps

LEMMA AskDocumentsKeeps ==
  ASSUME NasInv, NEW r \in Searchers, NEW manual, NEW auto, AskDocuments(r, manual, auto)
  PROVE  NasInv'
  <1>1. PICK labels, v : labels = Effective(manual, auto) /\ v = VectorArm(corpus, labels)
    OBVIOUS
  <1>2. corpus \in Corpora
    BY DEF NasInv
  <1>3. InReach(labels) \subseteq InReach(auto) /\ VectorFits(v, labels)
    BY <1>1, <1>2, EffectiveIs, VectorArmIs
  <1>4. VectorFits(v, auto)
    BY <1>3, MoreInReach
  <1>5. PICK a : a = [pc |-> "vector", labels |-> labels, auto |-> auto, vector |-> v]
    OBVIOUS
  <1>6. a.pc = "vector" /\ a.labels = labels /\ a.auto = auto /\ a.vector = v
    BY <1>5
  <1>7. AskFits(a)
    BY <1>3, <1>4, <1>6 DEF AskFits
  <1>8. asks' = [asks EXCEPT ![r] = a] /\ UNCHANGED corpus
    BY <1>1, <1>5 DEF AskDocuments
  <1> QED BY <1>7, <1>8, AskKeeps

LEMMA AskKeywordsKeeps ==
  ASSUME NasInv, NEW r \in Searchers, NEW reranker, AskKeywords(r, reranker)
  PROVE  NasInv'
  <1>1. PICK a : a = asks[r]
    OBVIOUS
  <1>2. a.pc = "vector" /\ AskFits(a) /\ corpus \in Corpora
    BY <1>1 DEF NasInv, AskKeywords
  <1>3. VectorFits(a.vector, a.auto) /\ InReach(a.labels) \subseteq InReach(a.auto)
    BY <1>2 DEF AskFits
  <1>4. PICK k, v, labels, auto : k = KeywordArm(corpus, a.labels) /\ v = a.vector /\ labels = a.labels /\ auto = a.auto
    OBVIOUS
  <1>5. KeywordFits(k, auto)
    BY <1>2, <1>3, <1>4, KeywordArmIs, MoreInReach
  <1>6. PICK h : h = Documents(v, k, reranker)
    OBVIOUS
  <1>7. VectorFits(v, auto)
    BY <1>3, <1>4
  <1>8. /\ Page(h, auto, PageSize) /\ Apart(h, "doc")
        /\ reranker = "works" /\ Len(h) > 1 => \A i \in DOMAIN h : h[i].chunk.rerank >= MinRerank
        /\ reranker # "works" => \A i \in DOMAIN h : /\ h[i].score >= MinRelevance
                                                     /\ h[i].score \in Cosines \/ SaysWords(h[i].chunk)
    BY <1>5, <1>6, <1>7, DocumentsFound
  <1>9. PICK kind : kind = IF reranker = "works" THEN "reranked" ELSE "documents"
    OBVIOUS
  <1>10. Fits(h, kind, auto)
    <2>1. Hits(h, InReach(auto)) /\ Apart(h, "id") /\ Descends(h) /\ Len(h) <= PageSize
      BY <1>8 DEF Page
    <2>2. (kind = "reranked" /\ reranker = "works") \/ (kind = "documents" /\ reranker # "works")
      BY <1>9
    <2>3. kind # "gated" /\ kind # "chosen"
      BY <2>2
    <2> QED BY <1>8, <2>1, <2>2, <2>3, FitsIs
  <1>11. AnswerSearch(r, kind, auto, h)
    BY <1>1, <1>4, <1>6, <1>9 DEF AskKeywords
  <1> QED BY <1>10, <1>11, AnswerKeeps

LEMMA PageFits ==
  ASSUME NEW h, NEW labels, Page(h, labels, PageSize), NEW kind \in {"chunks", "chat"}
  PROVE  Fits(h, kind, labels)
  <1>1. Hits(h, InReach(labels)) /\ Apart(h, "id") /\ Descends(h) /\ Len(h) <= PageSize
    BY DEF Page
  <1>2. kind # "documents" /\ kind # "reranked" /\ kind # "gated" /\ kind # "chosen"
    OBVIOUS
  <1> QED BY <1>1, <1>2, FitsIs

LEMMA AskChunksKeeps ==
  ASSUME NasInv, NEW r \in Searchers, NEW q \in 1 .. Variants, NEW labels, NEW reranker \in Rerankers,
         AskChunks(r, q, labels, reranker)
  PROVE  NasInv'
  <1>1. PICK h : h = Chunks(corpus, q, labels, PageSize, reranker)
    OBVIOUS
  <1>2. corpus \in Corpora /\ PageSize \in Nat
    BY NasAssumption DEF NasInv, NasAssumption
  <1>3. /\ Page(h, labels, PageSize)
        /\ reranker = "works" /\ Len(h) > 1 => \A k \in DOMAIN h : h[k].chunk.rerank >= MinRerank
    BY <1>1, <1>2, ChunksFound
  <1>4. CASE reranker = "works"
    <2>1. Hits(h, InReach(labels)) /\ Apart(h, "id") /\ Descends(h) /\ Len(h) <= PageSize
      BY <1>3 DEF Page
    <2>2. Fits(h, "gated", labels)
      BY <1>3, <1>4, <2>1, FitsIs
    <2>3. AnswerSearch(r, "gated", labels, h)
      BY <1>1, <1>4 DEF AskChunks
    <2> QED BY <2>2, <2>3, AnswerKeeps
  <1>5. CASE reranker # "works"
    <2>1. Fits(h, "chunks", labels)
      BY <1>3, PageFits
    <2>2. AnswerSearch(r, "chunks", labels, h)
      BY <1>1, <1>5 DEF AskChunks
    <2> QED BY <2>1, <2>2, AnswerKeeps
  <1> QED BY <1>4, <1>5

LEMMA AskLanguagesKeeps ==
  ASSUME NasInv, NEW r \in Searchers, NEW n \in 1 .. Variants, NEW failing, NEW labels, AskLanguages(r, n, failing, labels)
  PROVE  NasInv'
  <1>1. PICK h, q : q = Take(Queries, n) /\ h = InLanguages(corpus, q, failing, labels, PageSize)
    OBVIOUS
  <1>2. corpus \in Corpora /\ PageSize \in Nat /\ Asked(q)
    BY <1>1, AskedIs, NasAssumption DEF NasInv, NasAssumption
  <1>3. Fits(h, "chunks", labels)
    BY <1>1, <1>2, LanguagesFound, PageFits
  <1>4. AnswerSearch(r, "chunks", labels, h)
    BY <1>1 DEF AskLanguages
  <1> QED BY <1>3, <1>4, AnswerKeeps

LEMMA AskVariablesKeeps ==
  ASSUME NasInv, NEW r \in Searchers, NEW failing, NEW labels, AskVariables(r, failing, labels)
  PROVE  NasInv'
  <1>1. PICK h : h = ForVariables(corpus, Queries, failing, labels)
    OBVIOUS
  <1>2. corpus \in Corpora /\ Asked(Queries)
    BY AskedIs DEF NasInv
  <1>3. Hits(h, InReach(labels)) /\ Apart(h, "id") /\ Descends(h)
    BY <1>1, <1>2, VariablesFound
  <1>4. Fits(h, "variables", labels)
    BY <1>3, FitsIs
  <1>5. AnswerSearch(r, "variables", labels, h)
    BY <1>1 DEF AskVariables
  <1> QED BY <1>4, <1>5, AnswerKeeps

LEMMA AskForChatKeeps ==
  ASSUME NasInv, NEW r \in Searchers, NEW n \in 1 .. Variants, NEW failing, AskForChat(r, n, failing)
  PROVE  NasInv'
  <1>1. PICK h, q : q = Take(Queries, n) /\ h = ForChat(corpus, q, failing, PageSize)
    OBVIOUS
  <1>2. corpus \in Corpora /\ PageSize \in Nat /\ Asked(q)
    BY <1>1, AskedIs, NasAssumption DEF NasInv, NasAssumption
  <1>3. Fits(h, "chat", {})
    BY <1>1, <1>2, ChatFound, PageFits
  <1>4. AnswerSearch(r, "chat", {}, h)
    BY <1>1 DEF AskForChat
  <1> QED BY <1>3, <1>4, AnswerKeeps

LEMMA AskChosenKeeps ==
  ASSUME NasInv, NEW r \in Searchers, NEW docs, docs \subseteq {corpus[i].doc : i \in DOMAIN corpus}, AskChosen(r, docs)
  PROVE  NasInv'
  <1>1. PICK h : h = ForDocuments(corpus, docs)
    OBVIOUS
  <1>2. corpus \in Corpora
    BY DEF NasInv
  <1>3. /\ Hits(h, InReach({})) /\ Apart(h, "id")
        /\ \A i, j \in DOMAIN h : i < j /\ DocOf(h[i]) = DocOf(h[j]) => h[i].chunk.index < h[j].chunk.index
    BY <1>1, <1>2, ChosenFound
  <1>4. Fits(h, "chosen", {})
    BY <1>3, FitsIs
  <1>5. AnswerSearch(r, "chosen", {}, h)
    BY <1>1 DEF AskChosen
  <1> QED BY <1>4, <1>5, AnswerKeeps

LEMMA NasStep ==
  ASSUME NasInv, [NasNext]_nasVars
  PROVE  NasInv'
  <1>1. ASSUME NEW r \in Searchers, Leave(r) PROVE NasInv'
    <2>1. Unasked.pc = "idle"
      BY DEF Unasked
    <2>2. AskFits(Unasked)
      BY <2>1 DEF AskFits
    <2>3. asks' = [asks EXCEPT ![r] = Unasked] /\ UNCHANGED corpus
      BY <1>1 DEF Leave
    <2> QED BY <2>2, <2>3, AskKeeps
  <1>2. CASE Reindex
    <2>1. corpus' \in Corpora /\ asks' = asks
      BY <1>2 DEF Reindex
    <2> QED BY <2>1, StayKeeps
  <1>3. CASE UNCHANGED nasVars
    <2>1. corpus' \in Corpora /\ asks' = asks
      BY <1>3 DEF nasVars, NasInv
    <2> QED BY <2>1, StayKeeps
  <1>4. ASSUME NEW r \in Searchers, NEW docs \in SUBSET {corpus[i].doc : i \in DOMAIN corpus}, AskChosen(r, docs) PROVE NasInv'
    BY <1>4, AskChosenKeeps
  <1> QED BY <1>1, <1>2, <1>3, <1>4, AskDocumentsKeeps, AskKeywordsKeeps, AskChunksKeeps, AskLanguagesKeeps,
            AskVariablesKeeps, AskForChatKeeps DEF NasNext

\* Whatever fails and whatever is indexed between two reads, what a search
\* finds is in the scope of who asks, not twice, in order, within its page and
\* relevant (FoundFits of NasSearch).  The vector arm of an open request has
\* kept to its scope (NasInv), for the corpus it read may be gone.
THEOREM FoundAlwaysFits == NasSpec => []FoundFits
  <1>1. NasInit => NasInv
    <2> SUFFICES ASSUME NasInit PROVE NasInv
      OBVIOUS
    <2>1. Unasked.pc = "idle"
      BY DEF Unasked
    <2>2. AskFits(Unasked)
      BY <2>1 DEF AskFits
    <2> QED BY <2>2 DEF NasInit, NasInv
  <1>2. NasInv /\ [NasNext]_nasVars => NasInv'
    BY NasStep
  <1>3. NasInv => FoundFits
    BY DEF NasInv, AskFits, FoundFits
  <1> QED BY <1>1, <1>2, <1>3, PTL DEF NasSpec

-----------------------------------------------------------------------------
(* Trade books *)

\* The fields of an upload.
IsImport(im) == im = [op |-> im.op, no |-> im.no, file |-> im.file, company |-> im.company,
                      new |-> im.new, seen |-> im.seen, crossed |-> im.crossed]

\* What an upload that nobody crossed has read is what is there.
ReadStands(im) ==
  /\ im.op \in {"summary", "products"} => WeeksAreNew(im)
  /\ im.op = "products" => im.seen = IF ParseProducts(im.file) = {} THEN {} ELSE SeenOf(im.company)
  /\ im.op = "customs" => NumbersAreAsRead(im)
UploadStands(r) == ~imports[r].crossed /\ imports[r].op # "none" => Others(r) = {} /\ ReadStands(imports[r])
TradeInv ==
  /\ imports = [r \in Importers |-> imports[r]]
  /\ \A r \in Importers : IsImport(imports[r])
  /\ \A r \in Importers : UploadStands(r)

\* The upload that begins is marked with those under way, and they with it.
LEMMA ImportIs ==
  ASSUME NEW r \in Importers, NEW im, IsImport(im), im.crossed = FALSE, im.op # "none", Import(r, im), TradeInv
  PROVE  /\ imports' = [q \in Importers |-> imports'[q]]
         /\ \A q \in Importers : IsImport(imports'[q])
         /\ imports'[r] = [im EXCEPT !.crossed = Others(r) # {}]
         /\ \A q \in Importers \ {r} : imports'[q].op = imports[q].op /\ (imports'[q].crossed \/ imports'[q].op = "none")
  <1>1. \A q \in Importers : imports'[q] = CASE q = r -> [im EXCEPT !.crossed = Others(r) # {}]
                                            [] q \in Others(r) -> [imports[q] EXCEPT !.crossed = TRUE]
                                            [] OTHER -> imports[q]
    BY DEF Import
  <1>2. imports' = [q \in Importers |-> imports'[q]]
    BY DEF Import
  <1>3. r \notin Others(r) /\ \A q \in Importers \ {r} : q \in Others(r) <=> imports[q].op # "none"
    BY DEF Others
  <1>4. imports'[r] = [im EXCEPT !.crossed = Others(r) # {}]
    BY <1>1, <1>3
  <1>5. IsImport(imports'[r])
    BY <1>4 DEF IsImport
  <1>6. ASSUME NEW q \in Importers \ {r}
        PROVE  IsImport(imports'[q]) /\ imports'[q].op = imports[q].op /\ (imports'[q].crossed \/ imports'[q].op = "none")
    <2>1. IsImport(imports[q])
      BY DEF TradeInv
    <2>2. CASE q \in Others(r)
      <3>1. imports'[q] = [imports[q] EXCEPT !.crossed = TRUE]
        BY <1>1, <1>3, <2>2
      <3> QED BY <2>1, <3>1 DEF IsImport
    <2>3. CASE q \notin Others(r)
      <3>1. imports'[q] = imports[q] /\ imports[q].op = "none"
        BY <1>1, <1>3, <2>3
      <3> QED BY <2>1, <3>1
    <2> QED BY <2>2, <2>3
  <1> QED BY <1>2, <1>4, <1>5, <1>6

LEMMA SameRead ==
  ASSUME NEW r \in Importers, NEW im, UNCHANGED <<weekly, products, customs>>,
         imports'[r].op = im.op, imports'[r].new = im.new, imports'[r].seen = im.seen,
         imports'[r].file = im.file, imports'[r].company = im.company, ReadStands(im)
  PROVE  ReadStands(imports[r])'
  <1>1. WeeksAreNew(im) => WeeksAreNew(imports[r])'
    BY DEF WeeksAreNew
  <1>2. NumbersAreAsRead(im) => NumbersAreAsRead(imports[r])'
    BY DEF NumbersAreAsRead, Numbers
  <1>3. ParseProducts(imports'[r].file) = ParseProducts(im.file) /\ SeenOf(imports[r].company)' = SeenOf(im.company)
    BY DEF ParseProducts, SeenOf
  <1>4. ParseProducts(imports[r].file)' = ParseProducts(im.file)
    BY <1>3 DEF ParseProducts
  <1> QED BY <1>1, <1>2, <1>3, <1>4 DEF ReadStands

LEMMA BeginStands ==
  ASSUME TradeInv, NEW r \in Importers, NEW im, IsImport(im), im.crossed = FALSE, im.op # "none", Import(r, im), imports[r].op = "none",
         UNCHANGED <<weekly, products, customs>>, ReadStands(im)
  PROVE  TradeInv'
  <1>1. /\ imports' = [q \in Importers |-> imports'[q]]
        /\ \A q \in Importers : IsImport(imports'[q])
        /\ imports'[r] = [im EXCEPT !.crossed = Others(r) # {}]
        /\ \A q \in Importers \ {r} : imports'[q].op = imports[q].op /\ (imports'[q].crossed \/ imports'[q].op = "none")
    BY ImportIs
  <1>2. ASSUME NEW q \in Importers PROVE UploadStands(q)'
    <2>1. CASE q # r
      BY <1>1, <2>1 DEF UploadStands
    <2>2. CASE q = r
      <3> SUFFICES ASSUME ~imports'[r].crossed PROVE Others(r)' = {} /\ ReadStands(imports[r])'
        BY <2>2 DEF UploadStands
      <3>1. /\ imports'[r].op = im.op /\ imports'[r].new = im.new /\ imports'[r].seen = im.seen
            /\ imports'[r].file = im.file /\ imports'[r].company = im.company /\ imports'[r].crossed = (Others(r) # {})
        BY <1>1 DEF IsImport
      <3>2. Others(r) = {}
        BY <3>1
      <3>3. Others(r)' = {}
        BY <1>1, <3>2 DEF Others
      <3>4. ReadStands(imports[r])'
        BY <3>1, SameRead
      <3> QED BY <3>3, <3>4
    <2> QED BY <2>1, <2>2
  <1> QED BY <1>1, <1>2 DEF TradeInv, IsImport

\* Where one upload ends or one row of declarations goes, nobody else stands uncrossed.
LEMMA EndStands ==
  ASSUME TradeInv, NEW r \in Importers, imports[r].op # "none", imports' = [imports EXCEPT ![r] = NoImport]
  PROVE  TradeInv'
  <1>1. /\ imports' = [q \in Importers |-> imports'[q]]
        /\ imports'[r] = NoImport /\ \A q \in Importers \ {r} : imports'[q] = imports[q]
    BY DEF TradeInv
  <1>2. NoImport.op = "none" /\ IsImport(NoImport)
    BY DEF NoImport, IsImport
  <1>3. ASSUME NEW q \in Importers PROVE UploadStands(q)'
    <2>1. CASE q = r
      BY <1>1, <1>2, <2>1 DEF UploadStands
    <2>2. CASE q # r
      <3>1. imports'[q] = imports[q] /\ (imports[q].crossed \/ imports[q].op = "none")
        <4>1. r \in Others(q)
          BY <2>2 DEF Others
        <4> QED BY <1>1, <2>2, <4>1 DEF TradeInv, UploadStands
      <3> QED BY <3>1 DEF UploadStands
    <2> QED BY <2>1, <2>2
  <1>4. \A q \in Importers : IsImport(imports'[q])
    BY <1>1, <1>2 DEF TradeInv
  <1> QED BY <1>1, <1>3, <1>4 DEF TradeInv, IsImport

LEMMA BeginUploadStands ==
  ASSUME TradeInv, NEW r \in Importers, NEW f, NEW explicit, BeginUpload(r, f, explicit)
  PROVE  TradeInv'
  <1>1. PICK rows, company : rows = ParseSummary(Sheet(f)) /\ company = ResolveCompany(explicit, rows)
    OBVIOUS
  <1>2. PICK im : im = [NoImport EXCEPT !.op = "summary", !.no = uploaded + 1, !.file = f, !.company = company,
                                        !.new = {Key(company, rows[i]) : i \in DOMAIN rows} \ DOMAIN weekly]
    OBVIOUS
  <1>3. Import(r, im) /\ imports[r].op = "none" /\ UNCHANGED <<weekly, products, customs>>
    BY <1>1, <1>2 DEF BeginUpload
  <1>4. /\ IsImport(im) /\ im.crossed = FALSE /\ im.op = "summary"
        /\ im.new = {Key(company, rows[i]) : i \in DOMAIN rows} \ DOMAIN weekly
    BY <1>2 DEF NoImport, IsImport
  <1>5. ReadStands(im)
    <2>1. im.new \cap DOMAIN weekly = {}
      BY <1>4
    <2> QED BY <1>4, <2>1 DEF ReadStands, WeeksAreNew
  <1> QED BY <1>3, <1>4, <1>5, BeginStands

LEMMA BeginCustomsStands ==
  ASSUME TradeInv, NEW r \in Importers, NEW f, NEW heard, BeginCustoms(r, f, heard)
  PROVE  TradeInv'
  <1>1. PICK rows : rows = ParseDeclarations(f, heard)
    OBVIOUS
  <1>2. PICK im : im = [NoImport EXCEPT !.op = "customs", !.no = uploaded + 1, !.file = rows,
                                        !.new = {rows[i].number : i \in DOMAIN rows} \ (Numbers \cup {""})]
    OBVIOUS
  <1>3. Import(r, im) /\ imports[r].op = "none" /\ UNCHANGED <<weekly, products, customs>>
    BY <1>1, <1>2 DEF BeginCustoms
  <1>4. /\ IsImport(im) /\ im.crossed = FALSE /\ im.op = "customs" /\ im.file = rows
        /\ im.new = {rows[i].number : i \in DOMAIN rows} \ (Numbers \cup {""})
    BY <1>2 DEF NoImport, IsImport
  <1>5. ReadStands(im)
    <2>1. im.new \cap Numbers = {} /\ {im.file[i].number : i \in DOMAIN im.file} \subseteq im.new \cup Numbers \cup {""}
      BY <1>4
    <2> QED BY <1>4, <2>1 DEF ReadStands, NumbersAreAsRead
  <1> QED BY <1>3, <1>4, <1>5, BeginStands

LEMMA WipeStands ==
  ASSUME TradeInv, NEW r \in Importers, WipeProducts(r)
  PROVE  TradeInv'
  <1>1. PICK seen : seen = IF ParseProducts(imports[r].file) = {} THEN {} ELSE SeenOf(imports[r].company)
    OBVIOUS
  <1>2. PICK im : im = [imports[r] EXCEPT !.op = "products", !.seen = seen]
    OBVIOUS
  <1>3. IsImport(imports[r]) /\ imports[r].op = "summary"
    BY DEF TradeInv, WipeProducts
  <1>4. /\ IsImport(im) /\ im.op = "products" /\ im.seen = seen /\ im.crossed = imports[r].crossed
        /\ im.new = imports[r].new /\ im.file = imports[r].file /\ im.company = imports[r].company
    BY <1>2, <1>3 DEF IsImport
  <1>5. /\ imports' = [q \in Importers |-> imports'[q]]
        /\ imports'[r] = im /\ \A q \in Importers \ {r} : imports'[q] = imports[q]
    BY <1>1, <1>2 DEF TradeInv, WipeProducts
  <1>6. UNCHANGED <<weekly, products, customs>>
    BY DEF WipeProducts
  <1>7. ASSUME NEW q \in Importers PROVE UploadStands(q)'
    <2>1. CASE q = r
      <3> SUFFICES ASSUME ~im.crossed PROVE Others(r)' = {} /\ ReadStands(imports[r])'
        BY <1>5, <2>1 DEF UploadStands
      <3>1. Others(r) = {} /\ ReadStands(imports[r])
        BY <1>3, <1>4 DEF TradeInv, UploadStands
      <3>2. Others(r)' = {}
        BY <1>5, <3>1 DEF Others
      <3>3. ReadStands(im)
        BY <1>1, <1>3, <1>4, <3>1 DEF ReadStands, WeeksAreNew
      <3>4. ReadStands(imports[r])'
        BY <1>5, <1>6, <3>3, SameRead
      <3> QED BY <3>2, <3>4
    <2>2. CASE q # r
      <3>1. imports'[q] = imports[q] /\ (imports[q].crossed \/ imports[q].op = "none")
        <4>1. r \in Others(q)
          BY <1>3, <2>2 DEF Others
        <4> QED BY <1>5, <2>2, <4>1 DEF TradeInv, UploadStands
      <3> QED BY <3>1 DEF UploadStands
    <2> QED BY <2>1, <2>2
  <1>8. \A q \in Importers : IsImport(imports'[q])
    BY <1>4, <1>5 DEF TradeInv
  <1> QED BY <1>5, <1>7, <1>8 DEF TradeInv, IsImport

LEMMA DeleteStands ==
  ASSUME TradeInv, NEW c, DeleteDeclaration(c)
  PROVE  TradeInv'
  <1>1. imports' = [r \in Importers |-> [imports[r] EXCEPT !.crossed = imports[r].op # "none"]]
    BY DEF DeleteDeclaration
  <1>2. imports' = [q \in Importers |-> imports'[q]]
    BY <1>1
  <1>3. ASSUME NEW q \in Importers
        PROVE  IsImport(imports'[q]) /\ imports'[q].op = imports[q].op /\ (imports'[q].crossed \/ imports'[q].op = "none")
    <2>1. imports'[q] = [imports[q] EXCEPT !.crossed = imports[q].op # "none"] /\ IsImport(imports[q])
      BY <1>1 DEF TradeInv
    <2> QED BY <2>1 DEF IsImport
  <1>4. \A q \in Importers : UploadStands(q)'
    BY <1>3 DEF UploadStands
  <1> QED BY <1>2, <1>3, <1>4 DEF TradeInv, IsImport

LEMMA TradeStep ==
  ASSUME TradeInv, [TradeNext]_tradeVars
  PROVE  TradeInv'
  <1>1. ASSUME NEW r \in Importers, CommitUpload(r) \/ CommitCustoms(r) PROVE TradeInv'
    <2>1. imports[r].op # "none" /\ imports' = [imports EXCEPT ![r] = NoImport]
      BY <1>1 DEF CommitUpload, CommitCustoms
    <2> QED BY <2>1, EndStands
  <1>2. CASE UNCHANGED tradeVars
    <2>1. imports' = imports /\ UNCHANGED <<weekly, products, customs>>
      BY <1>2 DEF tradeVars
    <2>2. ASSUME NEW r \in Importers PROVE UploadStands(r)'
      <3>1. UploadStands(r)
        BY DEF TradeInv
      <3>2. Others(r)' = Others(r)
        BY <2>1 DEF Others
      <3>3. ReadStands(imports[r]) => ReadStands(imports[r])'
        <4>1. PICK im : im = imports[r]
          OBVIOUS
        <4> QED BY <2>1, <4>1, SameRead
      <3> QED BY <2>1, <3>1, <3>2, <3>3 DEF UploadStands
    <2> QED BY <2>1, <2>2 DEF TradeInv, IsImport
  <1> QED BY <1>1, <1>2, BeginUploadStands, BeginCustomsStands, WipeStands, DeleteStands DEF TradeNext

\* What the end of an upload nobody crossed does: it is not refused, and the
\* stock of its company, and of no other, is that of its file.
GoesThrough(r) ==
  Ends(r) /\ ~imports[r].crossed =>
    IF imports[r].op = "products" THEN WeeksAreNew(imports[r]) /\ StockReplaced(imports[r]) ELSE NumbersAreAsRead(imports[r])

LEMMA CommitGoesThrough ==
  ASSUME TradeInv, NEW r \in Importers, CommitUpload(r), ~imports[r].crossed
  PROVE  WeeksAreNew(imports[r]) /\ StockReplaced(imports[r])
  <1>1. PICK im : im = imports[r]
    OBVIOUS
  <1>2. im.op = "products" /\ ~im.crossed /\ ReadStands(im)
    BY <1>1 DEF TradeInv, UploadStands, CommitUpload
  <1>3. WeeksAreNew(im) /\ im.seen = IF ParseProducts(im.file) = {} THEN {} ELSE SeenOf(im.company)
    BY <1>2 DEF ReadStands
  <1>4. products' = (products \ im.seen) \cup Stock(im)
    BY <1>1, <1>3 DEF CommitUpload
  <1>5. \A p \in Stock(im) : p.company = im.company /\ p.upload = im.no
    BY DEF Stock
  <1>6. im.seen \subseteq {p \in products : p.company = im.company}
    BY <1>3 DEF SeenOf
  <1>7. {p \in products' : p.company # im.company} = {p \in products : p.company # im.company}
    BY <1>4, <1>5, <1>6
  <1>8. ASSUME ParseProducts(im.file) # {} PROVE {p.upload : p \in {q \in products' : q.company = im.company}} = {im.no}
    <2>1. {q \in products' : q.company = im.company} = Stock(im)
      BY <1>3, <1>4, <1>5, <1>8 DEF SeenOf
    <2>2. Stock(im) # {}
      BY <1>8 DEF Stock
    <2> QED BY <1>5, <2>1, <2>2
  <1>9. StockReplaced(im)
    BY <1>7, <1>8 DEF StockReplaced
  <1> QED BY <1>1, <1>3, <1>9

LEMMA UploadsGo ==
  ASSUME TradeInv, [TradeNext]_tradeVars, NEW r \in Importers
  PROVE  GoesThrough(r)
  <1> SUFFICES ASSUME Ends(r), ~imports[r].crossed
      PROVE  IF imports[r].op = "products" THEN WeeksAreNew(imports[r]) /\ StockReplaced(imports[r]) ELSE NumbersAreAsRead(imports[r])
    BY DEF GoesThrough
  <1>1. imports[r].op \in {"products", "customs"} /\ imports'[r].op = "none"
    BY DEF Ends
  <1>2. PICK q \in Importers : imports'[q].op # imports[q].op /\ q = r
    BY <1>1
  <1>3. ASSUME NEW x \in Importers, CommitUpload(x) \/ CommitCustoms(x) PROVE x = r
    <2>1. imports' = [imports EXCEPT ![x] = NoImport]
      BY <1>3 DEF CommitUpload, CommitCustoms
    <2> QED BY <1>1, <2>1 DEF TradeInv
  <1>4. ASSUME NEW x \in Importers, WipeProducts(x) PROVE FALSE
    <2>1. \A y \in Importers \ {x} : imports'[y] = imports[y]
      BY <1>4 DEF WipeProducts, TradeInv
    <2>2. imports[x].op = "summary"
      BY <1>4 DEF WipeProducts
    <2> QED BY <1>1, <2>1, <2>2
  <1>5. ASSUME NEW x \in Importers, NEW im, IsImport(im), im.crossed = FALSE, im.op # "none", Import(x, im), imports[x].op = "none" PROVE FALSE
    <2>1. \A y \in Importers \ {x} : imports'[y].op = imports[y].op
      BY <1>5, ImportIs
    <2> QED BY <1>1, <1>5, <2>1
  <1>6. ASSUME NEW x \in Importers, NEW f, NEW explicit, BeginUpload(x, f, explicit) PROVE FALSE
    <2>1. PICK im : im = [NoImport EXCEPT !.op = "summary", !.no = uploaded + 1, !.file = f,
                            !.company = ResolveCompany(explicit, ParseSummary(Sheet(f))),
                            !.new = {Key(ResolveCompany(explicit, ParseSummary(Sheet(f))), ParseSummary(Sheet(f))[i]) :
                                      i \in DOMAIN ParseSummary(Sheet(f))} \ DOMAIN weekly]
      OBVIOUS
    <2>2. Import(x, im) /\ imports[x].op = "none"
      BY <1>6, <2>1 DEF BeginUpload
    <2>3. IsImport(im) /\ im.crossed = FALSE /\ im.op # "none"
      BY <2>1 DEF NoImport, IsImport
    <2> QED BY <1>5, <2>2, <2>3
  <1>7. ASSUME NEW x \in Importers, NEW f, NEW heard, BeginCustoms(x, f, heard) PROVE FALSE
    <2>1. PICK im : im = [NoImport EXCEPT !.op = "customs", !.no = uploaded + 1, !.file = ParseDeclarations(f, heard),
                            !.new = {ParseDeclarations(f, heard)[i].number : i \in DOMAIN ParseDeclarations(f, heard)} \ (Numbers \cup {""})]
      OBVIOUS
    <2>2. Import(x, im) /\ imports[x].op = "none"
      BY <1>7, <2>1 DEF BeginCustoms
    <2>3. IsImport(im) /\ im.crossed = FALSE /\ im.op # "none"
      BY <2>1 DEF NoImport, IsImport
    <2> QED BY <1>5, <2>2, <2>3
  <1>8. ASSUME NEW c, DeleteDeclaration(c) PROVE FALSE
    <2>1. imports'[r] = [imports[r] EXCEPT !.crossed = imports[r].op # "none"] /\ IsImport(imports[r])
      BY <1>8 DEF DeleteDeclaration, TradeInv
    <2>2. imports'[r].op = imports[r].op
      BY <2>1 DEF IsImport
    <2> QED BY <1>1, <2>2
  <1>9. imports' # imports
    BY <1>1
  <1>10. CommitUpload(r) \/ CommitCustoms(r)
    BY <1>3, <1>4, <1>6, <1>7, <1>8, <1>9 DEF TradeNext, tradeVars
  <1>11. CASE CommitUpload(r)
    <2>1. imports[r].op = "products"
      BY <1>11 DEF CommitUpload
    <2> QED BY <1>11, <2>1, CommitGoesThrough
  <1>12. CASE CommitCustoms(r)
    <2>1. imports[r].op = "customs"
      BY <1>12 DEF CommitCustoms
    <2>2. NumbersAreAsRead(imports[r])
      BY <2>1 DEF TradeInv, UploadStands, ReadStands
    <2> QED BY <2>1, <2>2
  <1> QED BY <1>10, <1>11, <1>12

\* An upload that nobody crosses is not refused, and the stock of its company,
\* and of no other, is that of its file (StockReplaced of TradeBooks, a part of
\* BooksFollowUploads).  What it read to tell new rows from old ones still
\* stands when it ends (TradeInv).
THEOREM UploadsGoThrough == TradeSpec => [][\A r \in Importers : GoesThrough(r)]_tradeVars
  <1>1. TradeInit => TradeInv
    <2>1. NoImport.op = "none" /\ IsImport(NoImport)
      BY DEF NoImport, IsImport
    <2> QED BY <2>1 DEF TradeInit, TradeInv, UploadStands
  <1>2. TradeInv /\ [TradeNext]_tradeVars => TradeInv'
    BY TradeStep
  <1>3. TradeInv /\ [TradeNext]_tradeVars => \A r \in Importers : GoesThrough(r)
    BY UploadsGo
  <1> QED BY <1>1, <1>2, <1>3, PTL DEF TradeSpec
=============================================================================
