------------------------------- MODULE SchemaOps -------------------------------
(* The schema of the database and the operations of the Alembic revisions on    *)
(* it. PostgreSQL and Alembic are not part of the repository: this module says  *)
(* what the revisions rely on, that an operation either changes the schema or   *)
(* fails, and what a DROP takes along.                                          *)
EXTENDS Naturals, Sequences, SequencesExt, TLC

(* A schema maps every table to its columns, those of them that are NOT NULL,   *)
(* and its other objects; types and extensions are objects of "database".       *)
(* An object involves columns (DROP COLUMN takes it along) and may depend on an *)
(* object elsewhere. A fact about the rows that can make an operation fail is   *)
(* an object too: "twins" are two rows that agree in cols, "free" is a row with *)
(* an arbitrary value in cols.                                                  *)
Obj(kind, name, cols, to) == [kind |-> kind, name |-> name, cols |-> cols, to |-> to]
Nothing == [cols |-> {}, required |-> {}, objs |-> {}]
EmptyDatabase == [t \in {"database"} |-> Nothing]

IndexKinds == {"index", "unique", "invalid"}
IsSame(p, o) == p.name = o.name /\ (p.kind = o.kind \/ {p.kind, o.kind} \subseteq IndexKinds)
Has(S, t, o) == t \in DOMAIN S /\ \E p \in S[t].objs : IsSame(p, o)
HasObj(S, t, kind, name) == Has(S, t, Obj(kind, name, {}, ""))

--------------------------------------------------------------------------------
(* The operations. *)
Make(t, new, req, opt, objs) ==
    [do |-> "make", on |-> t, new |-> new, cols |-> req \cup opt, required |-> req, objs |-> objs,
     lenient |-> FALSE]
Drop(t, kinds, names) ==
    [do |-> "drop", on |-> t, kinds |-> kinds, names |-> names, lenient |-> FALSE, cascade |-> FALSE]
Alter(t, do, c) == [do |-> do, on |-> t, cols |-> {c}]
IfMissing(op) == [op EXCEPT !.lenient = TRUE]
IfPresent(op) == [op EXCEPT !.lenient = TRUE]

(* refs pairs a column with the table, type or extension it depends on. *)
Table(t, req, opt, refs) ==
    Make(t, TRUE, req, opt, {Obj("reference", r[1], {r[1]}, r[2]) : r \in refs})
Column(t, req, opt) == Make(t, FALSE, req, opt, {})
RefColumn(t, c, to, req) ==
    Make(t, FALSE, IF req THEN {c} ELSE {}, {c}, {Obj("reference", c, {c}, to)})
Index(t, n, cols) == Make(t, FALSE, {}, {}, {Obj("index", n, cols, "")})
IndexUsing(t, n, cols, ext) == Make(t, FALSE, {}, {}, {Obj("index", n, cols, ext)})
Unique(t, n, cols) == Make(t, FALSE, {}, {}, {Obj("unique", n, cols, "")})
Check(t, n, cols) == Make(t, FALSE, {}, {}, {Obj("check", n, cols, "")})
Rows(t, names) == Make(t, FALSE, {}, {}, {Obj("row", n, {}, "") : n \in names})
Type(n) == IfMissing(Make("database", FALSE, {}, {}, {Obj("type", n, {}, "")}))
Extension(n) == IfMissing(Make("database", FALSE, {}, {}, {Obj("extension", n, {}, "")}))
NotNull(t, c) == Alter(t, "require", c)
Nullable(t, c) == Alter(t, "relax", c)

DropTable(t) == Drop(t, {"table"}, {})
DropTableCascade(t) == [DropTable(t) EXCEPT !.cascade = TRUE]
DropColumns(t, cols) == Drop(t, {"column"}, cols)
DropIndexes(t, names) == Drop(t, IndexKinds, names)
DropCheck(t, n) == Drop(t, {"check"}, {n})
DropType(n) == IfPresent(Drop("database", {"type"}, {n}))
DropExtension(n) == IfPresent(Drop("database", {"extension"}, {n}))
DropRows(t, names) == Drop(t, {"row", "free"}, names)

--------------------------------------------------------------------------------
Before(S, t) == IF t \in DOMAIN S THEN S[t] ELSE Nothing

(* The rows of a table T contradict a new object or a NOT NULL. *)
Refuses(T, o) ==
    \E r \in T.objs : \/ o.kind = "check" /\ r.kind = "free" /\ r.cols \cap o.cols # {}
                      \/ o.kind = "unique" /\ r.kind = "twins" /\ o.cols \subseteq r.cols

CannotMake(S, op) ==
    LET T == Before(S, op.on)
        there == DOMAIN S \cup {o.name : o \in S["database"].objs}
    IN  \/ op.new /\ ~op.lenient /\ op.on \in DOMAIN S
        \/ ~op.new /\ op.on \notin DOMAIN S
        \/ ~op.lenient /\ (op.cols \cap T.cols # {} \/ \E o \in op.objs : Has(S, op.on, o))
        \/ \E o \in op.objs : /\ ~Has(S, op.on, o)
                              /\ \/ Refuses(T, o)
                                 \/ ~(o.cols \subseteq T.cols \cup op.cols)
                                 \/ o.to # "" /\ o.to \notin there \cup {op.on}

(* IF NOT EXISTS on a table leaves the whole statement out. *)
Made(S, op) ==
    LET T == Before(S, op.on)
        made == [cols |-> T.cols \cup op.cols,
                 required |-> T.required \cup (op.required \ T.cols),
                 objs |-> T.objs \cup {o \in op.objs : ~Has(S, op.on, o)}]
    IN  IF op.new /\ op.on \in DOMAIN S THEN S
        ELSE (op.on :> made) @@ S

Targets(S, op) == {o \in Before(S, op.on).objs : o.kind \in op.kinds /\ o.name \in op.names}

(* Objects elsewhere that depend on what goes. *)
Dependents(S, op) ==
    LET gone == IF "table" \in op.kinds THEN {op.on} ELSE {o.name : o \in Targets(S, op)}
    IN  [t \in DOMAIN S \ {op.on} |-> {o \in S[t].objs : o.to \in gone}]

CannotDrop(S, op) ==
    \/ ~op.lenient /\ \/ op.on \notin DOMAIN S
                      \/ "column" \in op.kinds /\ ~(op.names \subseteq S[op.on].cols)
                      \/ op.kinds \cap {"table", "column"} = {}
                           /\ op.names # {o.name : o \in Targets(S, op)}
    \/ ~op.cascade /\ \E t \in DOMAIN Dependents(S, op) : Dependents(S, op)[t] # {}

(* A table goes with all that is on it, a column with all that involves it. *)
Dropped(S, op) ==
    LET T == Before(S, op.on)
        left == IF "column" \in op.kinds
                THEN [cols |-> T.cols \ op.names, required |-> T.required \ op.names,
                      objs |-> {o \in T.objs : o.cols \cap op.names = {}}]
                ELSE [T EXCEPT !.objs = @ \ Targets(S, op)]
        others == [t \in DOMAIN S \ {op.on} |->
                     IF op.cascade THEN [S[t] EXCEPT !.objs = @ \ Dependents(S, op)[t]] ELSE S[t]]
    IN  IF op.on \notin DOMAIN S THEN S
        ELSE IF "table" \in op.kinds THEN others
        ELSE [S EXCEPT ![op.on] = left]

Fails(S, op) ==
    CASE op.do = "make" -> CannotMake(S, op)
      [] op.do = "drop" -> CannotDrop(S, op)
      [] op.do = "require" -> \/ op.on \notin DOMAIN S \/ ~(op.cols \subseteq S[op.on].cols)
                              \/ \E r \in S[op.on].objs : r.kind = "free" /\ r.cols \cap op.cols # {}
      [] op.do = "relax" -> op.on \notin DOMAIN S \/ ~(op.cols \subseteq S[op.on].cols)

After(S, op) ==
    CASE op.do = "make" -> Made(S, op)
      [] op.do = "drop" -> Dropped(S, op)
      [] op.do = "require" -> [S EXCEPT ![op.on].required = @ \cup op.cols]
      [] op.do = "relax" -> [S EXCEPT ![op.on].required = @ \ op.cols]

(* A sequence of operations: all of them, or the first failure. *)
Execute(S, ops) ==
    FoldLeft(LAMBDA r, op : IF ~r.ok \/ Fails(r.schema, op) THEN [r EXCEPT !.ok = FALSE]
                            ELSE [r EXCEPT !.schema = After(@, op)],
             [ok |-> TRUE, schema |-> S], ops)

(* CREATE INDEX CONCURRENTLY leaves an invalid index behind when it fails. *)
Remains(S, op) ==
    IF op.do = "make" /\ op.on \in DOMAIN S
    THEN [S EXCEPT ![op.on].objs = @ \cup {Obj("invalid", o.name, {}, "") : o \in op.objs}]
    ELSE S

--------------------------------------------------------------------------------
(* A revision is a sequence of stages. autocommit_block() commits what is       *)
(* pending when it is entered, and every statement in it at once.               *)
Transaction(ops) == << [auto |-> FALSE, ops |-> ops] >>
Block(ops) == << [auto |-> TRUE, ops |-> <<>>] >> \o [i \in DOMAIN ops |-> [auto |-> TRUE, ops |-> << ops[i] >>]]
================================================================================
