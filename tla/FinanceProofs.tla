---------------------------- MODULE FinanceProofs ----------------------------
(***************************************************************************)
(* What holds of the finance module for any number of accounts, files,     *)
(* entries and requests, in three parts: matching transactions             *)
(* (TransferMatching: PairsFit, LinksAgree, RunIsComplete), categories and *)
(* counterparts (Catalog: CatalogIsSound) and the books (Ledger:           *)
(* UploadsAreComplete, MergeIsBalanceAt).                                  *)
(*                                                                         *)
(* None of these is inductive: they say nothing of what a request has      *)
(* decided and not committed.  MatchingInv looks at every row as it will   *)
(* be after a request's commit; CatalogInv at the requests while no two    *)
(* overlap; LedgerInv at how much of its file each upload has in, and at   *)
(* which accounts a recomputation has still to read.                       *)
(***************************************************************************)
EXTENDS TransferMatching, Catalog, Ledger, FiniteSetTheorems, SequenceTheorems, WellFoundedInduction, TLAPS

-----------------------------------------------------------------------------
(* Rows in some order, and the nested loops over them *)

\* A query gives every row once.
LEMMA QueryOrder ==
  ASSUME NEW S, IsFiniteSet(S), NEW xs \in SetToSeqs(S)
  PROVE  /\ Len(xs) \in Nat /\ DOMAIN xs = 1 .. Len(xs)
         /\ \A k \in DOMAIN xs : xs[k] \in S
         /\ \A j, k \in DOMAIN xs : xs[j] = xs[k] => j = k
         /\ \A s \in S : \E k \in DOMAIN xs : xs[k] = s
  <1> DEFINE n == Cardinality(S)
  <1>1. n \in Nat
    BY FS_CardinalityType
  <1>2. xs \in [1 .. n -> S] /\ \A i, j \in 1 .. n : i # j => xs[i] # xs[j]
    BY DEF SetToSeqs
  <1>3. IsFiniteSet(1 .. n) /\ Cardinality(1 .. n) = n
    BY <1>1, FS_Interval
  <1>4. xs \in Injection(1 .. n, S)
    BY <1>2 DEF Injection, IsInjective
  <1>5. xs \in Surjection(1 .. n, S)
    BY <1>3, <1>4, FS_Injection
  <1>6. xs \in Seq(S) /\ Len(xs) = n
    BY <1>1, <1>2
  <1> QED BY <1>1, <1>2, <1>5, <1>6 DEF Surjection

\* The loops pair what fits, each x and each y once, and leave no x and y
\* unpaired that would fit.
LEMMA GreedyIsMaximal ==
  ASSUME NEW fits, NEW X, NEW Y, IsFiniteSet(X), IsFiniteSet(Y),
         NEW xs \in SetToSeqs(X), NEW ys \in SetToSeqs(Y), NEW took \in Greedy(fits, xs, ys)
  PROVE  /\ \A p \in Taken(xs, ys, took) : p = <<p[1], p[2]>> /\ p \in fits /\ p[1] \in X /\ p[2] \in Y
         /\ \A p, q \in Taken(xs, ys, took) : p[1] = q[1] => p = q
         /\ \A x \in X, y \in Y : <<x, y>> \in fits =>
              \E p \in Taken(xs, ys, took) : p[1] = x \/ p[2] = y
  <1> DEFINE Open(k) == {i \in DOMAIN ys : <<xs[k], ys[i]>> \in fits /\ \A j \in 1 .. k - 1 : took[j] # i}
  <1>1. /\ DOMAIN xs = 1 .. Len(xs) /\ Len(xs) \in Nat
        /\ \A k \in DOMAIN xs : xs[k] \in X
        /\ \A j, k \in DOMAIN xs : xs[j] = xs[k] => j = k
        /\ \A s \in X : \E k \in DOMAIN xs : xs[k] = s
    BY QueryOrder
  <1>2. /\ DOMAIN ys = 1 .. Len(ys) /\ Len(ys) \in Nat
        /\ \A k \in DOMAIN ys : ys[k] \in Y
        /\ \A s \in Y : \E k \in DOMAIN ys : ys[k] = s
    BY QueryOrder
  <1>3. /\ took \in [DOMAIN xs -> 0 .. Len(ys)]
        /\ \A k \in DOMAIN xs : IF Open(k) = {} THEN took[k] = 0 ELSE took[k] \in Open(k)
    BY DEF Greedy
  <1>4. \A k \in DOMAIN xs : took[k] # 0 => took[k] \in DOMAIN ys /\ <<xs[k], ys[took[k]]>> \in fits
    BY <1>3
  <1>5. \A p \in Taken(xs, ys, took) : \E k \in DOMAIN xs : took[k] # 0 /\ p = <<xs[k], ys[took[k]]>>
    BY DEF Taken
  <1>6. \A p \in Taken(xs, ys, took) : p = <<p[1], p[2]>> /\ p \in fits /\ p[1] \in X /\ p[2] \in Y
    <2> SUFFICES ASSUME NEW p \in Taken(xs, ys, took)
                 PROVE  p = <<p[1], p[2]>> /\ p \in fits /\ p[1] \in X /\ p[2] \in Y
      OBVIOUS
    <2>1. PICK k \in DOMAIN xs : took[k] # 0 /\ p = <<xs[k], ys[took[k]]>>
      BY <1>5
    <2>2. took[k] \in DOMAIN ys /\ <<xs[k], ys[took[k]]>> \in fits
      BY <1>4, <2>1
    <2>3. p[1] = xs[k] /\ p[2] = ys[took[k]]
      BY <2>1
    <2> QED BY <1>1, <1>2, <2>1, <2>2, <2>3
  <1>7. \A p, q \in Taken(xs, ys, took) : p[1] = q[1] => p = q
    BY <1>1, <1>5
  <1>8. ASSUME NEW x \in X, NEW y \in Y, <<x, y>> \in fits
        PROVE  \E p \in Taken(xs, ys, took) : p[1] = x \/ p[2] = y
    <2>1. PICK k \in DOMAIN xs : xs[k] = x
      BY <1>1
    <2>2. PICK i \in DOMAIN ys : ys[i] = y
      BY <1>2
    <2>3. CASE took[k] # 0
      <3>1. <<xs[k], ys[took[k]]>> \in Taken(xs, ys, took)
        BY <2>3 DEF Taken
      <3> QED BY <2>1, <3>1
    <2>4. CASE took[k] = 0
      <3>1. Open(k) = {}
        <4>1. Open(k) \subseteq DOMAIN ys /\ 0 \notin DOMAIN ys
          BY <1>2
        <4> QED BY <1>3, <2>4, <4>1
      <3>2. PICK j \in 1 .. k - 1 : took[j] = i
        BY <1>8, <2>1, <2>2, <3>1
      <3>3. j \in DOMAIN xs /\ took[j] # 0
        BY <1>1, <1>2, <3>2
      <3>4. <<xs[j], ys[took[j]]>> \in Taken(xs, ys, took)
        BY <3>3 DEF Taken
      <3> QED BY <2>2, <3>2, <3>4
    <2> QED BY <2>3, <2>4
  <1> QED BY <1>6, <1>7, <1>8

-----------------------------------------------------------------------------
(* The invariant *)

RowValue == [partner : Txn \cup {None}, status : Status, live : BOOLEAN]

Held(q) == /\ q = [op |-> q.op, put |-> q.put, partner |-> q.partner]
           /\ q.op \in {"auto", "reconcile", "write"}
           /\ DOMAIN q.put \subseteq Row
           /\ q.partner \in Txn \cup {None}
           /\ q.partner # None => q.op = "write"

MatchingTypeOK ==
  /\ row \in [Row -> RowValue]
  /\ req = [r \in Request |-> req[r]]
  /\ \A r \in Request : req[r] = Idle \/ Held(req[r])
  /\ alone \in BOOLEAN

\* Row x as request r will leave it.
After(r, x) == IF x \in DOMAIN req[r].put THEN Overwritten(req[r].put[x], row[x]) ELSE row[x]
RowsStay == \A r \in Request, x \in Row : req[r] # Idle => After(r, x) \in RowValue

\* What requests have decided fits as well.
Fits(t, p) == p = None \/ Opposite(t, p)
PutsFit ==
  \A r \in Request : req[r] # Idle => \A t \in Txn \cap DOMAIN req[r].put :
    "partner" \in DOMAIN req[r].put[t] => Fits(t, req[r].put[t].partner)

\* Of a row x with the values v.
Agrees(x, v) == /\ (v.partner = None) <=> (v.status = "unmatched")
                /\ x \in Txn /\ ~ v.live => v.partner = None

\* What a run of the matching leaves.
FreeIn(val) == {t \in Txn : val[t].live /\ val[t].status = "unmatched"}
RunDone(op, val) ==
  /\ op = "auto" => Transfers \cap (FreeIn(val) \X FreeIn(val)) = {}
  /\ op = "reconcile" => \A i \in Invoice, t \in FreeIn(val) :
       val[i].status = "unmatched" /\ <<i, t>> \in Payments => \E j \in Invoice : val[j].partner = t

\* Without overlap nobody else is at work, and the rows will be in order.
AloneInOrder ==
  \A r \in Request : req[r] # Idle =>
    /\ \A q \in Request : q # r => req[q] = Idle
    /\ \A x \in Row : Agrees(x, After(r, x))
    /\ RunDone(req[r].op, [x \in Row |-> After(r, x)])

MatchingInv == /\ MatchingTypeOK /\ RowsStay /\ PutsFit /\ PairsFit
               /\ LinksAgree /\ (alone => AloneInOrder)

-----------------------------------------------------------------------------
(* Opposite is symmetric, and no row is opposite to itself. *)

LEMMA OppositeBack == \A a, b \in Txn : Opposite(a, b) => Opposite(b, a) /\ a # b
  BY DEF Opposite

\* A request that has read rows writes them as it decided.
LEMMA OverwrittenChanged ==
  ASSUME NEW x, NEW new \in RowValue, row[x] \in RowValue
  PROVE  /\ Overwritten(Changed(x, new), row[x]) = new
         /\ "partner" \in DOMAIN Changed(x, new) => Changed(x, new).partner = new.partner
  BY DEF Overwritten, Changed, RowValue

\* Every operation begins alike: MatchingInv holds again if it holds of the
\* values the rows are given.
LEMMA BeginKeeps ==
  ASSUME MatchingInv, NEW r \in Request, NEW op \in {"auto", "reconcile", "write"},
         NEW new, NEW partner \in Txn \cup {None}, partner # None => op = "write", BeginWith(r, op, new, partner),
         DOMAIN new \subseteq Row, \A x \in DOMAIN new : new[x] \in RowValue,
         \A t \in Txn \cap DOMAIN new : Fits(t, new[t].partner),
         alone => /\ \A x \in DOMAIN new : Agrees(x, new[x])
                  /\ RunDone(op, [x \in Row |-> IF x \in DOMAIN new THEN new[x] ELSE row[x]])
  PROVE  MatchingInv'
  <1> DEFINE q == [op |-> op, put |-> [x \in DOMAIN new |-> Changed(x, new[x])], partner |-> partner]
             val == [x \in Row |-> IF x \in DOMAIN new THEN new[x] ELSE row[x]]
  <1>0. row \in [Row -> RowValue] /\ req = [k \in Request |-> req[k]]
    BY DEF MatchingInv, MatchingTypeOK
  <1>1. /\ req[r] = Idle /\ req'[r] = q /\ row' = row
        /\ \A k \in Request \ {r} : req'[k] = req[k]
        /\ req' = [k \in Request |-> req'[k]]
        /\ alone' = (alone /\ \A k \in Request : req[k] = Idle)
    BY <1>0 DEF BeginWith
  <1>2. q # Idle /\ DOMAIN q.put = DOMAIN new /\ \A x \in DOMAIN new : q.put[x] = Changed(x, new[x])
    BY DEF Idle
  <1>3. \A x \in Row : After(r, x)' = val[x]
    BY <1>0, <1>1, <1>2, OverwrittenChanged DEF After
  <1>4. \A k \in Request \ {r}, x \in Row : After(k, x)' = After(k, x)
    BY <1>1 DEF After
  <1>5. MatchingTypeOK'
    <2>1. Held(q)
      BY <1>2 DEF Held
    <2> QED BY <1>1, <2>1 DEF MatchingInv, MatchingTypeOK, Held
  <1>6. RowsStay'
    <2>1. \A x \in Row : val[x] \in RowValue
      BY <1>0
    <2> QED BY <1>1, <1>3, <1>4, <2>1 DEF MatchingInv, RowsStay
  <1>7. PutsFit'
    <2>1. \A t \in Txn \cap DOMAIN new : "partner" \in DOMAIN q.put[t] => Fits(t, q.put[t].partner)
      BY <1>0, <1>2, OverwrittenChanged DEF Row
    <2> HIDE DEF q
    <2> QED BY <1>1, <1>2, <2>1 DEF MatchingInv, PutsFit, Fits, Opposite
  <1>8. PairsFit'
    BY <1>1 DEF MatchingInv, PairsFit, Opposite
  <1>9. LinksAgree'
    BY <1>1 DEF MatchingInv, LinksAgree
  <1>10. ASSUME alone' PROVE AloneInOrder'
    <2>1. alone /\ \A k \in Request : k # r => req'[k] = Idle
      BY <1>1, <1>10
    <2>2. \A x \in Row : Agrees(x, val[x])
      BY <2>1 DEF MatchingInv, LinksAgree, Agrees
    <2>3. RunDone(op, val)
      BY <2>1
    <2>4. req'[r].op = op
      BY <1>1
    <2> HIDE DEF val, q
    <2>5. \A x \in Row : Agrees(x, After(r, x))'
      BY <1>3, <2>2 DEF Agrees
    <2> DEFINE after == [x \in Row |-> After(r, x)]
    <2>6. after' = val
      BY <1>3 DEF val
    <2> HIDE DEF after
    <2>7. RunDone(req[r].op, after)'
      BY <2>3, <2>4, <2>6 DEF RunDone, FreeIn
    <2> USE DEF after
    <2> QED BY <2>1, <2>5, <2>7 DEF AloneInOrder
  <1> QED BY <1>5, <1>6, <1>7, <1>8, <1>9, <1>10 DEF MatchingInv

LEMMA MatchingInit == Init => MatchingInv
  <1> SUFFICES ASSUME Init PROVE MatchingInv
    OBVIOUS
  <1>1. \A x \in Row : row[x] = Fresh
    BY DEF Init
  <1>2. MatchingTypeOK
    BY DEF Init, MatchingTypeOK, RowValue, Fresh, Status
  <1>3. PairsFit /\ LinksAgree
    BY <1>1 DEF PairsFit, LinksAgree, Fresh, Row
  <1> QED BY <1>2, <1>3 DEF Init, MatchingInv, RowsStay, PutsFit, AloneInOrder

LEMMA CommitKeeps ==
  ASSUME MatchingInv, NEW r \in Request, Commit(r)
  PROVE  MatchingInv'
  <1>0. row \in [Row -> RowValue] /\ req = [k \in Request |-> req[k]]
    BY DEF MatchingInv, MatchingTypeOK
  <1>1. /\ req[r] # Idle /\ req'[r] = Idle
        /\ \A k \in Request \ {r} : req'[k] = req[k]
        /\ req' = [k \in Request |-> req'[k]]
        /\ row' = [x \in Row |-> After(r, x)] /\ alone' = alone
    BY <1>0 DEF Commit, Flush, After
  <1>2. row' \in [Row -> RowValue]
    BY <1>1 DEF MatchingInv, RowsStay
  <1>3. MatchingTypeOK'
    BY <1>1, <1>2 DEF MatchingInv, MatchingTypeOK, Held
  <1>4. \A k \in Request \ {r}, x \in Row : req[k] # Idle => After(k, x)' \in RowValue
    <2> SUFFICES ASSUME NEW k \in Request \ {r}, NEW x \in Row, req[k] # Idle
                 PROVE  After(k, x)' \in RowValue
      OBVIOUS
    <2>1. After(k, x) \in RowValue /\ row[x] \in RowValue /\ row'[x] \in RowValue
      BY <1>0, <1>2 DEF MatchingInv, RowsStay
    <2>2. DOMAIN row[x] = {"partner", "status", "live"} /\ DOMAIN row'[x] = {"partner", "status", "live"}
      BY <2>1 DEF RowValue
    <2>3. CASE x \in DOMAIN req[k].put
      <3> DEFINE cols == req[k].put[x]
      <3>1. \A c \in {"partner", "status", "live"} \cap DOMAIN cols : cols[c] = After(k, x)[c]
        BY <2>2, <2>3 DEF After, Overwritten
      <3>2. After(k, x)' = [c \in {"partner", "status", "live"} |-> IF c \in DOMAIN cols THEN cols[c] ELSE row'[x][c]]
        BY <1>1, <2>2, <2>3 DEF After, Overwritten
      <3> HIDE DEF cols
      <3> QED BY <2>1, <3>1, <3>2 DEF RowValue
    <2>4. CASE x \notin DOMAIN req[k].put
      BY <1>1, <2>1, <2>4 DEF After
    <2> QED BY <2>3, <2>4
  <1>5. RowsStay'
    BY <1>1, <1>4 DEF RowsStay
  <1>6. PutsFit'
    BY <1>1 DEF MatchingInv, PutsFit, Fits, Opposite
  <1>7. PairsFit'
    <2> SUFFICES ASSUME NEW t \in Txn PROVE Fits(t, row'[t].partner)
      BY DEF PairsFit, Fits, Opposite
    <2>1. row[t] \in RowValue /\ Fits(t, row[t].partner) /\ row'[t] = After(r, t)
      BY <1>0, <1>1 DEF MatchingInv, PairsFit, Fits, Row
    <2>2. \/ row'[t] = row[t]
          \/ t \in DOMAIN req[r].put /\ row'[t].partner = (IF "partner" \in DOMAIN req[r].put[t] THEN req[r].put[t].partner ELSE row[t].partner)
      BY <2>1 DEF After, Overwritten, RowValue
    <2> QED BY <1>1, <2>1, <2>2 DEF MatchingInv, PutsFit
  <1>8. ASSUME alone' PROVE LinksAgree' /\ AloneInOrder'
    <2>1. AloneInOrder
      BY <1>1, <1>8 DEF MatchingInv
    <2>2. \A x \in Row : Agrees(x, row'[x])
      BY <1>1, <2>1 DEF AloneInOrder
    <2>3. LinksAgree'
      BY <2>2 DEF LinksAgree, Agrees, Row
    <2>4. \A k \in Request : req'[k] = Idle
      BY <1>1, <2>1 DEF AloneInOrder
    <2> QED BY <2>3, <2>4 DEF AloneInOrder
  <1>9. LinksAgree'
    BY <1>8 DEF LinksAgree
  <1> QED BY <1>3, <1>5, <1>6, <1>7, <1>8, <1>9 DEF MatchingInv

\* The partner that is looked up is unlinked, if it has not been read before.
LEMMA ReadPartnerKeeps ==
  ASSUME MatchingInv, NEW r \in Request, ReadPartner(r)
  PROVE  MatchingInv'
  <1> DEFINE p == req[r].partner
             new == Also(req[r].put, p, Unlinked(p))
  <1>0. row \in [Row -> RowValue] /\ req = [k \in Request |-> req[k]] /\ req[r] # Idle /\ Held(req[r])
    BY DEF MatchingInv, MatchingTypeOK, ReadPartner
  <1>1. p \in Txn /\ p \in Row /\ row[p] \in RowValue
    BY <1>0 DEF ReadPartner, Held, Row
  <1>2. /\ req'[r] = [op |-> req[r].op, put |-> new, partner |-> None]
        /\ \A k \in Request \ {r} : req'[k] = req[k]
        /\ req' = [k \in Request |-> req'[k]]
        /\ row' = row /\ alone' = alone
    BY <1>0 DEF ReadPartner, Held
  <1>3. Unlinked(p) \in RowValue /\ Unlinked(p).partner = None /\ Unlinked(p).status = "unmatched"
    BY <1>1 DEF Unlinked, Linked, RowValue, Status
  <1>4. /\ DOMAIN new = DOMAIN req[r].put \cup {p}
        /\ \A x \in DOMAIN new : new[x] = IF x \in DOMAIN req[r].put THEN req[r].put[x] ELSE Changed(p, Unlinked(p))
    BY DEF Also
  <1> HIDE DEF new
  <1>5. req'[r] # Idle /\ Held(req'[r]) /\ req'[r].op = "write"
    BY <1>0, <1>1, <1>2, <1>4 DEF Held, Idle, ReadPartner
  <1>6. \A x \in Row : After(r, x)' = IF x = p /\ p \notin DOMAIN req[r].put THEN Unlinked(p) ELSE After(r, x)
    BY <1>0, <1>1, <1>2, <1>3, <1>4, OverwrittenChanged DEF After
  <1>7. \A k \in Request \ {r}, x \in Row : After(k, x)' = After(k, x)
    BY <1>2 DEF After
  <1>8. MatchingTypeOK'
    BY <1>2, <1>5 DEF MatchingInv, MatchingTypeOK, Held
  <1>9. RowsStay'
    BY <1>0, <1>2, <1>3, <1>6, <1>7 DEF MatchingInv, RowsStay
  <1>10. PutsFit'
    <2>1. \A t \in Txn \cap DOMAIN new : "partner" \in DOMAIN new[t] => Fits(t, new[t].partner)
      BY <1>0, <1>1, <1>3, <1>4, OverwrittenChanged DEF MatchingInv, PutsFit, Fits
    <2> QED BY <1>2, <2>1 DEF MatchingInv, PutsFit, Fits, Opposite
  <1>11. PairsFit' /\ LinksAgree'
    BY <1>2 DEF MatchingInv, PairsFit, LinksAgree, Opposite
  <1>12. ASSUME alone' PROVE AloneInOrder'
    <2>1. AloneInOrder /\ \A k \in Request : k # r => req'[k] = Idle
      BY <1>0, <1>2, <1>12 DEF MatchingInv, AloneInOrder
    <2>2. \A x \in Row : Agrees(x, After(r, x))'
      BY <1>0, <1>1, <1>3, <1>6, <2>1 DEF AloneInOrder, Agrees
    <2> QED BY <1>2, <1>5, <2>1, <2>2 DEF AloneInOrder, RunDone
  <1> QED BY <1>8, <1>9, <1>10, <1>11, <1>12 DEF MatchingInv

-----------------------------------------------------------------------------
(* The operations *)

\* What a row may be made.
LEMMA LinkedRow ==
  ASSUME MatchingInv, NEW x \in Row, NEW y \in Txn \cup {None}, NEW s \in Status
  PROVE  /\ row[x] \in RowValue
         /\ Linked(x, y, s) \in RowValue /\ Linked(x, y, s).partner = y
         /\ Linked(x, y, s).status = s /\ Linked(x, y, s).live = row[x].live
  BY DEF MatchingInv, MatchingTypeOK, RowValue, Linked

LEMMA RowsFit ==
  ASSUME MatchingInv
  PROVE  /\ \A x \in Row : row[x] \in RowValue
         /\ \A t \in Txn : Fits(t, row[t].partner)
         /\ alone => \A x \in Row : Agrees(x, row[x])
  BY DEF MatchingInv, MatchingTypeOK, PairsFit, Fits, LinksAgree, Agrees, Row

LEMMA AutoKeeps ==
  ASSUME MatchingInv, NEW r \in Request, RunMatching(r)
  PROVE  MatchingInv'
  <1> DEFINE W == {t \in Free : Info[t].kind = "withdrawal"}
             D == {t \in Free : Info[t].kind = "deposit"}
  <1> DEFINE Run(ws, ds, took) ==
               LET pairs == Taken(ws, ds, took)
                   both  == pairs \cup {<<p[2], p[1]>> : p \in pairs}
                   To(t) == (CHOOSE p \in both : p[1] = t)[2]
               IN Begin(r, "auto", [t \in {p[1] : p \in both} |-> Linked(t, To(t), "matched")])
  <1>0. PICK ws \in SetToSeqs(W), ds \in SetToSeqs(D) : \E took \in Greedy(Transfers, ws, ds) : Run(ws, ds, took)
    BY DEF RunMatching
  <1>1. PICK took \in Greedy(Transfers, ws, ds) : Run(ws, ds, took)
    BY <1>0
  <1> DEFINE pairs == Taken(ws, ds, took)
             both  == pairs \cup {<<p[2], p[1]>> : p \in pairs}
             To(t) == (CHOOSE p \in both : p[1] = t)[2]
             new == [t \in {p[1] : p \in both} |-> Linked(t, To(t), "matched")]
             val == [x \in Row |-> IF x \in DOMAIN new THEN new[x] ELSE row[x]]
  <1>2. IsFiniteSet(W) /\ IsFiniteSet(D) /\ W \subseteq Txn /\ D \subseteq Txn
    <2>1. W \subseteq Txn /\ D \subseteq Txn /\ Txn \subseteq Row
      BY DEF Free, Row
    <2> QED BY <2>1, MatchingAssumption, FS_Subset
  <1>3. /\ \A p \in pairs : p = <<p[1], p[2]>> /\ p \in Transfers /\ p[1] \in W /\ p[2] \in D
        /\ \A x \in W, y \in D : <<x, y>> \in Transfers => \E p \in pairs : p[1] = x \/ p[2] = y
    <2> HIDE DEF W, D, Run
    <2>1. /\ \A p \in Taken(ws, ds, took) : p = <<p[1], p[2]>> /\ p \in Transfers /\ p[1] \in W /\ p[2] \in D
          /\ \A x \in W, y \in D : <<x, y>> \in Transfers => \E p \in Taken(ws, ds, took) : p[1] = x \/ p[2] = y
      <3>1. took \in Greedy(Transfers, ws, ds)
        OBVIOUS
      <3>2. ws \in SetToSeqs(W) /\ ds \in SetToSeqs(D) /\ IsFiniteSet(W) /\ IsFiniteSet(D)
        BY <1>2
      <3> QED BY ONLY <3>1, <3>2, GreedyIsMaximal
    <2> QED BY <2>1
  <1>4. \A p \in pairs : Opposite(p[1], p[2]) /\ Opposite(p[2], p[1])
    BY <1>2, <1>3, OppositeBack DEF Transfers
  <1>5. \A p \in both : p[1] \in Free /\ p[2] \in Free /\ Opposite(p[1], p[2])
    <2> HIDE DEF pairs
    <2>1. \A p \in {<<q[2], q[1]>> : q \in pairs} : p[1] \in Free /\ p[2] \in Free /\ Opposite(p[1], p[2])
      BY <1>3, <1>4
    <2> QED BY <1>3, <1>4, <2>1
  <1>6. \A t \in DOMAIN new : /\ t \in Free /\ To(t) \in Free /\ Opposite(t, To(t))
                              /\ new[t] = Linked(t, To(t), "matched")
    <2> SUFFICES ASSUME NEW t \in DOMAIN new
                 PROVE  t \in Free /\ To(t) \in Free /\ Opposite(t, To(t)) /\ new[t] = Linked(t, To(t), "matched")
      OBVIOUS
    <2> HIDE DEF both
    <2>1. PICK p \in both : p[1] = t
      OBVIOUS
    <2>2. (CHOOSE q \in both : q[1] = t) \in both /\ (CHOOSE q \in both : q[1] = t)[1] = t
      BY <2>1
    <2> QED BY <1>5, <2>2
  <1>7. \A t \in Free : t \in Txn /\ t \in Row /\ row[t].live
    BY DEF Free, Row
  <1>8. Begin(r, "auto", new)
    BY <1>1
  <1>9. \A t \in DOMAIN new : new[t] \in RowValue /\ new[t].partner = To(t) /\ new[t].status = "matched" /\ new[t].live
    <2> HIDE DEF new, To
    <2> QED BY <1>6, <1>7, LinkedRow DEF Status
  <1>10. \A x \in W \cup D : x \in FreeIn(val) => x \notin DOMAIN new
    <2> HIDE DEF new, W, D
    <2> QED BY <1>2, <1>9 DEF FreeIn, Row
  <1>11. RunDone("auto", val)
    <2> SUFFICES ASSUME NEW w \in FreeIn(val), NEW d \in FreeIn(val), <<w, d>> \in Transfers
                 PROVE  FALSE
      <3> HIDE DEF val
      <3> QED BY DEF RunDone
    <2>1. /\ w \in Txn /\ d \in Txn /\ w \in Row /\ d \in Row
          /\ Info[w].kind = "withdrawal" /\ Info[d].kind = "deposit"
      BY MatchingAssumption DEF Transfers, Opposite, Kind, FreeIn, Row
    <2>2. w \notin DOMAIN new /\ d \notin DOMAIN new
      <3> HIDE DEF new
      <3> QED BY <1>9, <2>1 DEF FreeIn
    <2>3. val[w] = row[w] /\ val[d] = row[d]
      BY <2>1, <2>2
    <2>4. w \in W /\ d \in D
      <3> HIDE DEF val
      <3> QED BY <2>1, <2>3 DEF FreeIn, Free
    <2>5. PICK p \in pairs : p[1] = w \/ p[2] = d
      BY <1>3, <2>4
    <2>6. p[1] \in DOMAIN new /\ p[2] \in DOMAIN new
      <3>1. p \in both /\ <<p[2], p[1]>> \in both
        OBVIOUS
      <3>2. DOMAIN new = {q[1] : q \in both}
        OBVIOUS
      <3> HIDE DEF both, new
      <3> QED BY <3>1, <3>2
    <2> QED BY <2>2, <2>5, <2>6
  <1> HIDE DEF new, To, both, pairs, W, D
  <1>12. /\ DOMAIN new \subseteq Row
         /\ \A x \in DOMAIN new : new[x] \in RowValue
         /\ \A t \in Txn \cap DOMAIN new : Fits(t, new[t].partner)
    BY <1>6, <1>7, <1>9 DEF Fits
  <1>13. \A x \in DOMAIN new : Agrees(x, new[x])
    BY <1>6, <1>7, <1>9, MatchingAssumption DEF Agrees, Row
  <1> QED BY <1>8, <1>11, <1>12, <1>13, BeginKeeps DEF Begin

LEMMA ReconcileKeeps ==
  ASSUME MatchingInv, NEW r \in Request, Reconcile(r)
  PROVE  MatchingInv'
  <1> DEFINE U == {i \in Invoice : row[i].status = "unmatched"}
             Run(is, ts, took) ==
               LET pairs == Taken(is, ts, took)
                   To(i) == (CHOOSE p \in pairs : p[1] = i)[2]
               IN Begin(r, "reconcile", [i \in {p[1] : p \in pairs} |-> Linked(i, To(i), "matched")])
  <1>0. PICK is \in SetToSeqs(U), ts \in SetToSeqs(Free) : \E took \in Greedy(Payments, is, ts) : Run(is, ts, took)
    BY DEF Reconcile
  <1>1. PICK took \in Greedy(Payments, is, ts) : Run(is, ts, took)
    BY <1>0
  <1> DEFINE pairs == Taken(is, ts, took)
             To(i) == (CHOOSE p \in pairs : p[1] = i)[2]
             new == [i \in {p[1] : p \in pairs} |-> Linked(i, To(i), "matched")]
             val == [x \in Row |-> IF x \in DOMAIN new THEN new[x] ELSE row[x]]
  <1>2. /\ IsFiniteSet(U) /\ IsFiniteSet(Free) /\ U \subseteq Invoice /\ Free \subseteq Txn
        /\ U \subseteq Row /\ Free \subseteq Row /\ U \cap Txn = {}
    <2>1. U \subseteq Invoice /\ Free \subseteq Txn
      BY DEF Free
    <2>2. U \subseteq Row /\ Free \subseteq Row
      BY <2>1 DEF Row
    <2> QED BY <2>1, <2>2, MatchingAssumption, FS_Subset
  <1>3. /\ \A p \in pairs : p = <<p[1], p[2]>> /\ p \in Payments /\ p[1] \in U /\ p[2] \in Free
        /\ \A p, q \in pairs : p[1] = q[1] => p = q
        /\ \A x \in U, y \in Free : <<x, y>> \in Payments => \E p \in pairs : p[1] = x \/ p[2] = y
    <2> HIDE DEF U, Run
    <2>1. took \in Greedy(Payments, is, ts)
      OBVIOUS
    <2>2. is \in SetToSeqs(U) /\ ts \in SetToSeqs(Free) /\ IsFiniteSet(U) /\ IsFiniteSet(Free)
      BY <1>2
    <2> QED BY ONLY <2>1, <2>2, GreedyIsMaximal
  <1>4. \A p \in pairs : p[1] \in DOMAIN new /\ To(p[1]) = p[2]
    <2> HIDE DEF pairs
    <2> SUFFICES ASSUME NEW p \in pairs PROVE p[1] \in DOMAIN new /\ To(p[1]) = p[2]
      OBVIOUS
    <2>1. (CHOOSE q \in pairs : q[1] = p[1]) \in pairs /\ (CHOOSE q \in pairs : q[1] = p[1])[1] = p[1]
      OBVIOUS
    <2> QED BY <1>3, <2>1
  <1>5. \A i \in DOMAIN new : i \in U /\ To(i) \in Free /\ new[i] = Linked(i, To(i), "matched")
    <2> SUFFICES ASSUME NEW i \in DOMAIN new
                 PROVE  i \in U /\ To(i) \in Free /\ new[i] = Linked(i, To(i), "matched")
      OBVIOUS
    <2> HIDE DEF pairs
    <2>1. PICK p \in pairs : p[1] = i
      OBVIOUS
    <2>2. (CHOOSE q \in pairs : q[1] = i) \in pairs /\ (CHOOSE q \in pairs : q[1] = i)[1] = i
      BY <2>1
    <2> QED BY <1>3, <2>2
  <1>6. Begin(r, "reconcile", new)
    BY <1>1
  <1>7. \A i \in DOMAIN new : new[i] \in RowValue /\ new[i].partner = To(i) /\ new[i].status = "matched"
    <2> HIDE DEF new, To
    <2> QED BY <1>2, <1>5, LinkedRow DEF Status
  <1>8. RunDone("reconcile", val)
    <2> SUFFICES ASSUME NEW i \in Invoice, NEW t \in FreeIn(val), val[i].status = "unmatched", <<i, t>> \in Payments
                 PROVE  \E j \in Invoice : val[j].partner = t
      <3> HIDE DEF val
      <3> QED BY DEF RunDone
    <2>1. i \in Row /\ t \in Row /\ t \in Txn
      BY DEF Row, FreeIn
    <2> HIDE DEF new, To, pairs, U
    <2>2. i \notin DOMAIN new /\ t \notin DOMAIN new
      BY <1>2, <1>5, <1>7, <2>1
    <2>3. val[i] = row[i] /\ val[t] = row[t]
      BY <2>1, <2>2
    <2>4. i \in U /\ t \in Free
      <3> HIDE DEF val
      <3> QED BY <2>1, <2>3 DEF FreeIn, Free, U
    <2>5. PICK p \in pairs : p[1] = i \/ p[2] = t
      BY <1>3, <2>4
    <2>6. p[2] = t /\ p[1] \in DOMAIN new /\ To(p[1]) = t
      BY <1>4, <2>2, <2>5
    <2>7. p[1] \in Invoice /\ p[1] \in Row
      BY <1>2, <1>3
    <2> QED BY <1>7, <2>6, <2>7
  <1> HIDE DEF new, To, pairs, U
  <1>9. /\ DOMAIN new \subseteq Row
        /\ \A x \in DOMAIN new : new[x] \in RowValue
        /\ \A t \in Txn \cap DOMAIN new : Fits(t, new[t].partner)
    BY <1>2, <1>5, <1>7
  <1>10. \A x \in DOMAIN new : Agrees(x, new[x])
    BY <1>2, <1>5, <1>7, MatchingAssumption DEF Agrees, Row
  <1> QED BY <1>6, <1>8, <1>9, <1>10, BeginKeeps DEF Begin

\* The operations on one or two rows.
LEMMA WriteKeeps ==
  ASSUME MatchingInv, NEW r \in Request, NEW t \in Txn,
         \/ \E i \in Invoice : LinkInvoice(r, i, t)
         \/ \E b \in Txn : ManualMatch(r, t, b)
         \/ BeginRemove(r, t) \/ BeginDelete(r, t) \/ Restore(r, t)
  PROVE  MatchingInv'
  <1>0. /\ t \in Row /\ t \notin Invoice /\ None \notin Txn
        /\ \A i \in Invoice : i \in Row /\ i \notin Txn
        /\ \A b \in Txn : b \in Row
        /\ {"unmatched", "matched", "manual"} = Status
    BY MatchingAssumption DEF Row, Status
  <1>1. ASSUME NEW i \in Invoice, LinkInvoice(r, i, t) PROVE MatchingInv'
    <2> DEFINE new == [x \in {i} |-> Linked(x, t, "manual")]
    <2>1. /\ Linked(i, t, "manual") \in RowValue /\ Linked(i, t, "manual").partner = t
          /\ Linked(i, t, "manual").status = "manual"
      BY <1>0, LinkedRow
    <2>2. DOMAIN new = {i} /\ new[i] = Linked(i, t, "manual") /\ BeginWith(r, "write", new, None)
      BY <1>1 DEF LinkInvoice, Begin
    <2> HIDE DEF new
    <2>3. \A x \in DOMAIN new : new[x] \in RowValue /\ Agrees(x, new[x])
      BY <1>0, <2>1, <2>2 DEF Agrees
    <2> QED BY <1>0, <2>2, <2>3, BeginKeeps DEF RunDone
  <1>2. ASSUME NEW b \in Txn, ManualMatch(r, t, b) PROVE MatchingInv'
    <2> DEFINE new == [x \in {t, b} |-> Linked(x, IF x = t THEN b ELSE t, "manual")]
    <2>1. /\ t # b /\ row[t].live /\ row[b].live /\ Opposite(t, b) /\ Opposite(b, t)
          /\ BeginWith(r, "write", new, None)
      BY <1>2, OppositeBack DEF ManualMatch, Begin
    <2>2. DOMAIN new = {t, b} /\ new[t] = Linked(t, b, "manual") /\ new[b] = Linked(b, t, "manual")
      BY <2>1
    <2> HIDE DEF new
    <2>3. \A x \in DOMAIN new : /\ new[x] \in RowValue /\ new[x].partner \in Txn
                                /\ new[x].status = "manual" /\ new[x].live
      BY <1>0, <2>1, <2>2, LinkedRow
    <2>4. \A x \in Txn \cap DOMAIN new : Fits(x, new[x].partner)
      BY <1>0, <2>1, <2>2, LinkedRow DEF Fits
    <2>5. \A x \in DOMAIN new : Agrees(x, new[x])
      BY <1>0, <2>3 DEF Agrees
    <2> QED BY <1>0, <2>1, <2>2, <2>3, <2>4, <2>5, BeginKeeps DEF RunDone
  <1> DEFINE Ready(v) == /\ v \in RowValue /\ Fits(t, v.partner)
                         /\ alone => Agrees(t, v)
  <1>3. ASSUME NEW v, Ready(v), NEW partner \in Txn \cup {None}, BeginWith(r, "write", [x \in {t} |-> v], partner)
        PROVE  MatchingInv'
    <2> DEFINE new == [x \in {t} |-> v]
    <2>1. DOMAIN new = {t} /\ new[t] = v
      OBVIOUS
    <2> HIDE DEF new
    <2>2. BeginWith(r, "write", new, partner)
      BY <1>3 DEF new
    <2> QED BY <1>0, <1>3, <2>1, <2>2, BeginKeeps DEF RunDone
  <1>4. Ready(row[t]) /\ row[t].partner \in Txn \cup {None}
    BY <1>0, RowsFit DEF RowValue
  <1>5. Unlinked(t).partner = None /\ Unlinked(t).live = row[t].live /\ Ready(Unlinked(t))
    BY <1>0, LinkedRow DEF Unlinked, Fits, Agrees
  <1>6. ASSUME BeginRemove(r, t) PROVE MatchingInv'
    <2>1. [x \in {t} |-> Unlinked(x)] = [x \in {t} |-> Unlinked(t)]
      OBVIOUS
    <2> QED BY <1>3, <1>4, <1>5, <1>6, <2>1 DEF BeginRemove
  <1>7. ASSUME BeginDelete(r, t) PROVE MatchingInv'
    <2> DEFINE old == IF row[t].partner = None THEN row[t] ELSE Unlinked(t)
               v == [old EXCEPT !.live = FALSE]
    <2>1. [x \in {t} |-> [(IF row[x].partner = None THEN row[x] ELSE Unlinked(x)) EXCEPT !.live = FALSE]]
            = [x \in {t} |-> v]
      OBVIOUS
    <2>2. Ready(old) /\ old.partner = None
      BY <1>4, <1>5
    <2> HIDE DEF old
    <2>3. v \in RowValue /\ v.partner = old.partner /\ v.status = old.status
      BY <2>2 DEF RowValue
    <2> HIDE DEF v
    <2>4. Ready(v)
      BY <2>2, <2>3 DEF Agrees
    <2> HIDE DEF Ready
    <2>5. BeginWith(r, "write", [x \in {t} |-> v], row[t].partner)
      BY <1>7, <2>1 DEF BeginDelete
    <2> QED BY <1>3, <1>4, <2>4, <2>5
  <1>8. ASSUME Restore(r, t) PROVE MatchingInv'
    <2> DEFINE v == [row[t] EXCEPT !.live = TRUE]
    <2>1. [x \in {t} |-> [row[x] EXCEPT !.live = TRUE]] = [x \in {t} |-> v]
      OBVIOUS
    <2>2. v \in RowValue /\ v.partner = row[t].partner /\ v.status = row[t].status /\ v.live
      BY <1>4 DEF RowValue
    <2>3. BeginWith(r, "write", [x \in {t} |-> v], None)
      BY <1>8, <2>1 DEF Restore, Begin
    <2> HIDE DEF v
    <2>4. Ready(v)
      BY <1>4, <2>2 DEF Agrees
    <2> HIDE DEF Ready
    <2> QED BY <1>3, <2>3, <2>4
  <1> QED BY <1>1, <1>2, <1>6, <1>7, <1>8

LEMMA MatchingNext == MatchingInv /\ [Next]_vars => MatchingInv'
  <1> SUFFICES ASSUME MatchingInv, [Next]_vars PROVE MatchingInv'
    OBVIOUS
  <1>1. CASE Next
    BY <1>1, AutoKeeps, ReconcileKeeps, WriteKeeps, ReadPartnerKeeps, CommitKeeps DEF Next
  <1>2. CASE UNCHANGED vars
    <2>1. \A r \in Request, x \in Row : After(r, x)' = After(r, x)
      BY <1>2 DEF vars, After
    <2>2. MatchingTypeOK' /\ RowsStay' /\ PutsFit' /\ PairsFit' /\ LinksAgree'
      BY <1>2, <2>1 DEF vars, MatchingInv, MatchingTypeOK, Held, RowsStay, PutsFit, PairsFit, Fits, Opposite, LinksAgree
    <2>3. ASSUME alone' PROVE AloneInOrder'
      <3> SUFFICES ASSUME NEW r \in Request, req[r] # Idle
                   PROVE  /\ \A q \in Request : q # r => req[q] = Idle
                          /\ \A x \in Row : Agrees(x, After(r, x))
                          /\ RunDone(req[r].op, [x \in Row |-> After(r, x)])'
        BY <1>2, <2>1 DEF vars, AloneInOrder, Agrees
      <3> DEFINE after == [x \in Row |-> After(r, x)]
      <3>1. after' = after /\ req' = req
        BY <1>2, <2>1 DEF vars
      <3>2. /\ \A q \in Request : q # r => req[q] = Idle
            /\ \A x \in Row : Agrees(x, After(r, x))
            /\ RunDone(req[r].op, after)
        BY <1>2, <2>3 DEF vars, MatchingInv, AloneInOrder
      <3> HIDE DEF after
      <3>3. RunDone(req[r].op, after)'
        BY <3>1, <3>2 DEF RunDone, FreeIn
      <3> USE DEF after
      <3> QED BY <3>2, <3>3
    <2> QED BY <2>2, <2>3 DEF MatchingInv
  <1> QED BY <1>1, <1>2

LEMMA MatchingHolds == Spec => []MatchingInv
  BY MatchingInit, MatchingNext, PTL DEF Spec

-----------------------------------------------------------------------------
(* The theorems *)

\* Only a commit ends a request.
LEMMA CommitEnds ==
  ASSUME MatchingInv, [Next]_vars, NEW r \in Request, req[r] # Idle, req'[r] = Idle
  PROVE  Commit(r)
  <1>0. req = [k \in Request |-> req[k]] /\ Held(req[r])
    BY DEF MatchingInv, MatchingTypeOK
  <1>1. ASSUME NEW q \in Request, NEW op, NEW new, NEW partner, BeginWith(q, op, new, partner)
        PROVE  FALSE
    BY <1>0, <1>1 DEF BeginWith
  <1>2. ASSUME NEW q \in Request, ReadPartner(q) PROVE FALSE
    BY <1>0, <1>2 DEF ReadPartner, Held, Idle
  <1>3. ASSUME NEW q \in Request, Commit(q) PROVE q = r
    BY <1>0, <1>3 DEF Commit
  <1>4. CASE UNCHANGED vars
    BY <1>4 DEF vars
  <1>5. ASSUME NEW q \in Request, RunMatching(q) PROVE FALSE
    BY <1>1, <1>5 DEF RunMatching, Begin
  <1>6. ASSUME NEW q \in Request, Reconcile(q) PROVE FALSE
    BY <1>1, <1>6 DEF Reconcile, Begin
  <1>7. ASSUME NEW q \in Request, NEW t \in Txn,
               \/ \E i \in Invoice : LinkInvoice(q, i, t)
               \/ \E b \in Txn : ManualMatch(q, t, b)
               \/ BeginRemove(q, t) \/ BeginDelete(q, t) \/ Restore(q, t)
        PROVE  FALSE
    BY <1>1, <1>7 DEF LinkInvoice, ManualMatch, BeginRemove, BeginDelete, Restore, Begin
  <1> QED BY <1>2, <1>3, <1>4, <1>5, <1>6, <1>7 DEF Next

LEMMA RunStep ==
  ASSUME MatchingInv, [Next]_vars, alone, NEW r \in Request, req'[r] = Idle
  PROVE  /\ req[r].op = "auto" => Transfers \cap (Free' \X Free') = {}
         /\ req[r].op = "reconcile" => \A i \in Invoice, t \in Free' :
              row'[i].status = "unmatched" /\ <<i, t>> \in Payments =>
                \E j \in Invoice : row'[j].partner = t
  <1>1. CASE req[r] = Idle
    BY <1>1 DEF Idle
  <1>2. CASE req[r] # Idle
    <2> DEFINE after == [x \in Row |-> After(r, x)]
    <2>1. Commit(r)
      BY <1>2, CommitEnds
    <2>2. row' = after
      BY <2>1 DEF Commit, Flush, After
    <2>3. RunDone(req[r].op, after)
      BY <1>2 DEF MatchingInv, AloneInOrder
    <2> HIDE DEF after
    <2>4. Free' = FreeIn(after)
      BY <2>2 DEF Free, FreeIn
    <2> QED BY <2>2, <2>3, <2>4 DEF RunDone
  <1> QED BY <1>1, <1>2

\* PairsFit: two matched transactions are of one amount, opposite kinds and
\* different accounts, for any number of transactions and requests, however
\* they overlap and overwrite each other's links (matching.py).
THEOREM PairsAlwaysFit == Spec => []PairsFit
  <1>1. MatchingInv => PairsFit
    BY DEF MatchingInv
  <1> QED BY <1>1, MatchingHolds, PTL

\* LinksAgree: as long as requests have not overlapped, partner and status of
\* every row agree and a deleted transaction is matched with nothing, also
\* after any chain of re-matches, removals and restores (matching.py,
\* transactions.py).
THEOREM LinksAlwaysAgree == Spec => []LinksAgree
  <1>1. MatchingInv => LinksAgree
    BY DEF MatchingInv
  <1> QED BY <1>1, MatchingHolds, PTL

\* RunIsComplete: as long as requests have not overlapped, an automatic run
\* leaves nothing unmatched that it could have matched, whatever the order in
\* which the database returns the rows (matching.py, reconcile.py).
THEOREM RunsAreComplete == Spec => RunIsComplete
  <1>1. MatchingInv /\ [Next]_vars =>
          [alone => \A r \in Request : req'[r] = Idle =>
             /\ req[r].op = "auto" => Transfers \cap (Free' \X Free') = {}
             /\ req[r].op = "reconcile" => \A i \in Invoice, t \in Free' :
                  row'[i].status = "unmatched" /\ <<i, t>> \in Payments =>
                    \E j \in Invoice : row'[j].partner = t]_vars
    BY RunStep
  <1> QED BY <1>1, MatchingHolds, PTL DEF Spec, RunIsComplete

-----------------------------------------------------------------------------
(* Categories and counterparts.  The least number of a set, for proofs by  *)
(* smallest counterexample.                                                *)

LEMMA LeastNat ==
  ASSUME NEW S \in SUBSET Nat, S # {}
  PROVE  \E k \in S : \A n \in S : k <= n
  <1> DEFINE R == OpToRel(<, Nat)
  <1>1. IsWellFoundedOn(R, Nat)
    BY Zenon, NatLessThanWellFounded
  <1>2. \A m, n \in Nat : <<m, n>> \in R <=> m < n
    BY DEF OpToRel
  <1> HIDE DEF R
  <1>3. PICK k \in S : \A n \in S : ~ (<<n, k>> \in R)
    BY <1>1, WFMin
  <1>4. \A n \in S : ~ (n < k)
    BY <1>2, <1>3
  <1> QED BY <1>3, <1>4

\* The walk from a category to its ancestors.
IsWalk(f, c, k) ==
  f = [n \in 0 .. k |-> IF n = 0 THEN c ELSE IF f[n - 1] = "none" THEN "none" ELSE cats[f[n - 1]].parent]

LEMMA UpIsAWalk ==
  ASSUME NEW c, NEW k \in Nat
  PROVE  Up(c, k) = (CHOOSE f : IsWalk(f, c, k))[k]
  BY DEF Up, IsWalk

LEMMA WalkExists ==
  ASSUME NEW c, NEW k \in Nat
  PROVE  \E f : IsWalk(f, c, k)
  <1> DEFINE S == {n \in Nat : ~ \E f : IsWalk(f, c, n)}
  <1>1. SUFFICES ASSUME S # {} PROVE FALSE
    BY <1>1
  <1>2. PICK n \in S : \A m \in S : n <= m
    BY <1>1, LeastNat
  <1>3. n # 0
    <2> DEFINE f == [m \in 0 .. 0 |-> c]
    <2>1. IsWalk(f, c, 0)
      BY DEF IsWalk
    <2> QED BY <2>1
  <1>4. PICK f : IsWalk(f, c, n - 1)
    BY <1>2, <1>3
  <1> DEFINE g == [m \in 0 .. n |-> IF m < n THEN f[m] ELSE IF f[n - 1] = "none" THEN "none" ELSE cats[f[n - 1]].parent]
  <1>5. IsWalk(g, c, n)
    <2>1. n - 1 \in Nat /\ \A m \in 0 .. n - 1 : f[m] = IF m = 0 THEN c ELSE IF f[m - 1] = "none" THEN "none" ELSE cats[f[m - 1]].parent
      BY <1>2, <1>3, <1>4 DEF IsWalk
    <2>2. \A m \in 0 .. n : g[m] = IF m < n THEN f[m] ELSE IF f[n - 1] = "none" THEN "none" ELSE cats[f[n - 1]].parent
      OBVIOUS
    <2>3. ASSUME NEW m \in 0 .. n
          PROVE  g[m] = IF m = 0 THEN c ELSE IF g[m - 1] = "none" THEN "none" ELSE cats[g[m - 1]].parent
      <3>1. CASE m = 0
        BY <1>3, <2>1, <2>2, <3>1
      <3>2. CASE m \in 1 .. n
        <4>1. m - 1 \in 0 .. n - 1 /\ m - 1 < n /\ m - 1 \in 0 .. n
          BY <3>2
        <4>2. g[m - 1] = f[m - 1]
          BY <2>2, <4>1
        <4> HIDE DEF g
        <4> QED BY <2>1, <2>2, <3>2, <4>1, <4>2
      <3> QED BY <2>3, <3>1, <3>2
    <2>4. g = [m \in 0 .. n |-> g[m]]
      OBVIOUS
    <2> HIDE DEF g
    <2> QED BY <2>3, <2>4 DEF IsWalk
  <1> QED BY <1>2, <1>5

LEMMA WalksAgree ==
  ASSUME NEW c, NEW j \in Nat, NEW k \in Nat, NEW f, NEW g, IsWalk(f, c, j), IsWalk(g, c, k),
         NEW n \in Nat, n <= j, n <= k
  PROVE  f[n] = g[n]
  <1> DEFINE S == {m \in Nat : m <= j /\ m <= k /\ f[m] # g[m]}
  <1>1. SUFFICES ASSUME S # {} PROVE FALSE
    BY <1>1
  <1>2. PICK m \in S : \A l \in S : m <= l
    BY <1>1, LeastNat
  <1>3. m # 0
    BY DEF IsWalk
  <1>4. f[m - 1] = g[m - 1]
    BY <1>2, <1>3
  <1> QED BY <1>2, <1>3, <1>4 DEF IsWalk

\* The first ancestor of c is c, the next one its parent.
LEMMA UpSteps ==
  ASSUME NEW c, NEW k \in Nat
  PROVE  /\ Up(c, 0) = c
         /\ Up(c, k + 1) = IF Up(c, k) = "none" THEN "none" ELSE cats[Up(c, k)].parent
  <1> DEFINE F(n) == CHOOSE f : IsWalk(f, c, n)
  <1>1. \A n \in Nat : IsWalk(F(n), c, n) /\ Up(c, n) = F(n)[n]
    BY WalkExists, UpIsAWalk
  <1> HIDE DEF F
  <1>2. F(0)[0] = c
    BY <1>1 DEF IsWalk
  <1>3. F(k + 1)[k + 1] = IF F(k + 1)[k] = "none" THEN "none" ELSE cats[F(k + 1)[k]].parent
    BY <1>1 DEF IsWalk
  <1>4. F(k + 1)[k] = F(k)[k]
    BY <1>1, WalksAgree
  <1> QED BY <1>1, <1>2, <1>3, <1>4

\* The categories are a forest at most three deep.
Forest ==
  /\ cats \in [Categories -> [parent : Categories \cup {"none"}, depth : 0 .. MAX_DEPTH]]
  /\ \A c \in Categories : Has(c) =>
       IF cats[c].parent = "none" THEN cats[c].depth = 1
       ELSE Has(cats[c].parent) /\ cats[c].depth = cats[cats[c].parent].depth + 1

LEMMA Ancestors ==
  ASSUME Forest, NEW c \in Categories, Has(c)
  PROVE  /\ Up(c, 0) = c
         /\ Up(c, 1) = cats[c].parent
         /\ Up(c, 2) = IF cats[c].parent = "none" THEN "none" ELSE cats[cats[c].parent].parent
         /\ \A k \in Nat : k > 2 => Up(c, k) = "none"
  <1> USE CatalogAssumption
  <1>1. Up(c, 0) = c /\ \A k \in Nat : Up(c, k + 1) = IF Up(c, k) = "none" THEN "none" ELSE cats[Up(c, k)].parent
    BY UpSteps
  <1>2. Up(c, 1) = cats[c].parent
    <2>1. Up(c, 0 + 1) = IF Up(c, 0) = "none" THEN "none" ELSE cats[Up(c, 0)].parent
      BY <1>1
    <2> QED BY <1>1, <2>1
  <1>3. Up(c, 2) = IF cats[c].parent = "none" THEN "none" ELSE cats[cats[c].parent].parent
    <2>1. Up(c, 1 + 1) = IF Up(c, 1) = "none" THEN "none" ELSE cats[Up(c, 1)].parent
      BY <1>1
    <2> QED BY <1>2, <2>1
  <1>4. Up(c, 3) = "none"
    <2>1. Up(c, 2 + 1) = IF Up(c, 2) = "none" THEN "none" ELSE cats[Up(c, 2)].parent
      BY <1>1
    <2> QED BY <1>3, <2>1 DEF Forest, Has, MAX_DEPTH
  <1>5. ASSUME NEW k \in Nat, k > 2 PROVE Up(c, k) = "none"
    <2> DEFINE S == {n \in Nat : n > 2 /\ Up(c, n) # "none"}
    <2>1. SUFFICES ASSUME S # {} PROVE FALSE
      BY <1>5
    <2>2. PICK n \in S : \A m \in S : n <= m
      BY <2>1, LeastNat
    <2>3. n - 1 \in Nat /\ n # 3 /\ Up(c, n - 1) = "none"
      BY <1>4, <2>2
    <2>4. Up(c, (n - 1) + 1) = "none"
      BY <1>1, <2>3
    <2> QED BY <2>2, <2>4
  <1> QED BY <1>1, <1>2, <1>3, <1>5

\* In a forest of depth three, below c are its children and theirs.
LEMMA ChildrenAndGrandchildren ==
  ASSUME Forest, NEW c \in Categories
  PROVE  Descendants(c) = {d \in Categories : Has(d) /\ \/ cats[d].parent = c
                                                        \/ /\ cats[d].parent # "none"
                                                           /\ cats[cats[d].parent].parent = c}
  <1> USE CatalogAssumption
  <1> DEFINE n == Cardinality(Categories)
  <1>1. n \in Nat
    BY FS_CardinalityType
  <1>2. n >= 1
    BY <1>1, FS_EmptySet
  <1>3. ASSUME NEW d \in Categories, Has(d), cats[d].parent # "none" PROVE n >= 2
    <2>1. d # cats[d].parent /\ cats[d].parent \in Categories
      BY <1>3 DEF Forest, Has, MAX_DEPTH
    <2>2. IsFiniteSet({d, cats[d].parent}) /\ Cardinality({d, cats[d].parent}) = 2
      <3>1. IsFiniteSet({d}) /\ Cardinality({d}) = 1
        BY FS_Singleton
      <3> DEFINE e == cats[d].parent
      <3>2. e \notin {d} /\ {d, e} = {d} \cup {e}
        BY <2>1
      <3> HIDE DEF e
      <3>3. /\ IsFiniteSet({d} \cup {e})
            /\ Cardinality({d} \cup {e}) = IF e \in {d} THEN Cardinality({d}) ELSE Cardinality({d}) + 1
        BY <3>1, FS_AddElement
      <3>4. IsFiniteSet({d, e}) /\ Cardinality({d, e}) = 2
        BY <3>1, <3>2, <3>3
      <3> QED BY <3>4 DEF e
    <2> QED BY <2>1, <2>2, FS_Subset
  <1>4. ASSUME NEW d \in Categories, Has(d)
        PROVE  (\E k \in 1 .. n : Up(d, k) = c) <=> \/ cats[d].parent = c
                                                    \/ /\ cats[d].parent # "none"
                                                       /\ cats[cats[d].parent].parent = c
    <2>1. Up(d, 1) = cats[d].parent
      BY <1>4, Ancestors
    <2>2. Up(d, 2) = IF cats[d].parent = "none" THEN "none" ELSE cats[cats[d].parent].parent
      BY <1>4, Ancestors
    <2>3. \A k \in Nat : k > 2 => Up(d, k) = "none"
      BY <1>4, Ancestors
    <2> HIDE DEF n
    <2> QED BY <1>1, <1>2, <1>3, <1>4, <2>1, <2>2, <2>3
  <1> QED BY <1>4 DEF Descendants

LEMMA MaxOfDepths ==
  ASSUME NEW S \in SUBSET (0 .. MAX_DEPTH), S # {}
  PROVE  Max(S) \in S /\ \A x \in S : x <= Max(S)
  <1>1. \E x \in S : \A y \in S : x >= y
    <2>1. CASE 3 \in S
      BY <2>1 DEF MAX_DEPTH
    <2>2. CASE 3 \notin S /\ 2 \in S
      BY <2>2 DEF MAX_DEPTH
    <2>3. CASE 3 \notin S /\ 2 \notin S /\ 1 \in S
      BY <2>3 DEF MAX_DEPTH
    <2>4. CASE 3 \notin S /\ 2 \notin S /\ 1 \notin S
      <3>1. \A x \in S : x = 0
        BY <2>4 DEF MAX_DEPTH
      <3>2. PICK x \in S : TRUE
        OBVIOUS
      <3>3. \A y \in S : x >= y
        BY <3>1
      <3> QED BY <3>3
    <2> QED BY <2>1, <2>2, <2>3, <2>4
  <1>2. Max(S) \in S /\ \A y \in S : Max(S) >= y
    BY <1>1 DEF Max
  <1> QED BY <1>2 DEF MAX_DEPTH

-----------------------------------------------------------------------------
(* While no two requests overlap, what the one under way has decided is    *)
(* still right when it commits.                                            *)

Decided(q) ==
  /\ q.op = "create category" =>
       /\ q.id \in Categories /\ q.with \in Categories \cup {"none"}
       /\ ~Has(q.id) /\ q.depth = ComputeDepth(q.with) /\ q.depth > 0
  /\ q.op = "move category" =>
       /\ q.id \in Categories /\ q.with \in Categories \cup {"none"}
       /\ Has(q.id) /\ q.depth = ComputeDepth(q.with) /\ q.depth > 0
       /\ q.delta = q.depth - cats[q.id].depth
       /\ q.with # q.id /\ q.with \notin Descendants(q.id)
       /\ \A d \in Descendants(q.id) : cats[d].depth + q.delta <= MAX_DEPTH
  /\ q.op = "delete category" => q.id \in Categories
  /\ q.op \in {"create party", "update party", "delete party"} =>
       q.id \in Parties /\ q.name \in Names \cup {"none"} /\ q.aliases \in SUBSET Names
  /\ q.op = "merge" =>
       /\ q.id \in Parties /\ q.with \in Parties /\ q.id # q.with
       /\ q.name = parties[q.id].name /\ q.aliases = parties[q.id].aliases

PartyTypes == parties \in [Parties -> [name : Names \cup {"none"}, aliases : SUBSET (Names \cup {"none"})]]

\* A merged name is the name or an alias of the counterpart it went to.
MergedKept == \A m \in merged : m[2] \in Parties /\ (parties[m[2]].name = m[1] \/ m[1] \in parties[m[2]].aliases)

OneCall == \A j, k \in Clerks : calls[j].op # "none" /\ calls[k].op # "none" => j = k

CallTypes == calls = [k \in Clerks |-> calls[k]] /\ \A k \in Clerks : calls[k].op = "none" \/ Decided(calls[k])

CatalogInv == /\ overlap \in BOOLEAN
              /\ ~overlap => Forest /\ PartyTypes /\ MergedKept /\ OneCall /\ CallTypes

LEMMA CatalogStart == CatalogInit => CatalogInv
  <1> SUFFICES ASSUME CatalogInit PROVE CatalogInv
    OBVIOUS
  <1>1. Forest
    BY DEF CatalogInit, Forest, NoCategory, Has, MAX_DEPTH
  <1>2. PartyTypes
    BY DEF CatalogInit, PartyTypes, NoParty
  <1>3. MergedKept /\ OneCall /\ CallTypes
    BY DEF CatalogInit, MergedKept, OneCall, CallTypes, NoCall
  <1> QED BY <1>1, <1>2, <1>3 DEF CatalogInv, CatalogInit

-----------------------------------------------------------------------------
(* Categories *)

LEMMA DescendantDepths ==
  ASSUME Forest, NEW c \in Categories, Has(c), NEW d \in Descendants(c)
  PROVE  d \in Categories /\ cats[d].depth <= MaxDescendantDepth(c)
  <1> DEFINE S == {cats[e].depth : e \in Descendants(c) \cup {c}}
  <1>1. Descendants(c) \subseteq Categories
    BY DEF Descendants
  <1>2. S \in SUBSET (0 .. MAX_DEPTH) /\ S # {} /\ cats[d].depth \in S
    BY <1>1 DEF Forest
  <1> HIDE DEF S
  <1>3. cats[d].depth <= Max(S)
    BY <1>2, MaxOfDepths
  <1> QED BY <1>1, <1>3 DEF S, MaxDescendantDepth

LEMMA MaxIsDepth ==
  ASSUME Forest, NEW c \in Categories, Has(c)
  PROVE  MaxDescendantDepth(c) \in 0 .. MAX_DEPTH
  <1> DEFINE S == {cats[e].depth : e \in Descendants(c) \cup {c}}
  <1>1. Descendants(c) \subseteq Categories
    BY DEF Descendants
  <1>2. S \in SUBSET (0 .. MAX_DEPTH) /\ S # {}
    BY <1>1 DEF Forest
  <1> HIDE DEF S
  <1>3. Max(S) \in S
    BY <1>2, MaxOfDepths
  <1> QED BY <1>2, <1>3 DEF S, MaxDescendantDepth

\* Whoever is not circular is not below c.
LEMMA NotCircularMeans ==
  ASSUME Forest, NEW c \in Categories, Has(c), NEW p \in Categories \cup {"none"}, ~Circular(c, p), ComputeDepth(p) > 0
  PROVE  p # c /\ p \notin Descendants(c)
  <1> USE CatalogAssumption
  <1>1. CASE p = "none"
    BY <1>1 DEF Descendants
  <1>2. CASE p # "none"
    <2>1. p \in Categories /\ Has(p)
      BY <1>2 DEF ComputeDepth
    <2>2. \A k \in 0 .. 4 : Up(p, k) # c
      BY <1>2 DEF Circular, MAX_DEPTH
    <2>3. Up(p, 0) # c /\ Up(p, 1) # c /\ Up(p, 2) # c
      BY <2>2
    <2> QED BY <1>2, <2>1, <2>3, Ancestors, ChildrenAndGrandchildren
  <1> QED BY <1>1, <1>2

LEMMA DepthUnder ==
  ASSUME Forest, NEW p \in Categories \cup {"none"}, ComputeDepth(p) > 0
  PROVE  /\ ComputeDepth(p) \in 1 .. MAX_DEPTH
         /\ IF p = "none" THEN ComputeDepth(p) = 1
            ELSE p \in Categories /\ cats[p].depth > 0 /\ ComputeDepth(p) = cats[p].depth + 1
  <1>1. CASE p = "none"
    BY <1>1 DEF ComputeDepth, MAX_DEPTH
  <1>2. CASE p # "none" /\ Has(p) /\ cats[p].depth < MAX_DEPTH
    BY <1>2 DEF ComputeDepth, MAX_DEPTH, Forest, Has
  <1>3. CASE p # "none" /\ ~ (Has(p) /\ cats[p].depth < MAX_DEPTH)
    BY <1>3 DEF ComputeDepth
  <1> QED BY <1>1, <1>2, <1>3

\* The forest, a category at a time.
LEMMA ForestFacts ==
  ASSUME Forest
  PROVE  /\ cats = [d \in Categories |-> cats[d]]
         /\ \A d \in Categories :
              /\ cats[d] = [parent |-> cats[d].parent, depth |-> cats[d].depth]
              /\ cats[d].parent \in Categories \cup {"none"}
              /\ cats[d].depth \in Int /\ 0 <= cats[d].depth /\ cats[d].depth <= 3
              /\ cats[d].depth > 0 /\ cats[d].parent = "none" => cats[d].depth = 1
              /\ cats[d].depth > 0 /\ cats[d].parent # "none" =>
                   /\ cats[d].parent \in Categories /\ cats[cats[d].parent].depth > 0
                   /\ cats[d].depth = cats[cats[d].parent].depth + 1
  BY DEF Forest, Has, MAX_DEPTH

LEMMA ForestFrom ==
  ASSUME cats' = [d \in Categories |-> cats'[d]],
         \A d \in Categories :
              /\ cats'[d] = [parent |-> cats'[d].parent, depth |-> cats'[d].depth]
              /\ cats'[d].parent \in Categories \cup {"none"}
              /\ cats'[d].depth \in Int /\ 0 <= cats'[d].depth /\ cats'[d].depth <= 3
              /\ cats'[d].depth > 0 /\ cats'[d].parent = "none" => cats'[d].depth = 1
              /\ cats'[d].depth > 0 /\ cats'[d].parent # "none" =>
                   /\ cats'[d].parent \in Categories /\ cats'[cats'[d].parent].depth > 0
                   /\ cats'[d].depth = cats'[cats'[d].parent].depth + 1
  PROVE  Forest'
  BY DEF Forest, Has, MAX_DEPTH

LEMMA CreateKeepsForest ==
  ASSUME Forest, NEW c \in Categories, ~Has(c), NEW p \in Categories \cup {"none"}, ComputeDepth(p) > 0,
         NEW dp, dp = ComputeDepth(p), cats' = [cats EXCEPT ![c] = [parent |-> p, depth |-> dp]]
  PROVE  Forest'
  <1>3. /\ dp \in 1 .. 3
        /\ IF p = "none" THEN dp = 1 ELSE p \in Categories /\ cats[p].depth > 0 /\ dp = cats[p].depth + 1
    BY DepthUnder DEF MAX_DEPTH
  <1>4. \A d \in Categories : cats'[d] = IF d = c THEN [parent |-> p, depth |-> dp] ELSE cats[d]
    BY ForestFacts
  <1>5. cats[c].depth = 0
    BY ForestFacts DEF Has
  <1>6. \A d \in Categories : cats[d].depth > 0 /\ cats[d].parent # "none" => cats[d].parent # c
    BY <1>5, ForestFacts
  <1>7. ASSUME NEW d \in Categories
        PROVE  /\ cats'[d] = [parent |-> cats'[d].parent, depth |-> cats'[d].depth]
               /\ cats'[d].parent \in Categories \cup {"none"}
               /\ cats'[d].depth \in Int /\ 0 <= cats'[d].depth /\ cats'[d].depth <= 3
               /\ cats'[d].depth > 0 /\ cats'[d].parent = "none" => cats'[d].depth = 1
               /\ cats'[d].depth > 0 /\ cats'[d].parent # "none" =>
                    /\ cats'[d].parent \in Categories /\ cats'[cats'[d].parent].depth > 0
                    /\ cats'[d].depth = cats'[cats'[d].parent].depth + 1
    <2>1. CASE d = c
      <3>1. cats'[d] = [parent |-> p, depth |-> dp]
        BY <1>4, <2>1
      <3>2. p # "none" => p # c /\ cats'[p] = cats[p]
        BY <1>3, <1>4, <1>5
      <3> QED BY <1>3, <3>1, <3>2
    <2>2. CASE d # c
      <3>1. cats'[d] = cats[d]
        BY <1>4, <2>2
      <3>2. cats[d].depth > 0 /\ cats[d].parent # "none" => cats'[cats[d].parent] = cats[cats[d].parent]
        BY <1>4, <1>6, ForestFacts
      <3> QED BY <3>1, <3>2, ForestFacts
    <2> QED BY <2>1, <2>2
  <1>8. cats' = [d \in Categories |-> cats'[d]]
    BY ForestFacts
  <1> QED BY <1>7, <1>8, ForestFrom

LEMMA DeleteKeepsForest ==
  ASSUME Forest, NEW c \in Categories, Children(c) = {}, cats' = [cats EXCEPT ![c] = NoCategory]
  PROVE  Forest'
  BY DEF Forest, Has, Children, NoCategory, MAX_DEPTH

\* The tree after c has moved under p.
MovedTree(c, p, dp, delta) ==
  [d \in Categories |-> IF d = c THEN [parent |-> p, depth |-> dp]
                        ELSE IF d \in Descendants(c) THEN [cats[d] EXCEPT !.depth = @ + delta]
                        ELSE cats[d]]

LEMMA MoveKeepsForest ==
  ASSUME Forest, NEW c \in Categories, Has(c), NEW p \in Categories \cup {"none"}, ComputeDepth(p) > 0,
         NEW dp, dp = ComputeDepth(p), NEW delta, delta = dp - cats[c].depth,
         p # c, p \notin Descendants(c), \A d \in Descendants(c) : cats[d].depth + delta <= MAX_DEPTH,
         cats' = MovedTree(c, p, dp, delta)
  PROVE  Forest'
  <1> DEFINE D == Descendants(c)
  <1>1. /\ cats[c].depth > 0 /\ dp \in 1 .. MAX_DEPTH
        /\ IF p = "none" THEN dp = 1 ELSE p \in Categories /\ cats[p].depth > 0 /\ dp = cats[p].depth + 1
    BY DepthUnder DEF Has
  <1>2. D = {d \in Categories : cats[d].depth > 0 /\ \/ cats[d].parent = c
                                                     \/ /\ cats[d].parent # "none"
                                                        /\ cats[cats[d].parent].parent = c}
    BY <1>1, ChildrenAndGrandchildren DEF Has
  <1>3. ASSUME NEW d \in Categories
        PROVE  cats'[d] = IF d = c THEN [parent |-> p, depth |-> dp]
                          ELSE IF d \in D THEN [parent |-> cats[d].parent, depth |-> cats[d].depth + delta] ELSE cats[d]
    <2>1. cats[d] = [parent |-> cats[d].parent, depth |-> cats[d].depth]
      BY ForestFacts
    <2>2. [cats[d] EXCEPT !.depth = @ + delta] = [parent |-> cats[d].parent, depth |-> cats[d].depth + delta]
      BY <2>1
    <2> HIDE DEF D
    <2> QED BY <2>2 DEF D, MovedTree
  <1>4. cats' = [d \in Categories |-> cats'[d]]
    BY DEF MovedTree
  <1> HIDE DEF D
  <1>5. ASSUME NEW d \in Categories
        PROVE  /\ cats'[d] = [parent |-> cats'[d].parent, depth |-> cats'[d].depth]
               /\ cats'[d].parent \in Categories \cup {"none"}
               /\ cats'[d].depth \in Int /\ 0 <= cats'[d].depth /\ cats'[d].depth <= 3
               /\ cats'[d].depth > 0 /\ cats'[d].parent = "none" => cats'[d].depth = 1
               /\ cats'[d].depth > 0 /\ cats'[d].parent # "none" =>
                    /\ cats'[d].parent \in Categories /\ cats'[cats'[d].parent].depth > 0
                    /\ cats'[d].depth = cats'[cats'[d].parent].depth + 1
    <2>1. CASE d = c
      <3>1. cats'[d] = [parent |-> p, depth |-> dp]
        BY <1>3, <2>1
      <3>2. p # "none" => cats'[p] = cats[p]
        BY <1>1, <1>3 DEF D
      <3> QED BY <1>1, <3>1, <3>2, ForestFacts DEF MAX_DEPTH
    <2>2. CASE d # c /\ d \in D
      <3>1. cats[d].parent # "none" /\ cats[d].parent \in Categories /\ cats[d].depth > 0
        BY <1>1, <1>2, <2>2, ForestFacts, CatalogAssumption
      <3>2. cats'[d] = [parent |-> cats[d].parent, depth |-> cats[d].depth + delta]
        BY <1>3, <2>2
      <3>3. cats[d].depth + delta <= 3
        BY <1>1, <2>2 DEF MAX_DEPTH, D
      <3>4. CASE cats[d].parent = c
        <4>1. cats'[c] = [parent |-> p, depth |-> dp]
          BY <1>1, <1>3
        <4>2. cats[d].depth = cats[c].depth + 1
          BY <3>1, <3>4, ForestFacts
        <4> QED BY <1>1, <3>1, <3>2, <3>3, <3>4, <4>1, <4>2, ForestFacts DEF MAX_DEPTH
      <3>5. CASE cats[d].parent # c
        <4> DEFINE e == cats[d].parent
        <4>1. e \in D /\ cats[e].parent = c /\ e # c /\ e \in Categories /\ cats[e].depth > 0
          BY <1>2, <2>2, <3>1, <3>5, ForestFacts
        <4>2. cats[d].depth = cats[e].depth + 1 /\ cats[e].depth = cats[c].depth + 1
          BY <1>1, <3>1, <4>1, ForestFacts, CatalogAssumption
        <4>3. cats'[e] = [parent |-> c, depth |-> cats[e].depth + delta]
          BY <1>3, <4>1
        <4>4. cats'[d] = [parent |-> e, depth |-> cats[d].depth + delta] /\ e # "none"
          BY <3>1, <3>2
        <4>5. cats[d].depth \in Int /\ cats[e].depth \in Int /\ cats[c].depth \in Int
          BY <1>1, <4>1, ForestFacts
        <4> HIDE DEF e
        <4> QED BY <1>1, <3>3, <4>1, <4>2, <4>3, <4>4, <4>5 DEF MAX_DEPTH
      <3> QED BY <3>4, <3>5
    <2>3. CASE d # c /\ d \notin D
      <3>1. CASE cats[d].depth > 0 /\ cats[d].parent # "none"
        <4> DEFINE e == cats[d].parent
        <4>1. e # c /\ cats[e].parent # c /\ e \in Categories /\ cats[e].depth > 0 /\ cats[d].depth = cats[e].depth + 1
          BY <1>2, <2>3, <3>1, ForestFacts
        <4>2. e \notin D
          <5>1. SUFFICES ASSUME e \in D PROVE FALSE
            OBVIOUS
          <5> DEFINE g == cats[e].parent
          <5>2. g # "none" /\ g \in Categories /\ cats[g].parent = c /\ cats[g].depth > 0 /\ cats[e].depth = cats[g].depth + 1
            BY <1>2, <4>1, <5>1, ForestFacts
          <5>3. cats[g].depth = cats[c].depth + 1
            BY <1>1, <5>2, ForestFacts, CatalogAssumption
          <5> QED BY <1>1, <3>1, <4>1, <5>2, <5>3, ForestFacts
        <4>3. cats'[d] = cats[d] /\ cats'[e] = cats[e]
          BY <1>3, <2>3, <4>1, <4>2
        <4> QED BY <4>3, ForestFacts
      <3>2. CASE ~ (cats[d].depth > 0 /\ cats[d].parent # "none")
        <4>1. cats'[d] = cats[d]
          BY <1>3, <2>3
        <4> QED BY <3>2, <4>1, ForestFacts
      <3> QED BY <3>1, <3>2
    <2> QED BY <2>1, <2>2, <2>3
  <1> QED BY <1>4, <1>5, ForestFrom

LEMMA CategoryCommitKeepsForest ==
  ASSUME Forest, NEW k \in Clerks, Decided(calls[k]), CommitCategory(k)
  PROVE  Forest'
  <1> DEFINE q == calls[k]
             c == q.id
             p == q.with
             dp == q.depth
             delta == q.delta
  <1>1. CASE cats' = cats
    BY <1>1 DEF Forest, Has
  <1>2. CASE q.op = "create category" /\ cats' # cats
    <2>1. c \in Categories /\ ~Has(c) /\ p \in Categories \cup {"none"} /\ ComputeDepth(p) > 0 /\ dp = ComputeDepth(p)
      BY <1>2 DEF Decided
    <2>2. cats' = [cats EXCEPT ![c] = [parent |-> p, depth |-> dp]]
      BY <1>2 DEF CommitCategory
    <2> HIDE DEF q, c, p, dp
    <2> QED BY ONLY Forest, <2>1, <2>2, CreateKeepsForest
  <1>3. CASE q.op = "move category" /\ cats' # cats
    <2>1. /\ c \in Categories /\ Has(c) /\ p \in Categories \cup {"none"} /\ ComputeDepth(p) > 0
          /\ dp = ComputeDepth(p) /\ delta = dp - cats[c].depth /\ p # c /\ p \notin Descendants(c)
          /\ \A d \in Descendants(c) : cats[d].depth + delta <= MAX_DEPTH
      BY <1>3 DEF Decided
    <2>2. cats' = MovedTree(c, p, dp, delta)
      BY <1>3 DEF CommitCategory, MovedTree
    <2> HIDE DEF q, c, p, dp, delta
    <2> QED BY ONLY Forest, <2>1, <2>2, MoveKeepsForest
  <1>4. CASE q.op = "delete category" /\ cats' # cats
    BY <1>4, DeleteKeepsForest DEF CommitCategory, Decided
  <1> QED BY <1>1, <1>2, <1>3, <1>4 DEF CommitCategory

-----------------------------------------------------------------------------
(* The steps of the catalog *)

\* A step that is counted while nobody else is under way leaves the catalog as it was.
LEMMA DecidedStays ==
  ASSUME NEW q, Decided(q), cats' = cats, parties' = parties
  PROVE  Decided(q)'
  <1>1. Has(q.id)' = Has(q.id) /\ ComputeDepth(q.with)' = ComputeDepth(q.with)
    BY DEF Has, ComputeDepth
  <1>2. Descendants(q.id)' = Descendants(q.id)
    BY DEF Descendants, Up, Has
  <1> QED BY <1>1, <1>2 DEF Decided

LEMMA CallKeeps ==
  ASSUME Forest, PartyTypes, MergedKept, OneCall, CallTypes, NEW k \in Clerks, NEW q, q.op # "none", Decided(q),
         ~overlap', Call(k, q)
  PROVE  Forest' /\ PartyTypes' /\ MergedKept' /\ OneCall' /\ CallTypes'
  <1>1. cats' = cats /\ parties' = parties /\ merged' = merged
    BY DEF Call
  <1>2. calls' = [j \in Clerks |-> IF j = k THEN q ELSE calls[j]]
    BY DEF Call, CallTypes
  <1>3. \A j \in Clerks \ {k} : calls[j].op = "none"
    BY DEF Call
  <1>4. Forest' /\ PartyTypes' /\ MergedKept'
    BY <1>1 DEF Forest, Has, PartyTypes, MergedKept
  <1>5. Decided(q)'
    BY <1>1, DecidedStays
  <1>6. CallTypes'
    BY <1>2, <1>3, <1>5 DEF CallTypes
  <1>7. OneCall'
    BY <1>2, <1>3 DEF OneCall
  <1> QED BY <1>4, <1>6, <1>7

LEMMA AnswerKeeps ==
  ASSUME OneCall, CallTypes, NEW k \in Clerks, calls[k].op # "none", Answer(k)
  PROVE  OneCall' /\ CallTypes'
  <1>1. calls' = [j \in Clerks |-> IF j = k THEN NoCall ELSE calls[j]]
    BY DEF Answer, CallTypes
  <1>2. \A j \in Clerks : calls'[j].op = "none"
    BY <1>1 DEF OneCall, NoCall
  <1>3. calls' = [j \in Clerks |-> calls'[j]]
    BY <1>1
  <1> QED BY <1>2, <1>3 DEF OneCall, CallTypes

LEMMA CategoryStep ==
  ASSUME Forest, PartyTypes, MergedKept, OneCall, CallTypes, ~overlap', NEW k \in Clerks,
         \/ \E c \in Categories, p \in Categories \cup {"none"} : CreateCategory(k, c, p) \/ MoveCategory(k, c, p)
         \/ \E c \in Categories : DeleteCategory(k, c)
         \/ CommitCategory(k)
  PROVE  Forest' /\ PartyTypes' /\ MergedKept' /\ OneCall' /\ CallTypes'
  <1>1. ASSUME NEW c \in Categories, NEW p \in Categories \cup {"none"}, CreateCategory(k, c, p)
        PROVE  Forest' /\ PartyTypes' /\ MergedKept' /\ OneCall' /\ CallTypes'
    <2> DEFINE q == [NoCall EXCEPT !.op = "create category", !.id = c, !.with = p, !.depth = ComputeDepth(p)]
    <2>1. ~Has(c) /\ ComputeDepth(p) > 0 /\ Call(k, q)
      BY <1>1 DEF CreateCategory
    <2>2. q.op = "create category" /\ q.id = c /\ q.with = p /\ q.depth = ComputeDepth(p)
      BY DEF NoCall
    <2> HIDE DEF q
    <2>3. Decided(q) /\ q.op # "none"
      BY <2>1, <2>2 DEF Decided
    <2> QED BY <2>1, <2>3, CallKeeps
  <1>2. ASSUME NEW c \in Categories, NEW p \in Categories \cup {"none"}, MoveCategory(k, c, p)
        PROVE  Forest' /\ PartyTypes' /\ MergedKept' /\ OneCall' /\ CallTypes'
    <2> DEFINE dp == ComputeDepth(p)
               delta == dp - cats[c].depth
               q == [NoCall EXCEPT !.op = "move category", !.id = c, !.with = p, !.depth = dp, !.delta = delta]
    <2>1. Has(c) /\ ~Circular(c, p) /\ dp > 0 /\ MaxDescendantDepth(c) + delta <= MAX_DEPTH /\ Call(k, q)
      BY <1>2 DEF MoveCategory
    <2>2. q.op = "move category" /\ q.id = c /\ q.with = p /\ q.depth = dp /\ q.delta = delta
      BY DEF NoCall
    <2>3. p # c /\ p \notin Descendants(c)
      BY <2>1, NotCircularMeans
    <2>4. delta \in Int
      BY <2>1, DepthUnder, ForestFacts
    <2>5. ASSUME NEW d \in Descendants(c) PROVE cats[d].depth + delta <= MAX_DEPTH
      <3>1. d \in Categories /\ cats[d].depth <= MaxDescendantDepth(c)
        BY <2>1, DescendantDepths
      <3>2. MaxDescendantDepth(c) \in Int /\ cats[d].depth \in Int
        BY <3>1, ForestFacts, MaxIsDepth, <2>1
      <3> HIDE DEF delta
      <3> QED BY <2>1, <2>4, <3>1, <3>2 DEF MAX_DEPTH
    <2>6. delta = dp - cats[c].depth
      OBVIOUS
    <2> HIDE DEF q, delta, dp
    <2>7. dp = ComputeDepth(p)
      BY DEF dp
    <2>8. Decided(q) /\ q.op # "none"
      BY <2>1, <2>2, <2>3, <2>5, <2>6, <2>7 DEF Decided
    <2> QED BY <2>1, <2>8, CallKeeps
  <1>3. ASSUME NEW c \in Categories, DeleteCategory(k, c)
        PROVE  Forest' /\ PartyTypes' /\ MergedKept' /\ OneCall' /\ CallTypes'
    <2> DEFINE q == [NoCall EXCEPT !.op = "delete category", !.id = c]
    <2>1. Call(k, q)
      BY <1>3 DEF DeleteCategory
    <2>2. q.op = "delete category" /\ q.id = c
      BY DEF NoCall
    <2> HIDE DEF q
    <2>3. Decided(q) /\ q.op # "none"
      BY <2>2 DEF Decided
    <2> QED BY <2>1, <2>3, CallKeeps
  <1>4. ASSUME CommitCategory(k)
        PROVE  Forest' /\ PartyTypes' /\ MergedKept' /\ OneCall' /\ CallTypes'
    <2>1. calls[k].op # "none" /\ Answer(k) /\ parties' = parties /\ merged' = merged
      BY <1>4 DEF CommitCategory
    <2>2. Forest'
      BY <1>4, <2>1, CategoryCommitKeepsForest DEF CallTypes
    <2> QED BY <2>1, <2>2, AnswerKeeps DEF PartyTypes, MergedKept
  <1> QED BY <1>1, <1>2, <1>3, <1>4

LEMMA CounterpartStep ==
  ASSUME Forest, PartyTypes, MergedKept, OneCall, CallTypes, ~overlap', NEW k \in Clerks,
         \/ \E p \in Parties, n \in Names, as \in SUBSET Names : CreateCounterpart(k, p, n, as) \/ UpdateCounterpart(k, p, n, as)
         \/ \E p \in Parties : DeleteCounterpart(k, p)
         \/ CommitCounterpart(k)
  PROVE  Forest' /\ PartyTypes' /\ MergedKept' /\ OneCall' /\ CallTypes'
  <1>1. ASSUME NEW p \in Parties, NEW n \in Names \cup {"none"}, NEW as \in SUBSET Names,
               NEW op \in {"create party", "update party", "delete party"}, NEW q,
               q.op = op, q.id = p, q.name = n, q.aliases = as, Call(k, q)
        PROVE  Forest' /\ PartyTypes' /\ MergedKept' /\ OneCall' /\ CallTypes'
    <2>1. Decided(q) /\ q.op # "none"
      BY <1>1 DEF Decided
    <2> QED BY <1>1, <2>1, CallKeeps
  <1>2. ASSUME NEW p \in Parties, DeleteCounterpart(k, p)
        PROVE  \E op \in {"create party", "update party", "delete party"} : \E q :
                 q.op = op /\ q.id = p /\ q.name = "none" /\ q.aliases = {} /\ Call(k, q)
    BY <1>2 DEF DeleteCounterpart, NoCall
  <1>3. ASSUME CommitCounterpart(k)
        PROVE  Forest' /\ PartyTypes' /\ MergedKept' /\ OneCall' /\ CallTypes'
    <2> DEFINE q == calls[k]
               s == q.id
               n == q.name
               as == q.aliases
    <2>1. q.op \in {"create party", "update party", "delete party"} /\ Answer(k) /\ cats' = cats
          /\ merged' = {m \in merged : m[2] # s}
      BY <1>3 DEF CommitCounterpart
    <2>2. s \in Parties /\ n \in Names \cup {"none"} /\ as \in SUBSET Names
      BY <2>1 DEF CallTypes, Decided
    <2>3. \/ parties' = [parties EXCEPT ![s] = [name |-> n, aliases |-> as]]
          \/ parties' = [parties EXCEPT ![s] = NoParty]
          \/ parties' = parties
      BY <1>3 DEF CommitCounterpart
    <2>4. OneCall' /\ CallTypes'
      BY <2>1, AnswerKeeps
    <2> HIDE DEF q, s, n, as
    <2>5. PartyTypes' /\ \A p \in Parties : p # s => parties'[p] = parties[p]
      <3>1. CASE parties' = [parties EXCEPT ![s] = [name |-> n, aliases |-> as]]
        BY ONLY <2>2, <3>1, PartyTypes DEF PartyTypes
      <3>2. CASE parties' = [parties EXCEPT ![s] = NoParty]
        <4>1. NoParty \in [name : Names \cup {"none"}, aliases : SUBSET (Names \cup {"none"})]
          BY DEF NoParty
        <4> QED BY ONLY <2>2, <3>2, <4>1, PartyTypes DEF PartyTypes
      <3>3. CASE parties' = parties
        BY ONLY <3>3, PartyTypes DEF PartyTypes
      <3> QED BY <2>3, <3>1, <3>2, <3>3
    <2>6. MergedKept'
      BY <2>1, <2>5 DEF MergedKept
    <2>7. Forest'
      BY <2>1 DEF Forest, Has
    <2> QED BY <2>4, <2>5, <2>6, <2>7
  <1>4. ASSUME NEW p \in Parties, NEW n \in Names, NEW as \in SUBSET Names,
               CreateCounterpart(k, p, n, as) \/ UpdateCounterpart(k, p, n, as)
        PROVE  Forest' /\ PartyTypes' /\ MergedKept' /\ OneCall' /\ CallTypes'
    <2>1. n \in Names \cup {"none"}
      OBVIOUS
    <2>2. PICK op \in {"create party", "update party", "delete party"} :
               \E q : q.op = op /\ q.id = p /\ q.name = n /\ q.aliases = as /\ Call(k, q)
      BY <1>4 DEF CreateCounterpart, UpdateCounterpart, NoCall
    <2>3. PICK q : q.op = op /\ q.id = p /\ q.name = n /\ q.aliases = as /\ Call(k, q)
      BY <2>2
    <2> QED BY <1>1, <2>1, <2>3
  <1>5. ASSUME NEW p \in Parties, DeleteCounterpart(k, p)
        PROVE  Forest' /\ PartyTypes' /\ MergedKept' /\ OneCall' /\ CallTypes'
    <2>1. "none" \in Names \cup {"none"} /\ {} \in SUBSET Names
      OBVIOUS
    <2>2. PICK op \in {"create party", "update party", "delete party"} :
               \E q : q.op = op /\ q.id = p /\ q.name = "none" /\ q.aliases = {} /\ Call(k, q)
      BY <1>2, <1>5
    <2>3. PICK q : q.op = op /\ q.id = p /\ q.name = "none" /\ q.aliases = {} /\ Call(k, q)
      BY <2>2
    <2> QED BY <1>1, <2>1, <2>3
  <1> QED BY <1>3, <1>4, <1>5

LEMMA MergeStep ==
  ASSUME Forest, PartyTypes, MergedKept, OneCall, CallTypes, ~overlap', NEW k \in Clerks,
         (\E s, t \in Parties : MoveTransactions(k, s, t)) \/ MergeCounterparts(k)
  PROVE  Forest' /\ PartyTypes' /\ MergedKept' /\ OneCall' /\ CallTypes'
  <1>1. ASSUME NEW s \in Parties, NEW t \in Parties, MoveTransactions(k, s, t)
        PROVE  Forest' /\ PartyTypes' /\ MergedKept' /\ OneCall' /\ CallTypes'
    <2>0. PICK q : q = [NoCall EXCEPT !.op = "merge", !.id = s, !.with = t,
                                      !.name = parties[s].name, !.aliases = parties[s].aliases]
      OBVIOUS
    <2>1. /\ s # t /\ cats' = cats /\ parties' = parties /\ merged' = merged
          /\ calls' = [calls EXCEPT ![k] = q]
          /\ overlap' = (overlap \/ \E j \in Clerks \ {k} : calls[j].op # "none")
      BY <1>1, <2>0 DEF MoveTransactions
    <2>2. q.op = "merge" /\ q.id = s /\ q.with = t /\ q.name = parties[s].name /\ q.aliases = parties[s].aliases
      BY <2>0 DEF NoCall
    <2>3. calls' = [j \in Clerks |-> IF j = k THEN q ELSE calls[j]]
      BY <2>1 DEF CallTypes
    <2>4. \A j \in Clerks \ {k} : calls[j].op = "none"
      BY <2>1
    <2>5. Decided(q)
      BY <2>1, <2>2 DEF Decided
    <2>6. Decided(q)'
      BY <2>1, <2>5, DecidedStays
    <2>7. CallTypes'
      BY <2>3, <2>4, <2>6 DEF CallTypes
    <2>8. OneCall'
      BY <2>3, <2>4 DEF OneCall
    <2> QED BY <2>1, <2>7, <2>8 DEF Forest, Has, PartyTypes, MergedKept
  <1>2. ASSUME MergeCounterparts(k)
        PROVE  Forest' /\ PartyTypes' /\ MergedKept' /\ OneCall' /\ CallTypes'
    <2> DEFINE q == calls[k]
               s == q.id
               t == q.with
               n == q.name
               as == q.aliases
               moved == {<<m[1], t>> : m \in {x \in merged : x[2] \in {s, t}}}
    <2>1. q.op = "merge" /\ Answer(k) /\ cats' = cats
      BY <1>2 DEF MergeCounterparts
    <2>2. s \in Parties /\ t \in Parties /\ s # t /\ n = parties[s].name /\ as = parties[s].aliases
      BY <2>1 DEF CallTypes, Decided
    <2>3. OneCall' /\ CallTypes'
      BY <2>1, AnswerKeeps
    <2>4. Forest'
      BY <2>1 DEF Forest, Has
    <2>5. CASE ~ (Known(t) /\ Known(s))
      <3>1. parties' = parties /\ merged' = merged
        BY <1>2, <2>5 DEF MergeCounterparts
      <3> QED BY <2>3, <2>4, <3>1 DEF PartyTypes, MergedKept
    <2>6. CASE Known(t) /\ Known(s)
      <3> DEFINE all == (parties[t].aliases \cup {n} \cup as) \ {parties[t].name}
      <3>1. /\ parties' = [parties EXCEPT ![s] = NoParty, ![t].aliases = all]
            /\ merged' = {m \in merged : m[2] \notin {s, t}} \cup {<<n, t>>} \cup moved
        BY <1>2, <2>6 DEF MergeCounterparts, MergedAliases
      <3>2. /\ parties[t] = [name |-> parties[t].name, aliases |-> parties[t].aliases]
            /\ parties[t].name \in Names \cup {"none"} /\ parties[t].aliases \in SUBSET (Names \cup {"none"})
            /\ n \in Names \cup {"none"} /\ as \in SUBSET (Names \cup {"none"})
            /\ DOMAIN parties = Parties /\ parties = [p \in Parties |-> parties[p]]
        BY <2>2 DEF PartyTypes
      <3> HIDE DEF q, s, t, n, as, all, moved
      <3>3. \A p \in Parties : parties'[p] = IF p = s THEN NoParty
                                             ELSE IF p = t THEN [name |-> parties[t].name, aliases |-> all]
                                             ELSE parties[p]
        BY ONLY <2>2, <3>1, <3>2
      <3>4. parties' = [p \in Parties |-> parties'[p]]
        BY ONLY <2>2, <3>1, <3>2
      <3>5. all \in SUBSET (Names \cup {"none"})
        BY ONLY <3>2 DEF all
      <3>6. PartyTypes'
        BY <3>2, <3>3, <3>4, <3>5 DEF PartyTypes, NoParty
      <3>7. ASSUME NEW m \in merged'
            PROVE  m[2] \in Parties /\ (parties'[m[2]].name = m[1] \/ m[1] \in parties'[m[2]].aliases)
        <4>1. parties'[t].name = parties[t].name /\ parties'[t].aliases = all
          BY <2>2, <3>3
        <4>2. CASE m \in merged /\ m[2] \notin {s, t}
          BY <3>3, <4>2 DEF MergedKept
        <4>3. CASE m = <<n, t>>
          BY <2>2, <4>1, <4>3 DEF all
        <4>4. CASE m \in moved
          <5>1. PICK x \in merged : x[2] \in {s, t} /\ m = <<x[1], t>>
            BY <4>4 DEF moved
          <5>2. parties[x[2]].name = x[1] \/ x[1] \in parties[x[2]].aliases
            BY DEF MergedKept
          <5>3. x[1] = parties[t].name \/ x[1] \in all
            BY <2>2, <5>1, <5>2 DEF all
          <5>4. m[1] = x[1] /\ m[2] = t
            BY <5>1
          <5> QED BY <2>2, <4>1, <5>3, <5>4
        <4> QED BY <3>1, <4>2, <4>3, <4>4
      <3>8. MergedKept'
        BY <3>7 DEF MergedKept
      <3> QED BY <2>3, <2>4, <3>6, <3>8
    <2> QED BY <2>5, <2>6
  <1> QED BY <1>1, <1>2

LEMMA CatalogStep == CatalogInv /\ [CatalogNext]_catalogVars => CatalogInv'
  <1> SUFFICES ASSUME CatalogInv, [CatalogNext]_catalogVars PROVE CatalogInv'
    OBVIOUS
  <1>1. overlap' \in BOOLEAN /\ (overlap => overlap')
    <2>1. ASSUME NEW k, NEW q, Call(k, q) PROVE overlap' \in BOOLEAN /\ (overlap => overlap')
      BY <2>1 DEF CatalogInv, Call
    <2>2. ASSUME NEW k, Answer(k) PROVE overlap' = overlap
      BY <2>2 DEF Answer
    <2>3. ASSUME NEW k \in Clerks, NEW c \in Categories, NEW p \in Categories \cup {"none"},
                 CreateCategory(k, c, p) \/ MoveCategory(k, c, p) \/ DeleteCategory(k, c)
          PROVE  overlap' \in BOOLEAN /\ (overlap => overlap')
      <3>1. \E q : Call(k, q)
        BY <2>3 DEF CreateCategory, MoveCategory, DeleteCategory
      <3> QED BY <2>1, <3>1
    <2>4. ASSUME NEW k \in Clerks, NEW p \in Parties, NEW n \in Names, NEW as \in SUBSET Names,
                 CreateCounterpart(k, p, n, as) \/ UpdateCounterpart(k, p, n, as)
          PROVE  overlap' \in BOOLEAN /\ (overlap => overlap')
      <3>1. \E q : Call(k, q)
        BY <2>4 DEF CreateCounterpart, UpdateCounterpart
      <3> QED BY <2>1, <3>1
    <2>5. ASSUME NEW k \in Clerks, NEW p \in Parties, DeleteCounterpart(k, p)
          PROVE  overlap' \in BOOLEAN /\ (overlap => overlap')
      <3>1. \E q : Call(k, q)
        BY <2>5 DEF DeleteCounterpart
      <3> QED BY <2>1, <3>1
    <2>6. ASSUME NEW k \in Clerks, CommitCategory(k) \/ CommitCounterpart(k) \/ MergeCounterparts(k)
          PROVE  overlap' = overlap
      BY <2>2, <2>6 DEF CommitCategory, CommitCounterpart, MergeCounterparts
    <2>7. ASSUME NEW k \in Clerks, NEW s \in Parties, NEW t \in Parties, MoveTransactions(k, s, t)
          PROVE  overlap' \in BOOLEAN /\ (overlap => overlap')
      BY <2>7 DEF CatalogInv, MoveTransactions
    <2>8. ASSUME UNCHANGED overlap PROVE overlap' \in BOOLEAN /\ (overlap => overlap')
      BY <2>8 DEF CatalogInv
    <2>9. CASE UNCHANGED catalogVars
      BY <2>8, <2>9 DEF catalogVars
    <2>10. ASSUME NEW e \in Entries, NEW p \in Parties, LinkTransaction(e, p)
           PROVE  overlap' \in BOOLEAN /\ (overlap => overlap')
      BY <2>8, <2>10 DEF LinkTransaction
    <2> QED BY <2>3, <2>4, <2>5, <2>6, <2>7, <2>8, <2>9, <2>10 DEF CatalogNext
  <1>2. ASSUME ~overlap' PROVE Forest' /\ PartyTypes' /\ MergedKept' /\ OneCall' /\ CallTypes'
    <2>1. Forest /\ PartyTypes /\ MergedKept /\ OneCall /\ CallTypes
      BY <1>1, <1>2 DEF CatalogInv
    <2>2. ASSUME UNCHANGED <<cats, parties, calls, overlap, merged>>
          PROVE  Forest' /\ PartyTypes' /\ MergedKept' /\ OneCall' /\ CallTypes'
      <3>1. Forest' /\ PartyTypes' /\ MergedKept' /\ OneCall'
        BY <2>1, <2>2 DEF Forest, Has, PartyTypes, MergedKept, OneCall
      <3>2. ASSUME NEW k \in Clerks PROVE calls'[k].op = "none" \/ Decided(calls[k])'
        <4>1. PICK q : q = calls[k]
          OBVIOUS
        <4>2. q.op = "none" \/ Decided(q)'
          BY <2>1, <2>2, <4>1, DecidedStays DEF CallTypes
        <4>3. q = calls'[k]
          BY <2>2, <4>1
        <4> QED BY <4>2, <4>3 DEF Decided
      <3> QED BY <2>1, <2>2, <3>1, <3>2 DEF CallTypes
    <2>3. CASE UNCHANGED catalogVars
      BY <2>2, <2>3 DEF catalogVars
    <2>4. ASSUME NEW e \in Entries, NEW p \in Parties, LinkTransaction(e, p)
          PROVE  Forest' /\ PartyTypes' /\ MergedKept' /\ OneCall' /\ CallTypes'
      BY <2>2, <2>4 DEF LinkTransaction
    <2> QED BY <1>2, <2>1, <2>3, <2>4, CategoryStep, CounterpartStep, MergeStep DEF CatalogNext
  <1> QED BY <1>1, <1>2 DEF CatalogInv

LEMMA CatalogHolds == CatalogSpec => []CatalogInv
  BY CatalogStart, CatalogStep, PTL DEF CatalogSpec

LEMMA TreeShowsAll ==
  ASSUME Forest, NEW c \in Categories, Has(c)
  PROVE  \E k \in 0 .. Cardinality(Categories) : Up(c, k) # "none" /\ cats[Up(c, k)].parent = "none"
  <1> USE CatalogAssumption
  <1> DEFINE n == Cardinality(Categories)
             p == cats[c].parent
  <1>1. n \in Nat
    BY FS_CardinalityType
  <1>2. /\ Up(c, 0) = c /\ Up(c, 1) = p
        /\ Up(c, 2) = IF p = "none" THEN "none" ELSE cats[p].parent
    BY Ancestors
  <1>3. CASE p = "none"
    BY <1>1, <1>2, <1>3
  <1>4. CASE p # "none"
    <2>1. p \in Categories /\ p # c /\ cats[p].depth > 0 /\ cats[c].depth = cats[p].depth + 1
      BY <1>4, ForestFacts DEF Has
    <2>2. {c, p} \subseteq Categories /\ IsFiniteSet({c, p}) /\ Cardinality({c, p}) = 2
      <3>1. IsFiniteSet({c}) /\ Cardinality({c}) = 1
        BY FS_Singleton
      <3>2. p \notin {c} /\ {c, p} = {c} \cup {p} /\ {c, p} \subseteq Categories
        BY <2>1
      <3> HIDE DEF p
      <3>3. /\ IsFiniteSet({c} \cup {p})
            /\ Cardinality({c} \cup {p}) = IF p \in {c} THEN Cardinality({c}) ELSE Cardinality({c}) + 1
        BY <3>1, FS_AddElement
      <3> QED BY <3>1, <3>2, <3>3
    <2>3. n >= 2
      BY <1>1, <2>2, FS_Subset
    <2>4. cats[p].parent # "none" => cats[cats[p].parent].parent = "none"
      BY <2>1, ForestFacts DEF Has
    <2>5. 1 \in 0 .. Cardinality(Categories) /\ 2 \in 0 .. Cardinality(Categories)
      BY <1>1, <2>3
    <2>6. CASE cats[p].parent = "none"
      <3>1. Up(c, 1) # "none" /\ cats[Up(c, 1)].parent = "none"
        BY <1>2, <1>4, <2>6
      <3> QED BY <2>5, <3>1
    <2>7. CASE cats[p].parent # "none"
      <3>1. Up(c, 2) # "none" /\ cats[Up(c, 2)].parent = "none"
        BY <1>2, <1>4, <2>4, <2>7
      <3> QED BY <2>5, <3>1
    <2> QED BY <2>6, <2>7
  <1> QED BY <1>3, <1>4

\* CatalogIsSound: as long as requests do not overlap, the categories stay a
\* forest at most three deep that the tree shows completely, and a merged name
\* still finds the counterpart that absorbed it, after any sequence of creates,
\* moves, deletes and merges (category_service.py, counterpart_service.py).
THEOREM CatalogAlwaysSound == CatalogSpec => []CatalogIsSound
  <1>1. ASSUME Forest PROVE Shown = {c \in Categories : Has(c)}
    BY <1>1, TreeShowsAll DEF Shown
  <1>2. ASSUME Forest, NEW c \in Categories, Has(c)
        PROVE  /\ cats[c].depth <= MAX_DEPTH
               /\ cats[c].depth = IF cats[c].parent = "none" THEN 1 ELSE cats[cats[c].parent].depth + 1
    BY <1>2, ForestFacts DEF Has, MAX_DEPTH
  <1>3. ASSUME MergedKept, NEW m \in merged,
               \A p \in Parties \ {m[2]} : parties[p].name # m[1] /\ m[1] \notin parties[p].aliases
        PROVE  Match(m[1]) = {m[2]}
    BY <1>3 DEF MergedKept, Match, Named
  <1>4. CatalogInv => CatalogIsSound
    BY <1>1, <1>2, <1>3 DEF CatalogInv, CatalogIsSound, TreeIsSound, MergedNameFindsTarget
  <1> QED BY <1>4, CatalogHolds, PTL
-----------------------------------------------------------------------------
(* The books: statements and the rows made of them *)

LEMMA AnyOrder ==
  ASSUME NEW S, IsFiniteSet(S)
  PROVE  SetToSeq(S) \in SetToSeqs(S)
  <1> DEFINE n == Cardinality(S)
  <1>1. PICK f : f \in Bijection(1 .. n, S)
    BY FS_CardinalityType DEF ExistsBijection
  <1>2. f \in [1 .. n -> S] /\ IsInjective(f)
    BY <1>1 DEF Bijection, Injection, IsInjective
  <1>3. SetToSeq(S) \in [1 .. n -> S] /\ IsInjective(SetToSeq(S))
    BY <1>2 DEF SetToSeq
  <1> QED BY <1>3 DEF SetToSeqs, IsInjective

\* The rows of a set as they are inserted.
InOrder(s, m, S, log) ==
  /\ Len(s) = m /\ m \in Nat /\ DOMAIN s = 1 .. m
  /\ \A i \in 1 .. m : \E x \in S : s[i] = [x EXCEPT !.log = log]
  /\ \A x \in S : \E i \in 1 .. m : s[i] = [x EXCEPT !.log = log]

LEMMA LoggedRows ==
  ASSUME NEW S, IsFiniteSet(S), NEW log
  PROVE  InOrder(Logged(S, log), Cardinality(S), S, log)
  <1> DEFINE s == SetToSeq(S)
             n == Cardinality(S)
  <1>1. s \in SetToSeqs(S)
    BY AnyOrder
  <1>2. n \in Nat
    BY FS_CardinalityType
  <1>3. s \in [1 .. n -> S]
    BY <1>1 DEF SetToSeqs
  <1>4. \A x \in S : \E i \in DOMAIN s : s[i] = x
    BY <1>1, QueryOrder
  <1> HIDE DEF s
  <1>5. Logged(S, log) = [i \in 1 .. n |-> [s[i] EXCEPT !.log = log]]
    BY <1>3 DEF Logged, s
  <1>6. Logged(S, log) \in Seq({[x EXCEPT !.log = log] : x \in S}) /\ Len(Logged(S, log)) = n
    BY <1>2, <1>3, <1>5
  <1>7. DOMAIN s = 1 .. n /\ \A i \in 1 .. n : s[i] \in S
    BY <1>3
  <1>8. DOMAIN Logged(S, log) = 1 .. n /\ \A i \in 1 .. n : Logged(S, log)[i] = [s[i] EXCEPT !.log = log]
    BY <1>5
  <1>9. \A i \in 1 .. n : \E x \in S : Logged(S, log)[i] = [x EXCEPT !.log = log]
    BY <1>7, <1>8
  <1>10. ASSUME NEW x \in S PROVE \E i \in 1 .. n : Logged(S, log)[i] = [x EXCEPT !.log = log]
    <2>1. PICK i \in 1 .. n : s[i] = x
      BY <1>4, <1>7
    <2> QED BY <1>8, <2>1
  <1> QED BY <1>2, <1>6, <1>8, <1>9, <1>10 DEF InOrder

LEMMA ListedIsSeq ==
  ASSUME NEW found, IsFiniteSet(DOMAIN found)
  PROVE  \E n \in Nat : DOMAIN Listed(found) = 1 .. n /\ Listed(found) = [i \in 1 .. n |-> Listed(found)[i]]
  <1> DEFINE with == {i \in DOMAIN found : found[i] # <<>>}
  <1>1. Cardinality(with) \in Nat
    BY FS_Subset, FS_CardinalityType
  <1>2. DOMAIN Listed(found) = 1 .. Cardinality(with) /\ Listed(found) = [i \in 1 .. Cardinality(with) |-> Listed(found)[i]]
    BY DEF Listed
  <1> HIDE DEF with
  <1> QED BY <1>1, <1>2

\* Both parsers give a sequence of entries.
IsList(s) == s \in Seq({s[i] : i \in DOMAIN s}) /\ Len(s) \in Nat /\ DOMAIN s = 1 .. Len(s)

LEMMA FunctionIsList ==
  ASSUME NEW s, NEW n \in Nat, DOMAIN s = 1 .. n, s = [i \in 1 .. n |-> s[i]]
  PROVE  IsList(s) /\ Len(s) = n
  <1> DEFINE S == {s[i] : i \in DOMAIN s}
  <1>1. s \in [1 .. n -> S]
    OBVIOUS
  <1> HIDE DEF S
  <1>2. s \in Seq(S) /\ Len(s) = n
    BY <1>1
  <1> QED BY <1>2 DEF IsList, S

LEMMA ParsersList ==
  ASSUME NEW f \in Files
  PROVE  IsList(Drafts(f)) /\ IsList(LegacyRows(f))
  <1>1. IsFiniteSet(DOMAIN f.rows)
    BY LedgerAssumption
  <1>2. ASSUME NEW found, DOMAIN found = DOMAIN f.rows PROVE IsList(Listed(found))
    BY <1>1, <1>2, ListedIsSeq, FunctionIsList
  <1>3. \E found : DOMAIN found = DOMAIN f.rows /\ Drafts(f) = Listed(found)
    BY DEF Drafts
  <1>4. \E found : DOMAIN found = DOMAIN f.rows /\ LegacyRows(f) = Listed(found)
    BY DEF LegacyRows
  <1> QED BY <1>2, <1>3, <1>4

-----------------------------------------------------------------------------
(* The invariant *)

\* What a commit may not undo: the row of an entry, with the account that has it.
InAccount(a, h) == \E j \in DOMAIN rows : rows[j].acct = a /\ rows[j].hash = h

IsRow(x) == x = [acct |-> x.acct, date |-> x.date, bal |-> x.bal, hash |-> x.hash, log |-> x.log, live |-> x.live, at |-> x.at]

LEMMA WithLog ==
  ASSUME NEW x, IsRow(x), NEW n, NEW y, y = [x EXCEPT !.log = n]
  PROVE  IsRow(y) /\ y.acct = x.acct /\ y.hash = x.hash /\ y.log = n /\ y.live = x.live
  BY DEF IsRow

\* A row belongs to the account of its hash or, without an account, is deleted.
RowRight(x, n) ==
  /\ IsRow(x)
  /\ x.hash[1] \in Accounts /\ x.acct \in {x.hash[1], "gone"}
  /\ x.live \in BOOLEAN /\ (x.acct = "gone" => ~x.live)
  /\ x.log \in 0 .. n

RowsInOrder ==
  /\ \E n \in Nat : DOMAIN rows = 1 .. n
  /\ rows = [i \in DOMAIN rows |-> rows[i]]
  /\ \A i \in DOMAIN rows : RowRight(rows[i], Len(logs))

EntriesOf(l) == IF l.op = "confirm" THEN Drafts(l.file) ELSE LegacyRows(l.file)

\* The rows that carry log l.
Carrying(l) == {i \in DOMAIN rows : rows[i].log = l}

LogRight(g) ==
  /\ g = [acct |-> g.acct, file |-> g.file, op |-> g.op, status |-> g.status,
          rows |-> g.rows, imported |-> g.imported, dups |-> g.dups]
  /\ g.acct \in Accounts \cup {"null"}
  /\ g.status = "completed" => g.imported = g.rows - g.dups
  /\ g.status = "completed" /\ g.acct # "null" =>
       \A i \in DOMAIN EntriesOf(g) : InAccount(g.acct, TransactionHash(g.acct, EntriesOf(g)[i]))

LogsInOrder ==
  /\ Len(logs) \in Nat /\ DOMAIN logs = 1 .. Len(logs) /\ logs = [l \in DOMAIN logs |-> logs[l]]
  /\ \A l \in DOMAIN logs :
       LogRight(logs[l]) /\ Cardinality(Carrying(l)) = logs[l].imported

\* Rows on their way into account a.
Incoming(S, a) == /\ IsFiniteSet(S)
                  /\ \A x \in S : IsRow(x) /\ x.acct = a /\ x.hash[1] = a /\ x.live = TRUE

\* Entry d of a file has a row, or will have one when the request commits.
Loaded(q, S, d) == \/ InAccount(q.acct, TransactionHash(q.acct, d))
                   \/ \E x \in S : x.hash = TransactionHash(q.acct, d)

\* The first k entries of the file are inserted or counted as duplicates.
Confirming(q) ==
  /\ q.acct \in Accounts /\ q.file \in Files /\ q.dups \in Int
  /\ Incoming(q.ins, q.acct)
  /\ LET ds == Drafts(q.file)
     IN \E k \in 0 .. Len(ds) :
          /\ q.phase # "open" => k = 0
          /\ q.left = SubSeq(ds, k + 1, Len(ds))
          /\ Cardinality(q.ins) + q.dups = k
          /\ \A i \in 1 .. k : Loaded(q, q.ins, ds[i])

Uploading(q) ==
  /\ q.acct \in Accounts /\ q.file \in Files /\ q.dups \in Int
  /\ Incoming(q.plan, q.acct)
  /\ q.left # <<>> =>
       LET ds == LegacyRows(q.file)
       IN /\ q.phase = "open"
          /\ Cardinality(q.plan) + q.dups = Len(ds)
          /\ \A i \in DOMAIN ds : Loaded(q, q.plan, ds[i])

\* Each account has its turn once, and its days are those asked for.
Recomputing(q) ==
  /\ q.from = 1 /\ q.to = Today /\ q.dates \subseteq 1 .. Today
  /\ \A x \in q.put : x[1] \notin q.todo /\ (q.phase = "dated" => x[1] # q.acct)
  /\ q.phase = "dated" => q.acct \notin q.todo

\* What a request holds while it is under way.
Working(q) ==
  /\ DOMAIN q = DOMAIN NoRequest
  /\ q.op = "confirm" => Confirming(q)
  /\ q.op = "upload" => Uploading(q)
  /\ q.op = "create" => q.acct \in Accounts /\ Incoming(q.plan, q.acct) /\ (\E x : q.plan = {x}) /\ \A x \in q.plan : x.log = 0
  /\ q.op = "delete" => q.acct \in Accounts
  /\ q.op = "recompute" => Recomputing(q)
  /\ q.op = "none" => q.phase # "dated"

RequestsInOrder == reqs = [r \in Requests |-> reqs[r]] /\ \A r \in Requests : Working(reqs[r])

LedgerInv == RowsInOrder /\ LogsInOrder /\ RequestsInOrder

LEMMA LedgerStart == LedgerInit => LedgerInv
  <1> SUFFICES ASSUME LedgerInit PROVE LedgerInv
    OBVIOUS
  <1>1. RowsInOrder
    <2>1. rows = <<>> /\ DOMAIN rows = 1 .. 0
      BY DEF LedgerInit
    <2> QED BY <2>1 DEF RowsInOrder
  <1>2. LogsInOrder
    <2>1. logs = <<>> /\ DOMAIN logs = 1 .. 0 /\ Len(logs) = 0
      BY DEF LedgerInit
    <2> QED BY <2>1 DEF LogsInOrder
  <1>3. RequestsInOrder
    BY DEF LedgerInit, RequestsInOrder, Working, Recomputing, NoRequest
  <1> QED BY <1>1, <1>2, <1>3 DEF LedgerInv

\* UploadsAreComplete says nothing that LedgerInv does not.
LEMMA LedgerInvSuffices == LedgerInv => UploadsAreComplete
  <1> SUFFICES ASSUME LedgerInv PROVE UploadsAreComplete
    OBVIOUS
  <1>1. LogsCountRows
    BY DEF LedgerInv, LogsInOrder, LogRight, LogsCountRows, Carrying
  <1>2. NothingIsLost
    BY DEF LedgerInv, LogsInOrder, LogRight, NothingIsLost, EntriesOf, InAccount, TransactionHash
  <1> QED BY <1>1, <1>2 DEF UploadsAreComplete

-----------------------------------------------------------------------------
(* Rows that stay *)

\* Every row stays, and a row of an account an open upload holds keeps it.
RowsRemain == \A j \in DOMAIN rows : /\ j \in DOMAIN rows' /\ rows'[j].hash = rows[j].hash
                                     /\ rows'[j].acct = rows[j].acct \/ ~Hold(rows[j].acct)

LEMMA WorkStays ==
  ASSUME RowsRemain, NEW q, Working(q), q.op # "none", q.phase = "open" => Hold(q.acct)
  PROVE  Working(q)'
  <1>1. ASSUME NEW S, NEW d, q.phase = "open", Loaded(q, S, d) PROVE Loaded(q, S, d)'
    BY <1>1 DEF RowsRemain, Loaded, InAccount
  <1>2. ASSUME q.op = "confirm" PROVE Confirming(q)'
    <2>1. Confirming(q)
      BY <1>2 DEF Working
    <2>2. PICK k \in 0 .. Len(Drafts(q.file)) :
                /\ q.phase # "open" => k = 0
                /\ q.left = SubSeq(Drafts(q.file), k + 1, Len(Drafts(q.file)))
                /\ Cardinality(q.ins) + q.dups = k
                /\ \A i \in 1 .. k : Loaded(q, q.ins, Drafts(q.file)[i])
      BY <2>1 DEF Confirming
    <2>3. ASSUME NEW i \in 1 .. k PROVE Loaded(q, q.ins, Drafts(q.file)[i])'
      BY <1>1, <2>2
    <2> QED BY <2>1, <2>2, <2>3 DEF Confirming
  <1>3. ASSUME q.op = "upload" PROVE Uploading(q)'
    <2>1. Uploading(q)
      BY <1>3 DEF Working
    <2>2. ASSUME q.left # <<>>, NEW i \in DOMAIN LegacyRows(q.file) PROVE Loaded(q, q.plan, LegacyRows(q.file)[i])'
      BY <1>1, <2>1, <2>2 DEF Uploading
    <2> QED BY <2>1, <2>2 DEF Uploading
  <1> QED BY <1>2, <1>3 DEF Working, Recomputing

\* A request that changes and rows that stay leave every other request at work.
LEMMA OthersWork ==
  ASSUME RequestsInOrder, RowsRemain, NEW r \in Requests, NEW v, Working(v)', reqs' = [reqs EXCEPT ![r] = v]
  PROVE  RequestsInOrder'
  <1>1. reqs' = [p \in Requests |-> IF p = r THEN v ELSE reqs[p]]
    BY DEF RequestsInOrder
  <1>2. ASSUME NEW p \in Requests PROVE Working(reqs[p])' \/ p = r
    <2>1. PICK q : q = reqs[p]
      OBVIOUS
    <2>2. Working(q)
      BY <2>1 DEF RequestsInOrder
    <2>3. CASE q.op = "none"
      <3>1. Working(q)'
        BY <2>2, <2>3 DEF Working, Recomputing
      <3>2. p # r => reqs'[p] = q
        BY <1>1, <2>1
      <3> QED BY <3>1, <3>2
    <2>4. CASE q.op # "none"
      <3>1. q.phase = "open" => Hold(q.acct)
        BY <2>1, <2>4 DEF Hold
      <3>2. Working(q)'
        BY <2>2, <2>4, <3>1, WorkStays
      <3>3. p # r => reqs'[p] = q
        BY <1>1, <2>1
      <3> QED BY <3>2, <3>3
    <2> QED BY <2>3, <2>4
  <1>3. reqs'[r] = v
    BY <1>1
  <1>4. reqs' = [p \in Requests |-> reqs'[p]]
    BY <1>1
  <1>5. Working(reqs[r])'
    BY <1>3
  <1>6. \A p \in Requests : Working(reqs[p])'
    BY <1>2, <1>5
  <1> QED BY <1>4, <1>6 DEF RequestsInOrder

\* Finishing, for whatever reason.
LEMMA OthersWorkOn ==
  ASSUME RequestsInOrder, RowsRemain, NEW r \in Requests, Finish(r)
  PROVE  RequestsInOrder'
  <1>1. Working(NoRequest)'
    BY DEF Working, Recomputing, NoRequest
  <1> QED BY <1>1, OthersWork DEF Finish

LEMMA NobodyChanges ==
  ASSUME RequestsInOrder, RowsRemain, reqs' = reqs
  PROVE  RequestsInOrder'
  <1>1. ASSUME NEW p \in Requests PROVE Working(reqs[p])'
    <2>1. PICK q : q = reqs[p]
      OBVIOUS
    <2>2. Working(q)'
      <3>1. CASE q.op = "none"
        BY <2>1, <3>1 DEF Working, Recomputing, RequestsInOrder
      <3>2. CASE q.op # "none"
        BY <2>1, <3>2, WorkStays DEF RequestsInOrder, Hold
      <3> QED BY <3>1, <3>2
    <2>3. reqs'[p] = q
      BY <2>1
    <2> QED BY <2>2, <2>3
  <1> QED BY <1>1 DEF RequestsInOrder

LEMMA QuietBooks ==
  ASSUME RowsInOrder, LogsInOrder, rows' = rows, logs' = logs
  PROVE  RowsInOrder' /\ LogsInOrder' /\ RowsRemain
  <1>1. RowsInOrder'
    BY DEF RowsInOrder, RowRight
  <1>2. LogsInOrder'
    BY DEF LogsInOrder, LogRight, Carrying, EntriesOf, InAccount, TransactionHash
  <1> QED BY <1>1, <1>2 DEF RowsRemain

\* Rows that are added, after those there are.
LEMMA AddedRows ==
  ASSUME RowsInOrder, NEW ins, NEW m \in Nat, Len(ins) = m, DOMAIN ins = 1 .. m, rows' = Added(ins)
  PROVE  /\ RowsRemain
         /\ \E n \in Nat : /\ DOMAIN rows = 1 .. n /\ DOMAIN rows' = 1 .. n + m
                           /\ rows' = [i \in 1 .. n + m |-> rows'[i]]
                           /\ \A i \in 1 .. n : rows'[i] = rows[i]
                           /\ \A i \in 1 .. m : rows'[n + i] = ins[i]
  <1>1. PICK n \in Nat : DOMAIN rows = 1 .. n
    BY DEF RowsInOrder
  <1>2. Cardinality(DOMAIN rows) = n
    BY <1>1, FS_Interval
  <1>3. DOMAIN rows \cup NextIds(ins) = 1 .. n + m
    BY <1>1, <1>2 DEF NextIds
  <1>4. rows' = [i \in 1 .. n + m |-> IF i \in 1 .. n THEN rows[i] ELSE ins[i - n]]
    BY <1>1, <1>2, <1>3 DEF Added
  <1>5. /\ DOMAIN rows' = 1 .. n + m
        /\ rows' = [i \in 1 .. n + m |-> rows'[i]]
        /\ \A i \in 1 .. n : rows'[i] = rows[i]
    BY <1>4
  <1>6. ASSUME NEW i \in 1 .. m PROVE rows'[n + i] = ins[i]
    <2>1. n + i \in 1 .. n + m /\ n + i \notin 1 .. n /\ (n + i) - n = i
      OBVIOUS
    <2> QED BY <1>4, <2>1
  <1>7. RowsRemain
    BY <1>1, <1>5 DEF RowsRemain
  <1> QED BY <1>1, <1>5, <1>6, <1>7

LEMMA LogAppended ==
  ASSUME LogsInOrder, NEW e, logs' = Append(logs, e)
  PROVE  /\ Len(logs) \in Nat /\ DOMAIN logs = 1 .. Len(logs)
         /\ Len(logs') = Len(logs) + 1 /\ DOMAIN logs' = 1 .. Len(logs) + 1 /\ logs' = [l \in DOMAIN logs' |-> logs'[l]]
         /\ \A l \in DOMAIN logs : logs'[l] = logs[l]
         /\ logs'[Len(logs) + 1] = e
  <1> DEFINE S == {logs[l] : l \in DOMAIN logs} \cup {e}
             t == Append(logs, e)
  <1>1. logs \in [1 .. Len(logs) -> S] /\ Len(logs) \in Nat /\ e \in S /\ DOMAIN logs = 1 .. Len(logs)
    BY DEF LogsInOrder
  <1> HIDE DEF S
  <1>2. logs \in Seq(S)
    BY <1>1
  <1>3. /\ t \in Seq(S)
        /\ Len(t) = Len(logs) + 1
        /\ \A i \in 1 .. Len(logs) : t[i] = logs[i]
        /\ t[Len(logs) + 1] = e
    BY <1>1, <1>2, AppendProperties
  <1> HIDE DEF t
  <1>4. DOMAIN t = 1 .. Len(logs) + 1 /\ t = [l \in DOMAIN t |-> t[l]]
    BY <1>3
  <1>5. logs' = t
    BY DEF t
  <1> QED BY <1>1, <1>3, <1>4, <1>5

\* y is row x as log n put it into account a.
NewFrom(y, x, a, n) == IsRow(y) /\ y.acct = a /\ y.hash = x.hash /\ y.hash[1] = a /\ y.log = n /\ y.live = TRUE

\* New rows and their log.
LEMMA LogWithRows ==
  ASSUME RowsInOrder, LogsInOrder, NEW e, NEW S, NEW a \in Accounts, Incoming(S, a), e.acct = a,
         e = [acct |-> e.acct, file |-> e.file, op |-> e.op, status |-> e.status,
              rows |-> e.rows, imported |-> e.imported, dups |-> e.dups],
         e.imported = Cardinality(S),
         e.status = "completed" => e.imported = e.rows - e.dups,
         e.status = "completed" => \A i \in DOMAIN EntriesOf(e) :
                                     InAccount(a, TransactionHash(a, EntriesOf(e)[i]))
                                     \/ \E x \in S : x.hash = TransactionHash(a, EntriesOf(e)[i]),
         logs' = Append(logs, e), rows' = Added(Logged(S, Len(logs) + 1))
  PROVE  RowsInOrder' /\ LogsInOrder' /\ RowsRemain
  <1>0. PICK L : L = Len(logs) + 1
    OBVIOUS
  <1>1. PICK ins : ins = Logged(S, L)
    OBVIOUS
  <1>2. PICK m : m = Cardinality(S)
    OBVIOUS
  <1>3. IsFiniteSet(S)
    BY DEF Incoming
  <1>4. /\ L \in Nat /\ L > 0 /\ DOMAIN logs = 1 .. L - 1 /\ Len(logs) = L - 1
        /\ Len(logs') = L /\ DOMAIN logs' = 1 .. L /\ logs' = [l \in DOMAIN logs' |-> logs'[l]]
        /\ \A l \in DOMAIN logs : logs'[l] = logs[l]
        /\ logs'[L] = e
    BY <1>0, LogAppended
  <1>5. /\ Len(ins) = m /\ m \in Nat /\ DOMAIN ins = 1 .. m
        /\ \A i \in 1 .. m : \E x \in S : ins[i] = [x EXCEPT !.log = L]
        /\ \A x \in S : \E i \in 1 .. m : ins[i] = [x EXCEPT !.log = L]
    <2>1. InOrder(Logged(S, L), Cardinality(S), S, L)
      BY ONLY <1>3, LoggedRows
    <2>2. InOrder(ins, m, S, L)
      BY ONLY <1>1, <1>2, <2>1
    <2> QED BY ONLY <2>2 DEF InOrder
  <1>6. ASSUME NEW x \in S
        PROVE  NewFrom([x EXCEPT !.log = L], x, a, L)
    <2>1. IsRow(x) /\ x.acct = a /\ x.hash[1] = a /\ x.live = TRUE
      BY DEF Incoming
    <2>2. PICK y : y = [x EXCEPT !.log = L]
      OBVIOUS
    <2>3. IsRow(y) /\ y.acct = x.acct /\ y.hash = x.hash /\ y.log = L /\ y.live = x.live
      BY ONLY <2>1, <2>2, WithLog
    <2>4. NewFrom(y, x, a, L)
      BY ONLY <2>1, <2>3 DEF NewFrom
    <2> QED BY ONLY <2>2, <2>4
  <1>7. rows' = Added(ins)
    BY <1>0, <1>1
  <1>8. RowsRemain
    BY <1>5, <1>7, AddedRows
  <1>9. PICK n \in Nat : /\ DOMAIN rows = 1 .. n /\ DOMAIN rows' = 1 .. n + m
                         /\ rows' = [i \in 1 .. n + m |-> rows'[i]]
                         /\ \A i \in 1 .. n : rows'[i] = rows[i]
                         /\ \A i \in 1 .. m : rows'[n + i] = ins[i]
    BY ONLY RowsInOrder, <1>5, <1>7, AddedRows
  <1>10. \A j \in 1 .. n + m : j \in 1 .. n \/ j \in n + 1 .. n + m
    BY <1>5
  <1>11. ASSUME NEW j \in n + 1 .. n + m
         PROVE  /\ \E x \in S : NewFrom(rows'[j], x, a, L)
                /\ j \in 1 .. n + m
    <2>1. j - n \in 1 .. m /\ n + (j - n) = j /\ j \in 1 .. n + m
      BY <1>5
    <2>2. rows'[j] = ins[j - n]
      BY <1>9, <2>1
    <2> QED BY <1>5, <1>6, <2>1, <2>2
  <1>12. ASSUME NEW j \in n + 1 .. n + m PROVE rows'[j].log = L
    BY <1>11 DEF NewFrom
  <1>13. ASSUME NEW x \in S PROVE InAccount(a, x.hash)'
    <2>1. PICK i \in 1 .. m : ins[i] = [x EXCEPT !.log = L]
      BY <1>5
    <2>2. rows'[n + i].acct = a /\ rows'[n + i].hash = x.hash
      <3>1. NewFrom(rows'[n + i], x, a, L)
        BY <1>6, <1>9, <2>1
      <3> QED BY <3>1 DEF NewFrom
    <2>3. n + i \in DOMAIN rows'
      BY <1>5, <1>9
    <2> QED BY <2>2, <2>3 DEF InAccount
  <1>14. \A i \in 1 .. n : RowRight(rows[i], L - 1) /\ rows[i].log # L
    BY <1>4, <1>9 DEF RowsInOrder, RowRight
  <1>15. RowsInOrder'
    <2>1. DOMAIN rows' = 1 .. n + m /\ n + m \in Nat /\ rows' = [i \in DOMAIN rows' |-> rows'[i]]
      BY <1>5, <1>9
    <2>2. ASSUME NEW i \in DOMAIN rows', NEW x, x = rows'[i] PROVE RowRight(x, L)
      <3>1. CASE i \in 1 .. n
        BY <1>4, <1>9, <1>14, <2>2, <3>1 DEF RowRight
      <3>2. CASE i \in n + 1 .. n + m
        <4>1. PICK y \in S : NewFrom(x, y, a, L)
          BY <1>11, <2>2, <3>2
        <4>2. a # "gone"
          BY LedgerAssumption
        <4>3. IsRow(x) /\ x.acct = a /\ x.hash[1] = a /\ x.log = L /\ x.live = TRUE
          BY <4>1 DEF NewFrom
        <4>4. L \in 0 .. L
          BY <1>4
        <4> QED BY ONLY <4>2, <4>3, <4>4, a \in Accounts DEF RowRight
      <3> QED BY <1>10, <2>1, <2>2, <3>1, <3>2
    <2> QED BY <1>4, <2>1, <2>2 DEF RowsInOrder
  <1>16. ASSUME NEW l \in 1 .. L PROVE Cardinality(Carrying(l))' = logs'[l].imported
    <2>1. CASE l \in 1 .. L - 1
      <3>1. \A j \in n + 1 .. n + m : rows'[j].log # l
        BY <1>4, <1>12, <2>1
      <3>2. Carrying(l)' = Carrying(l)
        <4>1. \A j \in DOMAIN rows' : rows'[j].log = l => j \in DOMAIN rows /\ rows[j].log = l
          BY <1>9, <1>10, <3>1
        <4>2. \A j \in DOMAIN rows : rows[j].log = l => j \in DOMAIN rows' /\ rows'[j].log = l
          BY <1>5, <1>9
        <4> QED BY <4>1, <4>2 DEF Carrying
      <3>3. Cardinality(Carrying(l)) = logs[l].imported
        BY <1>4, <2>1 DEF LogsInOrder
      <3> QED BY <1>4, <2>1, <3>2, <3>3
    <2>2. CASE l = L
      <3>1. \A j \in 1 .. n : rows'[j].log # L
        BY <1>9, <1>14
      <3>2. Carrying(l)' = n + 1 .. n + m
        BY <1>5, <1>9, <1>10, <1>11, <1>12, <2>2, <3>1 DEF Carrying
      <3>3. Cardinality(n + 1 .. n + m) = m
        <4>1. n + 1 \in Int /\ n + m \in Int
          BY <1>5
        <4>2. Cardinality(n + 1 .. n + m) = IF n + 1 > n + m THEN 0 ELSE (n + m) - (n + 1) + 1
          BY <4>1, FS_Interval
        <4> QED BY <1>5, <4>2
      <3> QED BY <1>2, <1>4, <2>2, <3>2, <3>3
    <2> QED BY <1>4, <2>1, <2>2
  <1>17. ASSUME NEW b \in Accounts, NEW h, InAccount(b, h) PROVE InAccount(b, h)'
    BY <1>5, <1>9, <1>17 DEF InAccount
  <1>18. ASSUME NEW l \in 1 .. L PROVE LogRight(logs[l])'
    <2>1. CASE l \in 1 .. L - 1
      <3>1. PICK g : g = logs[l]
        OBVIOUS
      <3>2. LogRight(g)
        BY <1>4, <2>1, <3>1 DEF LogsInOrder
      <3>3. LogRight(g)'
        BY <1>17, <3>2 DEF LogRight
      <3>4. logs'[l] = g
        BY <1>4, <2>1, <3>1
      <3> QED BY <3>3, <3>4
    <2>2. CASE l = L
      <3>1. ASSUME e.status = "completed", NEW i \in DOMAIN EntriesOf(e)
            PROVE  InAccount(e.acct, TransactionHash(e.acct, EntriesOf(e)[i]))'
        <4>1. CASE InAccount(a, TransactionHash(a, EntriesOf(e)[i]))
          BY <1>17, <4>1
        <4>2. CASE \E x \in S : x.hash = TransactionHash(a, EntriesOf(e)[i])
          BY <1>13, <4>2
        <4> QED BY <3>1, <4>1, <4>2
      <3>2. LogRight(e)'
        BY <3>1 DEF LogRight
      <3>3. logs'[l] = e
        BY <1>4, <2>2
      <3> QED BY <3>2, <3>3
    <2> QED BY <1>4, <2>1, <2>2
  <1>19. LogsInOrder'
    BY <1>4, <1>16, <1>18 DEF LogsInOrder
  <1> QED BY <1>8, <1>15, <1>19

-----------------------------------------------------------------------------
(* The steps of the ledger *)

LEMMA RowChanges ==
  ASSUME RowsInOrder, LogsInOrder, NEW i \in DOMAIN rows, NEW v \in BOOLEAN, v => rows[i].acct # "gone",
         rows' = [rows EXCEPT ![i].live = v], logs' = logs
  PROVE  RowsInOrder' /\ LogsInOrder' /\ RowsRemain
  <1>1. PICK x : x = rows[i]
    OBVIOUS
  <1>2. PICK y : y = [x EXCEPT !.live = v]
    OBVIOUS
  <1>3. RowRight(x, Len(logs))
    BY <1>1 DEF RowsInOrder
  <1>4. IsRow(y) /\ y.acct = x.acct /\ y.hash = x.hash /\ y.log = x.log /\ y.live = v
    BY ONLY <1>2, <1>3 DEF RowRight, IsRow
  <1>5. v => x.acct # "gone"
    BY <1>1
  <1>6. RowRight(y, Len(logs))
    BY ONLY <1>3, <1>4, <1>5, v \in BOOLEAN DEF RowRight
  <1>7. rows' = [j \in DOMAIN rows |-> IF j = i THEN y ELSE rows[j]]
    BY <1>1, <1>2 DEF RowsInOrder
  <1>8. \A j \in DOMAIN rows : /\ rows'[j].acct = rows[j].acct /\ rows'[j].hash = rows[j].hash /\ rows'[j].log = rows[j].log
    BY <1>1, <1>4, <1>7
  <1>9. \A j \in DOMAIN rows : RowRight(rows'[j], Len(logs))
    BY <1>6, <1>7 DEF RowsInOrder
  <1>10. DOMAIN rows' = DOMAIN rows /\ rows' = [j \in DOMAIN rows' |-> rows'[j]]
    BY <1>7
  <1>11. RowsInOrder'
    BY <1>9, <1>10 DEF RowsInOrder, RowRight
  <1>12. RowsRemain
    BY <1>8, <1>10 DEF RowsRemain
  <1>13. \A l : Carrying(l)' = Carrying(l)
    BY <1>8, <1>10 DEF Carrying
  <1>14. \A a, h : InAccount(a, h) => InAccount(a, h)'
    BY <1>8, <1>10 DEF InAccount
  <1>15. ASSUME NEW g, LogRight(g) PROVE LogRight(g)'
    BY <1>14, <1>15 DEF LogRight
  <1>16. LogsInOrder'
    <2>1. ASSUME NEW l \in DOMAIN logs PROVE LogRight(logs[l])'
      <3>1. PICK g : g = logs[l]
        OBVIOUS
      <3>2. LogRight(g)'
        BY <1>15, <3>1 DEF LogsInOrder
      <3> QED BY <3>1, <3>2
    <2> QED BY <1>13, <2>1 DEF LogsInOrder
  <1> QED BY <1>11, <1>12, <1>16

LEMMA AccountGoes ==
  ASSUME RowsInOrder, LogsInOrder, NEW a \in Accounts, ~Hold(a),
         rows' = [i \in DOMAIN rows |-> IF rows[i].acct = a THEN [rows[i] EXCEPT !.acct = "gone", !.live = FALSE] ELSE rows[i]],
         logs' = [l \in DOMAIN logs |-> IF logs[l].acct = a THEN [logs[l] EXCEPT !.acct = "null"] ELSE logs[l]]
  PROVE  RowsInOrder' /\ LogsInOrder' /\ RowsRemain
  <1>1. ASSUME NEW x, NEW y, RowRight(x, Len(logs)), y = [x EXCEPT !.acct = "gone", !.live = FALSE]
        PROVE  RowRight(y, Len(logs)) /\ y.acct = "gone" /\ y.hash = x.hash /\ y.log = x.log
    <2>1. IsRow(y) /\ y.acct = "gone" /\ y.hash = x.hash /\ y.log = x.log /\ y.live = FALSE
      BY ONLY <1>1 DEF RowRight, IsRow
    <2> QED BY ONLY <1>1, <2>1 DEF RowRight
  <1>2. ASSUME NEW i \in DOMAIN rows
        PROVE  /\ RowRight(rows'[i], Len(logs)) /\ rows'[i].hash = rows[i].hash /\ rows'[i].log = rows[i].log
               /\ rows'[i].acct = IF rows[i].acct = a THEN "gone" ELSE rows[i].acct
    <2>1. RowRight(rows[i], Len(logs))
      BY DEF RowsInOrder
    <2>2. CASE rows[i].acct = a
      <3>1. PICK x : x = rows[i]
        OBVIOUS
      <3>2. rows'[i] = [x EXCEPT !.acct = "gone", !.live = FALSE]
        BY <2>2, <3>1
      <3>3. RowRight(rows'[i], Len(logs)) /\ rows'[i].acct = "gone" /\ rows'[i].hash = x.hash /\ rows'[i].log = x.log
        BY <1>1, <2>1, <3>1, <3>2
      <3> QED BY <2>2, <3>1, <3>3
    <2>3. CASE rows[i].acct # a
      BY <2>1, <2>3
    <2> QED BY <2>2, <2>3
  <1>3. DOMAIN rows' = DOMAIN rows /\ rows' = [i \in DOMAIN rows' |-> rows'[i]]
    OBVIOUS
  <1>4. DOMAIN logs' = 1 .. Len(logs) /\ logs' = [l \in DOMAIN logs' |-> logs'[l]] /\ Len(logs) \in Nat /\ DOMAIN logs = 1 .. Len(logs)
    BY DEF LogsInOrder
  <1>5. Len(logs') = Len(logs)
    BY <1>4, FunctionIsList
  <1>6. RowsInOrder'
    <2>1. \A i \in DOMAIN rows' : RowRight(rows'[i], Len(logs'))
      BY <1>2, <1>3, <1>5
    <2> QED BY <1>3, <2>1 DEF RowsInOrder, RowRight
  <1>7. RowsRemain
    BY <1>2, <1>3 DEF RowsRemain
  <1>8. \A l : Carrying(l)' = Carrying(l)
    BY <1>2, <1>3 DEF Carrying
  <1>9. \A b, h : b # a /\ InAccount(b, h) => InAccount(b, h)'
    BY <1>2, <1>3 DEF InAccount
  <1>10. ASSUME NEW g, LogRight(g), g.acct # a PROVE LogRight(g)'
    BY <1>9, <1>10 DEF LogRight
  <1>11. ASSUME NEW g, LogRight(g), NEW k, k = [g EXCEPT !.acct = "null"]
         PROVE  LogRight(k)' /\ k.imported = g.imported
    <2>1. g = [acct |-> g.acct, file |-> g.file, op |-> g.op, status |-> g.status, rows |-> g.rows, imported |-> g.imported, dups |-> g.dups]
      BY <1>11 DEF LogRight
    <2>2. k = [acct |-> "null", file |-> g.file, op |-> g.op, status |-> g.status, rows |-> g.rows, imported |-> g.imported, dups |-> g.dups]
      BY ONLY <1>11, <2>1
    <2>3. k = [acct |-> k.acct, file |-> k.file, op |-> k.op, status |-> k.status, rows |-> k.rows, imported |-> k.imported, dups |-> k.dups]
      BY ONLY <2>2
    <2>4. k.acct = "null" /\ k.status = g.status /\ k.rows = g.rows /\ k.imported = g.imported /\ k.dups = g.dups
      BY ONLY <2>2
    <2> QED BY <1>11, <2>3, <2>4 DEF LogRight
  <1>12. ASSUME NEW l \in DOMAIN logs PROVE LogRight(logs[l])' /\ logs'[l].imported = logs[l].imported
    <2>1. PICK g : g = logs[l]
      OBVIOUS
    <2>2. LogRight(g)
      BY <2>1 DEF LogsInOrder
    <2>3. CASE g.acct # a
      <3>1. logs'[l] = g
        BY <2>1, <2>3
      <3> QED BY <1>10, <2>1, <2>2, <2>3, <3>1
    <2>4. CASE g.acct = a
      <3>1. PICK k : k = [g EXCEPT !.acct = "null"]
        OBVIOUS
      <3>2. logs'[l] = k
        BY <2>1, <2>4, <3>1
      <3> QED BY <1>11, <2>1, <2>2, <3>1, <3>2
    <2> QED BY <2>3, <2>4
  <1>13. LogsInOrder'
    BY <1>4, <1>5, <1>8, <1>12 DEF LogsInOrder
  <1> QED BY <1>6, <1>7, <1>13

\* Refusing a file logs that nothing came of it.
LEMMA FailureLogged ==
  ASSUME RowsInOrder, LogsInOrder, NEW e, NEW a \in Accounts, NEW f,
         e = [acct |-> a, file |-> f, op |-> "upload", status |-> "failed", rows |-> 0, imported |-> 0, dups |-> 0],
         logs' = Append(logs, e), rows' = rows
  PROVE  RowsInOrder' /\ LogsInOrder' /\ RowsRemain
  <1>1. PICK n : n = Len(logs)
    OBVIOUS
  <1>2. /\ n \in Nat /\ Len(logs) = n /\ DOMAIN logs = 1 .. n
        /\ Len(logs') = n + 1 /\ DOMAIN logs' = 1 .. n + 1 /\ logs' = [l \in DOMAIN logs' |-> logs'[l]]
        /\ \A l \in DOMAIN logs : logs'[l] = logs[l]
        /\ logs'[n + 1] = e
    BY <1>1, LogAppended
  <1>3. \A i \in DOMAIN rows : RowRight(rows[i], n)
    BY <1>2 DEF RowsInOrder
  <1>4. \A i \in DOMAIN rows : RowRight(rows[i], n + 1) /\ rows[i].log # n + 1
    BY <1>2, <1>3 DEF RowRight
  <1>5. RowsInOrder'
    BY <1>2, <1>4 DEF RowsInOrder
  <1>6. RowsRemain
    BY DEF RowsRemain
  <1>7. ASSUME NEW l \in 1 .. n + 1 PROVE LogRight(logs[l])' /\ Cardinality(Carrying(l))' = logs'[l].imported
    <2>1. CASE l \in 1 .. n
      <3>1. PICK g : g = logs[l]
        OBVIOUS
      <3>2. LogRight(g) /\ Cardinality(Carrying(l)) = g.imported
        BY <1>2, <2>1, <3>1 DEF LogsInOrder
      <3>3. LogRight(g)' /\ Cardinality(Carrying(l))' = g.imported
        BY <3>2 DEF LogRight, InAccount, Carrying
      <3>4. logs'[l] = g
        BY <1>2, <2>1, <3>1
      <3> QED BY <3>3, <3>4
    <2>2. CASE l = n + 1
      <3>1. Carrying(l)' = {}
        BY <1>4, <2>2 DEF Carrying
      <3>2. LogRight(e)' /\ e.imported = 0
        BY DEF LogRight
      <3>3. logs'[l] = e
        BY <1>2, <2>2
      <3> QED BY <3>1, <3>2, <3>3, FS_EmptySet
    <2> QED BY <1>2, <2>1, <2>2
  <1>8. LogsInOrder'
    BY <1>2, <1>7 DEF LogsInOrder
  <1> QED BY <1>5, <1>6, <1>8

LEMMA StartStep ==
  ASSUME LedgerInv, NEW r \in Requests, NEW q, Working(q)', StartRequest(r, q), UNCHANGED <<accounts, rows, logs, snaps>>
  PROVE  LedgerInv'
  <1>1. RowsInOrder' /\ LogsInOrder' /\ RowsRemain
    BY QuietBooks DEF LedgerInv
  <1>2. reqs' = [reqs EXCEPT ![r] = q]
    BY DEF StartRequest
  <1>3. RequestsInOrder'
    BY <1>1, <1>2, OthersWork DEF LedgerInv
  <1> QED BY <1>1, <1>3 DEF LedgerInv

LEMMA FailStep ==
  ASSUME LedgerInv, NEW r \in Requests, Finish(r), UNCHANGED <<rows, logs>>
  PROVE  LedgerInv'
  <1>1. RowsInOrder' /\ LogsInOrder' /\ RowsRemain
    BY QuietBooks DEF LedgerInv
  <1>2. RequestsInOrder'
    BY <1>1, OthersWorkOn DEF LedgerInv
  <1> QED BY <1>1, <1>2 DEF LedgerInv

\* A request that goes on without a commit.
LEMMA GoesOn ==
  ASSUME LedgerInv, NEW r \in Requests, NEW v, reqs' = [reqs EXCEPT ![r] = v], Working(v), UNCHANGED <<rows, logs>>
  PROVE  LedgerInv'
  <1>1. RowsInOrder' /\ LogsInOrder' /\ RowsRemain
    BY QuietBooks DEF LedgerInv
  <1>2. Working(v)'
    BY DEF Working, Recomputing, Confirming, Uploading, Loaded, InAccount
  <1>3. RequestsInOrder'
    BY <1>1, <1>2, OthersWork DEF LedgerInv
  <1> QED BY <1>1, <1>3 DEF LedgerInv

\* The statement of a file as far as the first chunk.
LEMMA NothingRead ==
  ASSUME NEW q, NEW a \in Accounts, NEW f \in Files, q.acct = a, q.file = f, q.left = Drafts(f), q.ins = {}, q.dups = 0
  PROVE  Confirming(q)
  <1>1. IsList(Drafts(f))
    BY ParsersList
  <1>2. SubSeq(Drafts(f), 0 + 1, Len(Drafts(f))) = Drafts(f) /\ 0 \in 0 .. Len(Drafts(f))
    BY <1>1, SubSeqFull DEF IsList
  <1>3. IsFiniteSet({}) /\ Cardinality({}) = 0
    BY FS_EmptySet
  <1>4. Incoming(q.ins, q.acct)
    BY <1>3 DEF Incoming
  <1> QED BY <1>2, <1>3, <1>4 DEF Confirming

LEMMA Begins ==
  ASSUME LedgerInv, NEW r \in Requests, NEW a \in Accounts,
         \/ \E force \in BOOLEAN : BeginDeleteAccount(r, a, force)
         \/ \E f \in Files, create \in BOOLEAN : BeginConfirm(r, a, f, create)
         \/ \E f \in Files : BeginUpload(r, a, f)
         \/ \E d \in Manual : BeginCreate(r, a, d)
  PROVE  LedgerInv'
  <1>1. ASSUME NEW force \in BOOLEAN, BeginDeleteAccount(r, a, force) PROVE LedgerInv'
    <2>1. PICK q : q = [NoRequest EXCEPT !.op = "delete", !.acct = a, !.gen = accounts[a].gen, !.at = clock + 1,
                                         !.left = IF \E i \in DOMAIN rows : rows[i].acct = a THEN <<"rows">> ELSE <<>>]
      OBVIOUS
    <2>2. q.op = "delete" /\ q.acct = a /\ DOMAIN q = DOMAIN NoRequest
      BY <2>1 DEF NoRequest
    <2>3. Working(q)'
      BY <2>2 DEF Working
    <2>4. StartRequest(r, q) /\ UNCHANGED <<accounts, rows, logs, snaps>>
      BY <1>1, <2>1 DEF BeginDeleteAccount
    <2> QED BY <2>3, <2>4, StartStep
  <1>2. ASSUME NEW f \in Files, NEW create \in BOOLEAN, BeginConfirm(r, a, f, create) PROVE LedgerInv'
    <2>1. PICK q : q = [NoRequest EXCEPT !.op = "confirm", !.acct = a, !.gen = accounts[a].gen, !.file = f, !.at = clock + 1,
                                         !.phase = "found", !.creates = ~accounts[a].there, !.left = Drafts(f)]
      OBVIOUS
    <2>2. q.op = "confirm" /\ q.acct = a /\ q.file = f /\ q.left = Drafts(f) /\ q.ins = {} /\ q.dups = 0
          /\ DOMAIN q = DOMAIN NoRequest
      BY <2>1 DEF NoRequest
    <2>3. Confirming(q)
      BY <2>2, NothingRead
    <2>4. StartRequest(r, q) /\ UNCHANGED <<accounts, rows, logs, snaps>>
      BY <1>2, <2>1 DEF BeginConfirm
    <2>5. Working(q)'
      BY <2>2, <2>3, <2>4 DEF Working, Confirming, Loaded, InAccount
    <2> QED BY <2>4, <2>5, StartStep
  <1>3. ASSUME NEW f \in Files, BeginUpload(r, a, f) PROVE LedgerInv'
    <2>1. PICK q : q = [NoRequest EXCEPT !.op = "upload", !.acct = a, !.gen = accounts[a].gen, !.file = f, !.at = clock + 1, !.phase = "found"]
      OBVIOUS
    <2>2. q.op = "upload" /\ q.acct = a /\ q.file = f /\ q.left = <<>> /\ q.plan = {} /\ q.dups = 0 /\ DOMAIN q = DOMAIN NoRequest
      BY <2>1 DEF NoRequest
    <2>3. Working(q)'
      BY <2>2, FS_EmptySet DEF Working, Uploading, Incoming
    <2>4. StartRequest(r, q) /\ UNCHANGED <<accounts, rows, logs, snaps>>
      BY <1>3, <2>1 DEF BeginUpload
    <2> QED BY <2>3, <2>4, StartStep
  <1>4. ASSUME NEW d \in Manual, BeginCreate(r, a, d) PROVE LedgerInv'
    <2>1. PICK x : x = NewRow(a, d, 0, clock + 1)
      OBVIOUS
    <2>2. IsRow(x) /\ x.acct = a /\ x.hash[1] = a /\ x.live = TRUE /\ x.log = 0
      BY <2>1 DEF NewRow, TransactionHash, IsRow
    <2>3. PICK q : q = [NoRequest EXCEPT !.op = "create", !.acct = a, !.gen = accounts[a].gen, !.at = clock + 1, !.plan = {x}]
      OBVIOUS
    <2>4. q.op = "create" /\ q.acct = a /\ q.plan = {x} /\ DOMAIN q = DOMAIN NoRequest
      BY <2>3 DEF NoRequest
    <2>5. Incoming({x}, a)
      BY <2>2, FS_Singleton DEF Incoming
    <2>6. Working(q)'
      BY <2>2, <2>4, <2>5 DEF Working
    <2>7. StartRequest(r, q) /\ UNCHANGED <<accounts, rows, logs, snaps>>
      BY <1>4, <2>1, <2>3 DEF BeginCreate
    <2> QED BY <2>6, <2>7, StartStep
  <1> QED BY <1>1, <1>2, <1>3, <1>4

LEMMA HashParts ==
  ASSUME NEW a, NEW d
  PROVE  TransactionHash(a, d)[1] = a
  BY DEF TransactionHash

\* Rows made of entries of a list.
RowsOf(a, s, I, t) == {NewRow(a, s[i], 0, t) : i \in I}

LEMMA NewRowsCome ==
  ASSUME NEW a, NEW s, NEW I, IsFiniteSet(I), NEW t
  PROVE  /\ Incoming(RowsOf(a, s, I, t), a)
         /\ \A i \in I : \E x \in RowsOf(a, s, I, t) : x.hash = TransactionHash(a, s[i])
         /\ \A x \in RowsOf(a, s, I, t) : \E i \in I : x.hash = TransactionHash(a, s[i])
  <1> DEFINE S == {NewRow(a, s[i], 0, t) : i \in I}
             f == [i \in I |-> NewRow(a, s[i], 0, t)]
  <1>1. f \in Surjection(I, S)
    BY DEF Surjection
  <1> HIDE DEF f
  <1>2. IsFiniteSet(S)
    BY ONLY <1>1, IsFiniteSet(I), FS_Surjection
  <1>3. \A i : LET x == NewRow(a, s[i], 0, t)
               IN IsRow(x) /\ x.acct = a /\ x.hash = TransactionHash(a, s[i]) /\ x.hash[1] = a /\ x.live = TRUE
    BY DEF NewRow, IsRow, TransactionHash
  <1>4. \A x \in S : IsRow(x) /\ x.acct = a /\ x.hash[1] = a /\ x.live = TRUE
    BY <1>3
  <1>5. Incoming(S, a)
    BY <1>2, <1>4 DEF Incoming
  <1>6. \A i \in I : NewRow(a, s[i], 0, t) \in S
    OBVIOUS
  <1>7. \A i \in I : \E x \in S : x.hash = TransactionHash(a, s[i])
    BY <1>3, <1>6
  <1>8. \A x \in S : \E i \in I : x.hash = TransactionHash(a, s[i])
    BY <1>3
  <1> QED BY <1>5, <1>7, <1>8 DEF RowsOf

\* Of the entries of s that are not seen, the first of each hash is new.
FirstOnes(a, s, seen) == {i \in DOMAIN s : /\ TransactionHash(a, s[i]) \notin seen
                                           /\ \A j \in 1 .. i - 1 : TransactionHash(a, s[j]) # TransactionHash(a, s[i])}

LEMMA SeenOrFirst ==
  ASSUME NEW a, NEW s, NEW seen, NEW n \in Nat, DOMAIN s = 1 .. n, NEW i \in 1 .. n
  PROVE  \/ TransactionHash(a, s[i]) \in seen
         \/ \E j \in FirstOnes(a, s, seen) : TransactionHash(a, s[j]) = TransactionHash(a, s[i])
  <1> DEFINE S == {k \in 1 .. n : TransactionHash(a, s[k]) = TransactionHash(a, s[i])}
  <1>1. S \in SUBSET Nat /\ S # {}
    OBVIOUS
  <1> HIDE DEF S
  <1>2. PICK j \in S : \A k \in S : j <= k
    BY <1>1, LeastNat
  <1>3. j \in 1 .. n /\ TransactionHash(a, s[j]) = TransactionHash(a, s[i])
    BY <1>2 DEF S
  <1>4. ASSUME NEW k \in 1 .. j - 1 PROVE TransactionHash(a, s[k]) # TransactionHash(a, s[j])
    <2>1. k \in 1 .. n /\ ~ (j <= k)
      BY <1>3
    <2> QED BY <1>2, <1>3, <2>1 DEF S
  <1> QED BY <1>3, <1>4 DEF FirstOnes

LEMMA FirstAreFinite ==
  ASSUME NEW a, NEW s, NEW seen, NEW n \in Nat, DOMAIN s = 1 .. n
  PROVE  IsFiniteSet(FirstOnes(a, s, seen))
  <1>1. IsFiniteSet(1 .. n)
    BY FS_Interval
  <1>2. FirstOnes(a, s, seen) \in SUBSET (1 .. n)
    BY DEF FirstOnes
  <1> QED BY ONLY <1>1, <1>2, FS_Subset

\* A live row is in the account of its hash.
LEMMA LiveHashIsInAccount ==
  ASSUME RowsInOrder, NEW h \in LiveHashes, h[1] # "gone"
  PROVE  InAccount(h[1], h)
  <1>1. PICK i \in DOMAIN rows : rows[i].live /\ rows[i].hash = h
    BY DEF LiveHashes
  <1>2. RowRight(rows[i], Len(logs))
    BY DEF RowsInOrder
  <1>3. rows[i].acct = h[1]
    BY <1>1, <1>2 DEF RowRight
  <1> QED BY <1>1, <1>3 DEF InAccount

\* The next chunk of the file.
LEMMA ChunkProperties ==
  ASSUME NEW ds, IsList(ds), NEW k \in 0 .. Len(ds), NEW left, left = SubSeq(ds, k + 1, Len(ds)), left # <<>>
  PROVE  \E m \in 1 .. Len(ds) - k :
           /\ DOMAIN Chunk(left) = 1 .. m /\ Len(Chunk(left)) = m
           /\ \A i \in 1 .. m : Chunk(left)[i] = ds[k + i]
           /\ Rest(left) = SubSeq(ds, k + m + 1, Len(ds))
  <1> DEFINE S == {ds[i] : i \in DOMAIN ds}
             n == Len(ds)
  <1>1. ds \in Seq(S) /\ n \in Nat /\ n = Len(ds) /\ DOMAIN ds = 1 .. n /\ \A i \in 1 .. n : ds[i] \in S
    BY DEF IsList
  <1> HIDE DEF S, n
  <1>2. k \in Nat /\ k <= n
    BY <1>1 DEF n
  <1>3. left = SubSeq(ds, k + 1, n)
    BY DEF n
  <1>4. k < n
    BY <1>1, <1>2, <1>3, SubSeqEmpty
  <1>5. /\ left \in Seq(S) /\ Len(left) = n - k
        /\ \A i \in 1 .. n - k : left[i] = ds[k + i]
    <2>1. \A i \in k + 1 .. n : ds[i] \in S
      BY <1>1, <1>2
    <2>2. k + 1 \in Int /\ n \in Int
      BY <1>1, <1>2
    <2>3. /\ SubSeq(ds, k + 1, n) \in Seq(S)
          /\ Len(SubSeq(ds, k + 1, n)) = IF k + 1 <= n THEN n - (k + 1) + 1 ELSE 0
          /\ \A i \in 1 .. n - (k + 1) + 1 : SubSeq(ds, k + 1, n)[i] = ds[(k + 1) + i - 1]
      BY ONLY <2>1, <2>2, SubSeqProperties
    <2> QED BY <1>1, <1>2, <1>3, <1>4, <2>3
  <1> DEFINE m == IF n - k < ChunkSize THEN n - k ELSE ChunkSize
  <1>6. m \in 1 .. n - k
    BY <1>1, <1>2, <1>4, LedgerAssumption
  <1>7. Chunk(left) = SubSeq(left, 1, m)
    BY <1>5 DEF Chunk
  <1> HIDE DEF m
  <1>8. /\ Chunk(left) \in Seq(S) /\ Len(Chunk(left)) = m
        /\ \A i \in 1 .. m : Chunk(left)[i] = left[i]
    <2>1. \A i \in 1 .. m : left[i] \in S
      BY <1>5, <1>6, <1>1, <1>2
    <2>2. 1 \in Int /\ m \in Int
      BY <1>6, <1>1, <1>2
    <2>3. /\ SubSeq(left, 1, m) \in Seq(S)
          /\ Len(SubSeq(left, 1, m)) = IF 1 <= m THEN m - 1 + 1 ELSE 0
          /\ \A i \in 1 .. m - 1 + 1 : SubSeq(left, 1, m)[i] = left[1 + i - 1]
      BY ONLY <2>1, <2>2, SubSeqProperties
    <2>4. 1 <= m /\ m - 1 + 1 = m /\ \A i \in 1 .. m : 1 + i - 1 = i /\ i \in 1 .. m - 1 + 1
      BY <1>1, <1>2, <1>6
    <2> QED BY ONLY <1>7, <2>3, <2>4
  <1>9. DOMAIN Chunk(left) = 1 .. m
    BY <1>8
  <1>10. \A i \in 1 .. m : Chunk(left)[i] = ds[k + i]
    BY <1>1, <1>2, <1>5, <1>6, <1>8
  <1>11. Rest(left) = SubSeq(ds, k + m + 1, n)
    <2>1. Rest(left) = SubSeq(left, m + 1, n - k)
      BY <1>5, <1>8 DEF Rest
    <2>2. CASE m = n - k
      <3>1. SubSeq(left, m + 1, n - k) = <<>>
        BY <1>1, <1>2, <2>2, SubSeqEmpty
      <3>2. SubSeq(ds, k + m + 1, n) = <<>>
        BY <1>1, <1>2, <2>2, SubSeqEmpty
      <3> QED BY <2>1, <3>1, <3>2
    <2>3. CASE m # n - k
      <3>1. /\ k + 1 \in 1 .. Len(ds) /\ n \in 1 .. Len(ds)
            /\ m + 1 \in 1 .. n - (k + 1) + 1 /\ n - k \in 1 .. n - (k + 1) + 1
        BY <1>1, <1>2, <1>4, <1>6, <2>3
      <3>2. ASSUME NEW i \in 1 .. Len(ds), NEW j \in 1 .. Len(ds), NEW u \in 1 .. j - i + 1, NEW v \in 1 .. j - i + 1
            PROVE  SubSeq(SubSeq(ds, i, j), u, v) = SubSeq(ds, i + u - 1, i + v - 1)
        BY ONLY <1>1, <3>2, SubSeqOfSubSeq
      <3>4. SubSeq(SubSeq(ds, k + 1, n), m + 1, n - k) = SubSeq(ds, (k + 1) + (m + 1) - 1, (k + 1) + (n - k) - 1)
        BY ONLY <3>1, <3>2
      <3>3. (k + 1) + (m + 1) - 1 = k + m + 1 /\ (k + 1) + (n - k) - 1 = n
        BY <1>1, <1>2, <1>6
      <3> QED BY <1>3, <2>1, <3>4, <3>3
    <2> QED BY <2>2, <2>3
  <1> QED BY <1>6, <1>8, <1>9, <1>10, <1>11 DEF n

\* The fields of a request.
LEMMA RequestFields ==
  ASSUME NEW q, DOMAIN q = DOMAIN NoRequest
  PROVE  {"op", "acct", "gen", "at", "phase", "creates", "file", "left", "ins", "dups", "plan", "from", "to", "todo", "dates", "put"}
           \subseteq DOMAIN q
  BY DEF NoRequest

\* What the rows of the first ones are to a request: S of list s, with n entries.
NewOnes(S, a, s, n, seen) ==
  /\ Incoming(S, a)
  /\ \A x \in S : x.hash \notin seen
  /\ \A i \in 1 .. n : TransactionHash(a, s[i]) \in seen \/ \E x \in S : x.hash = TransactionHash(a, s[i])

LEMMA FirstOnesAreNew ==
  ASSUME NEW a, NEW s, NEW n \in Nat, DOMAIN s = 1 .. n, NEW seen, NEW t
  PROVE  NewOnes(RowsOf(a, s, FirstOnes(a, s, seen), t), a, s, n, seen)
  <1>1. PICK I : I = FirstOnes(a, s, seen)
    OBVIOUS
  <1>2. IsFiniteSet(I)
    BY <1>1, FirstAreFinite
  <1>3. PICK S : S = RowsOf(a, s, I, t)
    OBVIOUS
  <1>4. /\ Incoming(S, a)
        /\ \A i \in I : \E x \in S : x.hash = TransactionHash(a, s[i])
        /\ \A x \in S : \E i \in I : x.hash = TransactionHash(a, s[i])
    BY ONLY <1>2, <1>3, NewRowsCome
  <1>5. \A i \in I : TransactionHash(a, s[i]) \notin seen
    BY <1>1 DEF FirstOnes
  <1>6. ASSUME NEW i \in 1 .. n
        PROVE  TransactionHash(a, s[i]) \in seen \/ \E x \in S : x.hash = TransactionHash(a, s[i])
    <2>1. TransactionHash(a, s[i]) \in seen \/ \E j \in I : TransactionHash(a, s[j]) = TransactionHash(a, s[i])
      BY <1>1, SeenOrFirst
    <2> QED BY <1>4, <2>1
  <1>7. NewOnes(S, a, s, n, seen)
    BY ONLY <1>4, <1>5, <1>6 DEF NewOnes
  <1> QED BY ONLY <1>1, <1>3, <1>7

LEMMA ChunkStep ==
  ASSUME LedgerInv, NEW r \in Requests, InsertChunk(r)
  PROVE  LedgerInv'
  <1>1. PICK q : q = reqs[r]
    OBVIOUS
  <1> DEFINE a == q.acct
             ds == Drafts(q.file)
             chunk == Chunk(q.left)
             held == LiveHashes \cup {x.hash : x \in q.ins}
             fresh == {NewRow(a, chunk[i], 0, q.at) : i \in FirstOnes(a, chunk, held)}
  <1>2. Working(q) /\ q.op = "confirm" /\ q.phase = "open" /\ q.left # <<>> /\ Confirming(q)
    BY <1>1 DEF InsertChunk, LedgerInv, RequestsInOrder, Working
  <1>3. fresh = FreshRows(r, chunk)
    BY <1>1 DEF FreshRows, FirstOnes
  <1>4. PICK v : v = [q EXCEPT !.left = Rest(q.left), !.ins = @ \cup fresh, !.dups = @ + Len(chunk) - Cardinality(fresh)]
    OBVIOUS
  <1>5. reqs' = [reqs EXCEPT ![r] = v] /\ UNCHANGED <<rows, logs>>
    BY <1>1, <1>3, <1>4 DEF InsertChunk, LedgerInv, RequestsInOrder
  <1> HIDE DEF fresh, chunk
  <1>6. {"op", "acct", "gen", "at", "phase", "creates", "file", "left", "ins", "dups", "plan", "from", "to", "todo", "dates", "put"} \subseteq DOMAIN q
    BY <1>2, RequestFields DEF Working
  <1>7. /\ v.op = q.op /\ v.acct = q.acct /\ v.file = q.file /\ v.phase = q.phase /\ DOMAIN v = DOMAIN q
        /\ v.left = Rest(q.left) /\ v.ins = q.ins \cup fresh /\ v.dups = q.dups + Len(chunk) - Cardinality(fresh)
    BY ONLY <1>4, <1>6
  <1>8. a \in Accounts /\ q.file \in Files /\ q.dups \in Int /\ Incoming(q.ins, a)
    BY <1>2 DEF Confirming
  <1>9. IsList(ds)
    BY <1>8, ParsersList
  <1>10. PICK k \in 0 .. Len(ds) : /\ q.left = SubSeq(ds, k + 1, Len(ds))
                                   /\ Cardinality(q.ins) + q.dups = k
                                   /\ \A i \in 1 .. k : Loaded(q, q.ins, ds[i])
    BY <1>2 DEF Confirming
  <1>11. PICK m \in 1 .. Len(ds) - k :
           /\ DOMAIN chunk = 1 .. m /\ Len(chunk) = m
           /\ \A i \in 1 .. m : chunk[i] = ds[k + i]
           /\ Rest(q.left) = SubSeq(ds, k + m + 1, Len(ds))
    <2>1. PICK left : left = q.left
      OBVIOUS
    <2>2. left = SubSeq(ds, k + 1, Len(ds)) /\ left # <<>>
      BY <1>2, <1>10, <2>1
    <2>3. PICK f : f = ds
      OBVIOUS
    <2>4. IsList(f) /\ k \in 0 .. Len(f) /\ left = SubSeq(f, k + 1, Len(f))
      BY <1>9, <2>2, <2>3
    <2>5. \E m \in 1 .. Len(f) - k :
           /\ DOMAIN Chunk(left) = 1 .. m /\ Len(Chunk(left)) = m
           /\ \A i \in 1 .. m : Chunk(left)[i] = f[k + i]
           /\ Rest(left) = SubSeq(f, k + m + 1, Len(f))
      BY ONLY <2>2, <2>4, ChunkProperties
    <2> QED BY <2>1, <2>3, <2>5 DEF chunk
  <1>12. Len(ds) \in Nat /\ k \in Nat /\ m \in Nat /\ k + m <= Len(ds) /\ k + m \in 0 .. Len(ds)
    BY <1>9, <1>10, <1>11 DEF IsList
  <1> HIDE DEF ds, a
  <1>13. NewOnes(fresh, a, chunk, m, held)
    <2>1. PICK s : s = chunk
      OBVIOUS
    <2>2. m \in Nat /\ DOMAIN s = 1 .. m
      BY ONLY <1>11, <1>12, <2>1
    <2>3. NewOnes(RowsOf(a, s, FirstOnes(a, s, held), q.at), a, s, m, held)
      BY ONLY <2>2, FirstOnesAreNew
    <2> QED BY ONLY <2>1, <2>3 DEF fresh, RowsOf
  <1>14. /\ Incoming(fresh, a)
         /\ \A x \in fresh : x.hash \notin held
         /\ \A i \in 1 .. m : TransactionHash(a, chunk[i]) \in held \/ \E x \in fresh : x.hash = TransactionHash(a, chunk[i])
    BY ONLY <1>13 DEF NewOnes
  <1>15. q.ins \cap fresh = {}
    BY <1>14
  <1>16. /\ IsFiniteSet(q.ins) /\ IsFiniteSet(fresh) /\ IsFiniteSet(q.ins \cup fresh)
         /\ Cardinality(q.ins) \in Nat /\ Cardinality(fresh) \in Nat
         /\ Cardinality(q.ins \cup fresh) = Cardinality(q.ins) + Cardinality(fresh)
    <2>1. IsFiniteSet(q.ins) /\ IsFiniteSet(fresh)
      BY <1>8, <1>14 DEF Incoming
    <2>2. Cardinality(q.ins) \in Nat /\ Cardinality(fresh) \in Nat
      BY <2>1, FS_CardinalityType
    <2>3. /\ IsFiniteSet(q.ins \cup fresh)
          /\ Cardinality(q.ins \cup fresh) = Cardinality(q.ins) + Cardinality(fresh) - Cardinality(q.ins \cap fresh)
      BY ONLY <2>1, FS_Union
    <2> QED BY <1>15, <2>1, <2>2, <2>3, FS_EmptySet
  <1>17. Incoming(v.ins, a)
    BY <1>7, <1>8, <1>14, <1>16 DEF Incoming
  <1>18. Cardinality(v.ins) + v.dups = k + m /\ v.dups \in Int
    <2>1. PICK c : c = Cardinality(q.ins)
      OBVIOUS
    <2>2. PICK u : u = Cardinality(fresh)
      OBVIOUS
    <2>3. Cardinality(v.ins) = c + u /\ c \in Nat /\ u \in Nat
      BY ONLY <1>7, <1>16, <2>1, <2>2
    <2>4. PICK w : w = q.dups
      OBVIOUS
    <2>5. v.dups = w + m - u /\ w \in Int
      BY ONLY <1>7, <1>8, <1>11, <2>2, <2>4
    <2>6. c + w = k
      BY ONLY <1>10, <2>1, <2>4
    <2> QED BY ONLY <1>12, <2>3, <2>5, <2>6
  <1>19. ASSUME NEW i \in 1 .. k + m PROVE Loaded(v, v.ins, ds[i])
    <2>1. CASE i \in 1 .. k
      BY <1>7, <1>10, <2>1 DEF Loaded
    <2>2. CASE i \in k + 1 .. k + m
      <3>1. i - k \in 1 .. m /\ chunk[i - k] = ds[i]
        BY <1>11, <1>12, <2>2
      <3>2. TransactionHash(a, ds[i]) \in held \/ \E x \in fresh : x.hash = TransactionHash(a, ds[i])
        <4>1. PICK j \in 1 .. m : chunk[j] = ds[i]
          BY ONLY <3>1
        <4> QED BY <1>14, <4>1
      <3>3. CASE \E x \in fresh : x.hash = TransactionHash(a, ds[i])
        BY <1>7, <3>3 DEF Loaded, a
      <3>4. CASE TransactionHash(a, ds[i]) \in {x.hash : x \in q.ins}
        BY <1>7, <3>4 DEF Loaded, a
      <3>5. CASE TransactionHash(a, ds[i]) \in LiveHashes
        <4>1. TransactionHash(a, ds[i])[1] = a /\ a # "gone"
          BY <1>8, HashParts, LedgerAssumption
        <4>2. InAccount(a, TransactionHash(a, ds[i]))
          BY <3>5, <4>1, LiveHashIsInAccount DEF LedgerInv
        <4> QED BY <1>7, <4>2 DEF Loaded, a
      <3> QED BY <3>2, <3>3, <3>4, <3>5
    <2> QED BY <1>12, <2>1, <2>2
  <1>20. Confirming(v)
    BY <1>2, <1>7, <1>8, <1>11, <1>12, <1>17, <1>18, <1>19 DEF Confirming, ds, a
  <1>21. Working(v)
    BY <1>2, <1>7, <1>20 DEF Working
  <1> QED BY <1>5, <1>21, GoesOn

LEMMA OpenStep ==
  ASSUME LedgerInv, NEW r \in Requests, OpenLog(r)
  PROVE  LedgerInv'
  <1>1. PICK q : q = reqs[r]
    OBVIOUS
  <1>2. Working(q) /\ q.phase = "found"
    BY <1>1 DEF OpenLog, LedgerInv, RequestsInOrder
  <1>3. CASE Fail(r)
    BY <1>3, FailStep DEF Fail
  <1>4. CASE reqs' = [reqs EXCEPT ![r].phase = "open"] /\ UNCHANGED <<rows, logs>>
    <2>1. PICK v : v = [q EXCEPT !.phase = "open"]
      OBVIOUS
    <2>2. reqs' = [reqs EXCEPT ![r] = v]
      BY <1>1, <1>4, <2>1 DEF LedgerInv, RequestsInOrder
    <2>3. {"op", "acct", "gen", "at", "phase", "creates", "file", "left", "ins", "dups", "plan", "from", "to", "todo", "dates", "put"} \subseteq DOMAIN q
      BY <1>2, RequestFields DEF Working
    <2>4. /\ v.op = q.op /\ v.acct = q.acct /\ v.file = q.file /\ v.left = q.left /\ v.ins = q.ins
          /\ v.dups = q.dups /\ v.plan = q.plan /\ v.phase = "open" /\ DOMAIN v = DOMAIN q
          /\ v.from = q.from /\ v.to = q.to /\ v.todo = q.todo /\ v.dates = q.dates /\ v.put = q.put
      BY ONLY <2>1, <2>3
    <2>5. \A S, d : Loaded(q, S, d) => Loaded(v, S, d)
      BY <2>4 DEF Loaded
    <2>6. ASSUME Confirming(q) PROVE Confirming(v)
      BY <1>2, <2>4, <2>5, <2>6 DEF Confirming
    <2>7. ASSUME Uploading(q) PROVE Uploading(v)
      BY <1>2, <2>4, <2>5, <2>7 DEF Uploading
    <2>8. Working(v)
      BY <1>2, <2>4, <2>6, <2>7 DEF Working, Recomputing
    <2> QED BY <1>4, <2>2, <2>8, GoesOn
  <1> QED BY <1>3, <1>4 DEF OpenLog

\* A request whose whole file is in commits its rows with their log.
LEMMA CommitStep ==
  ASSUME LedgerInv, NEW r \in Requests, Finish(r), NEW e, NEW S, NEW a \in Accounts, Incoming(S, a), e.acct = a,
         e = [acct |-> e.acct, file |-> e.file, op |-> e.op, status |-> e.status,
              rows |-> e.rows, imported |-> e.imported, dups |-> e.dups],
         e.imported = Cardinality(S),
         e.imported = e.rows - e.dups,
         \A i \in DOMAIN EntriesOf(e) : InAccount(a, TransactionHash(a, EntriesOf(e)[i]))
                                        \/ \E x \in S : x.hash = TransactionHash(a, EntriesOf(e)[i]),
         logs' = Append(logs, e), rows' = Added(Logged(S, Len(logs) + 1))
  PROVE  LedgerInv'
  <1>1. RowsInOrder /\ LogsInOrder /\ RequestsInOrder
    BY DEF LedgerInv
  <1>2. RowsInOrder' /\ LogsInOrder' /\ RowsRemain
    BY <1>1, LogWithRows
  <1>3. RequestsInOrder'
    BY <1>1, <1>2, OthersWorkOn
  <1> QED BY <1>2, <1>3 DEF LedgerInv

LEMMA ConfirmStep ==
  ASSUME LedgerInv, NEW r \in Requests, CommitConfirm(r)
  PROVE  LedgerInv'
  <1>1. PICK q : q = reqs[r]
    OBVIOUS
  <1> DEFINE a == q.acct
             ds == Drafts(q.file)
  <1>2. q.op = "confirm" /\ q.phase = "open" /\ q.left = <<>> /\ Confirming(q)
    BY <1>1 DEF CommitConfirm, LedgerInv, RequestsInOrder, Working
  <1>3. a \in Accounts /\ q.file \in Files /\ q.dups \in Int /\ Incoming(q.ins, a)
    BY <1>2 DEF Confirming
  <1>4. IsList(ds)
    BY <1>3, ParsersList
  <1>5. PICK k \in 0 .. Len(ds) : /\ q.left = SubSeq(ds, k + 1, Len(ds))
                                  /\ Cardinality(q.ins) + q.dups = k
                                  /\ \A i \in 1 .. k : Loaded(q, q.ins, ds[i])
    BY <1>2 DEF Confirming
  <1>6. k = Len(ds) /\ DOMAIN ds = 1 .. Len(ds) /\ Len(ds) \in Nat
    <2>1. PICK s : s = ds
      OBVIOUS
    <2>2. PICK n : n = Len(s)
      OBVIOUS
    <2>3. s \in Seq({s[i] : i \in DOMAIN s}) /\ n \in Nat /\ DOMAIN s = 1 .. n
      BY <1>4, <2>1, <2>2 DEF IsList
    <2>4. SubSeq(s, k + 1, n) = <<>> /\ k \in 0 .. n
      BY <1>2, <1>5, <2>1, <2>2
    <2>5. k + 1 \in Int /\ n \in Int
      BY ONLY <2>3, <2>4
    <2>6. Len(SubSeq(s, k + 1, n)) = IF k + 1 <= n THEN n - (k + 1) + 1 ELSE 0
      <3>1. \A i \in k + 1 .. n : s[i] \in {s[j] : j \in DOMAIN s}
        BY ONLY <2>3, <2>4
      <3> QED BY ONLY <2>5, <3>1, SubSeqProperties
    <2>7. k = n
      BY <2>3, <2>4, <2>6
    <2> QED BY <2>1, <2>2, <2>3, <2>7
  <1>7. PICK e : e = [acct |-> a, file |-> q.file, op |-> "confirm", status |-> "completed", rows |-> Len(ds),
                      imported |-> Len(Logged(q.ins, Len(logs) + 1)), dups |-> q.dups]
    OBVIOUS
  <1>8. /\ e.acct = a /\ e.file = q.file /\ e.op = "confirm" /\ e.rows = Len(ds) /\ e.dups = q.dups
        /\ e.imported = Len(Logged(q.ins, Len(logs) + 1))
        /\ e = [acct |-> e.acct, file |-> e.file, op |-> e.op, status |-> e.status,
                rows |-> e.rows, imported |-> e.imported, dups |-> e.dups]
    BY ONLY <1>7
  <1>9. IsFiniteSet(q.ins) /\ Cardinality(q.ins) \in Nat
    BY <1>3, FS_CardinalityType DEF Incoming
  <1>10. e.imported = Cardinality(q.ins)
    <2>1. PICK S : S = q.ins
      OBVIOUS
    <2>2. InOrder(Logged(S, Len(logs) + 1), Cardinality(S), S, Len(logs) + 1)
      BY ONLY <1>9, <2>1, LoggedRows
    <2> QED BY <1>8, <2>1, <2>2 DEF InOrder
  <1>11. e.imported = e.rows - e.dups
    BY <1>3, <1>5, <1>6, <1>8, <1>9, <1>10
  <1>12. EntriesOf(e) = ds
    BY <1>8 DEF EntriesOf
  <1>13. \A i \in DOMAIN EntriesOf(e) : InAccount(a, TransactionHash(a, EntriesOf(e)[i]))
                                       \/ \E x \in q.ins : x.hash = TransactionHash(a, EntriesOf(e)[i])
    BY <1>5, <1>6, <1>12 DEF Loaded
  <1>14. logs' = Append(logs, e) /\ rows' = Added(Logged(q.ins, Len(logs) + 1)) /\ Finish(r)
    BY <1>1, <1>7 DEF CommitConfirm
  <1> HIDE DEF a, ds
  <1>15. PICK S : S = q.ins
    OBVIOUS
  <1>16. PICK b : b = a
    OBVIOUS
  <1>17. b \in Accounts /\ Incoming(S, b) /\ e.acct = b
    BY ONLY <1>3, <1>8, <1>15, <1>16
  <1>18. e.imported = Cardinality(S)
    BY ONLY <1>10, <1>15
  <1>19. \A i \in DOMAIN EntriesOf(e) : InAccount(b, TransactionHash(b, EntriesOf(e)[i]))
                                       \/ \E x \in S : x.hash = TransactionHash(b, EntriesOf(e)[i])
    BY ONLY <1>13, <1>15, <1>16
  <1>20. logs' = Append(logs, e) /\ rows' = Added(Logged(S, Len(logs) + 1)) /\ Finish(r)
    BY ONLY <1>14, <1>15
  <1> QED BY ONLY LedgerInv, r \in Requests, <1>8, <1>11, <1>17, <1>18, <1>19, <1>20, CommitStep

LEMMA UploadStep ==
  ASSUME LedgerInv, NEW r \in Requests, CommitUpload(r)
  PROVE  LedgerInv'
  <1>1. PICK q : q = reqs[r]
    OBVIOUS
  <1>2. q.op = "upload" /\ q.phase = "open" /\ q.left # <<>> /\ Uploading(q)
    BY <1>1 DEF CommitUpload, LedgerInv, RequestsInOrder, Working
  <1>3. CASE Fail(r)
    BY <1>3, FailStep DEF Fail
  <1>4. CASE /\ logs' = Append(logs, [acct |-> q.acct, file |-> q.file, op |-> "upload", status |-> "completed",
                                      rows |-> Len(LegacyRows(q.file)), imported |-> Len(Logged(q.plan, Len(logs) + 1)),
                                      dups |-> q.dups])
             /\ rows' = Added(Logged(q.plan, Len(logs) + 1)) /\ Finish(r)
    <2>1. PICK b, S, ds : b = q.acct /\ S = q.plan /\ ds = LegacyRows(q.file)
      OBVIOUS
    <2>2. b \in Accounts /\ q.file \in Files /\ q.dups \in Int /\ Incoming(S, b) /\ IsList(ds)
          /\ Cardinality(S) + q.dups = Len(ds) /\ \A i \in DOMAIN ds : Loaded(q, S, ds[i])
      BY <1>2, <2>1, ParsersList DEF Uploading
    <2>3. PICK e : e = [acct |-> b, file |-> q.file, op |-> "upload", status |-> "completed",
                        rows |-> Len(ds), imported |-> Len(Logged(S, Len(logs) + 1)), dups |-> q.dups]
      OBVIOUS
    <2>4. /\ e.acct = b /\ e.file = q.file /\ e.op = "upload" /\ e.rows = Len(ds) /\ e.dups = q.dups
          /\ e.imported = Len(Logged(S, Len(logs) + 1))
          /\ e = [acct |-> e.acct, file |-> e.file, op |-> e.op, status |-> e.status,
                  rows |-> e.rows, imported |-> e.imported, dups |-> e.dups]
      BY ONLY <2>3
    <2>5. IsFiniteSet(S) /\ Cardinality(S) \in Nat
      BY <2>2, FS_CardinalityType DEF Incoming
    <2>6. e.imported = Cardinality(S)
      <3>1. InOrder(Logged(S, Len(logs) + 1), Cardinality(S), S, Len(logs) + 1)
        BY ONLY <2>5, LoggedRows
      <3> QED BY <2>4, <3>1 DEF InOrder
    <2>7. e.imported = e.rows - e.dups
      <3>1. Len(ds) \in Nat
        BY <2>2 DEF IsList
      <3> QED BY ONLY <2>2, <2>4, <2>5, <2>6, <3>1
    <2>8. EntriesOf(e) = ds
      BY <2>1, <2>4 DEF EntriesOf
    <2>9. \A i \in DOMAIN EntriesOf(e) : InAccount(b, TransactionHash(b, EntriesOf(e)[i]))
                                        \/ \E x \in S : x.hash = TransactionHash(b, EntriesOf(e)[i])
      BY <2>1, <2>2, <2>8 DEF Loaded
    <2>10. logs' = Append(logs, e) /\ rows' = Added(Logged(S, Len(logs) + 1)) /\ Finish(r)
      BY <1>4, <2>1, <2>3
    <2> QED BY ONLY LedgerInv, r \in Requests, <2>2, <2>4, <2>6, <2>7, <2>9, <2>10, CommitStep
  <1> QED BY <1>1, <1>3, <1>4 DEF CommitUpload

LEMMA RefuseStep ==
  ASSUME LedgerInv, NEW r \in Requests, RefuseUpload(r)
  PROVE  LedgerInv'
  <1>1. PICK q : q = reqs[r]
    OBVIOUS
  <1>2. q.acct \in Accounts
    BY <1>1 DEF RefuseUpload, LedgerInv, RequestsInOrder, Working, Uploading
  <1>3. PICK b, f : b = q.acct /\ f = q.file
    OBVIOUS
  <1>4. PICK e : e = [acct |-> b, file |-> f, op |-> "upload", status |-> "failed", rows |-> 0, imported |-> 0, dups |-> 0]
    OBVIOUS
  <1>5. logs' = Append(logs, e) /\ rows' = rows /\ Finish(r)
    BY <1>1, <1>3, <1>4 DEF RefuseUpload
  <1>6. RowsInOrder /\ LogsInOrder /\ RequestsInOrder
    BY DEF LedgerInv
  <1>7. b \in Accounts
    BY <1>2, <1>3
  <1>8. RowsInOrder' /\ LogsInOrder' /\ RowsRemain
    BY ONLY <1>4, <1>5, <1>6, <1>7, FailureLogged
  <1>9. RequestsInOrder'
    BY <1>5, <1>6, <1>8, OthersWorkOn
  <1> QED BY <1>8, <1>9 DEF LedgerInv

LEMMA ReadStep ==
  ASSUME LedgerInv, NEW r \in Requests, ReadHashes(r)
  PROVE  LedgerInv'
  <1>1. PICK q : q = reqs[r]
    OBVIOUS
  <1>2. Working(q) /\ q.op = "upload" /\ q.phase = "open" /\ Uploading(q)
    BY <1>1 DEF ReadHashes, LedgerInv, RequestsInOrder, Working
  <1>3. PICK b, s : b = q.acct /\ s = LegacyRows(q.file)
    OBVIOUS
  <1>4. b \in Accounts /\ q.file \in Files /\ q.dups \in Int /\ IsList(s)
    BY <1>2, <1>3, ParsersList DEF Uploading
  <1>5. PICK n : n = Len(s)
    OBVIOUS
  <1>6. n \in Nat /\ DOMAIN s = 1 .. n
    BY <1>4, <1>5 DEF IsList
  <1>7. PICK seen, t : seen = Hashes(b) /\ t = q.at
    OBVIOUS
  <1>8. PICK S : S = RowsOf(b, s, FirstOnes(b, s, seen), t)
    OBVIOUS
  <1>9. NewOnes(S, b, s, n, seen)
    BY ONLY <1>6, <1>8, FirstOnesAreNew
  <1>10. /\ Incoming(S, b)
         /\ \A i \in 1 .. n : TransactionHash(b, s[i]) \in seen \/ \E x \in S : x.hash = TransactionHash(b, s[i])
    BY ONLY <1>9 DEF NewOnes
  <1>11. S = Unseen(b, s, seen, t)
    BY <1>8 DEF Unseen, RowsOf, FirstOnes
  <1>12. PICK v : v = [q EXCEPT !.left = <<"read">>, !.plan = S, !.dups = n - Cardinality(S)]
    OBVIOUS
  <1>13. reqs' = [reqs EXCEPT ![r] = v] /\ UNCHANGED <<rows, logs>>
    BY <1>1, <1>3, <1>5, <1>7, <1>11, <1>12 DEF ReadHashes, LedgerInv, RequestsInOrder
  <1>14. {"op", "acct", "gen", "at", "phase", "creates", "file", "left", "ins", "dups", "plan", "from", "to", "todo", "dates", "put"} \subseteq DOMAIN q
    BY <1>2, RequestFields DEF Working
  <1>15. /\ v.op = q.op /\ v.acct = q.acct /\ v.file = q.file /\ v.phase = q.phase /\ DOMAIN v = DOMAIN q
         /\ v.plan = S /\ v.dups = n - Cardinality(S)
    BY ONLY <1>12, <1>14
  <1>16. Cardinality(S) \in Nat
    BY <1>10, FS_CardinalityType DEF Incoming
  <1>17. Cardinality(S) + v.dups = n /\ v.dups \in Int
    BY ONLY <1>6, <1>15, <1>16
  <1>18. ASSUME NEW i \in DOMAIN s PROVE Loaded(v, S, s[i])
    <2>1. CASE TransactionHash(b, s[i]) \in seen
      <3>1. InAccount(b, TransactionHash(b, s[i]))
        BY <1>7, <2>1 DEF Hashes, InAccount
      <3> QED BY <1>3, <1>15, <3>1 DEF Loaded
    <2>2. CASE \E x \in S : x.hash = TransactionHash(b, s[i])
      BY <1>3, <1>15, <2>2 DEF Loaded
    <2> QED BY <1>6, <1>10, <2>1, <2>2
  <1>19. Uploading(v)
    BY <1>2, <1>3, <1>4, <1>5, <1>10, <1>15, <1>17, <1>18 DEF Uploading
  <1>20. Working(v)
    BY <1>2, <1>15, <1>19 DEF Working
  <1> QED BY <1>13, <1>20, GoesOn

\* An entry typed in carries no log.
LEMMA CreateStep ==
  ASSUME LedgerInv, NEW r \in Requests, EndCreate(r)
  PROVE  LedgerInv'
  <1>1. PICK q : q = reqs[r]
    OBVIOUS
  <1>2. Working(q) /\ q.op = "create"
    BY <1>1 DEF EndCreate, LedgerInv, RequestsInOrder
  <1>3. PICK a : a = q.acct
    OBVIOUS
  <1>4. PICK x : q.plan = {x}
    BY <1>2 DEF Working
  <1>5. a \in Accounts /\ IsRow(x) /\ x.acct = a /\ x.hash[1] = a /\ x.live = TRUE /\ x.log = 0
    BY <1>2, <1>3, <1>4 DEF Working, Incoming
  <1>6. (CHOOSE y \in q.plan : TRUE) = x
    BY <1>4
  <1>7. CASE Fail(r)
    BY <1>7, FailStep DEF Fail
  <1>8. CASE rows' = Added(<<x>>) /\ Finish(r) /\ logs' = logs
    <2>1. PICK ins : ins = <<x>>
      OBVIOUS
    <2>2. Len(ins) = 1 /\ DOMAIN ins = 1 .. 1 /\ ins[1] = x
      BY <2>1
    <2>3. RowsInOrder /\ LogsInOrder /\ RequestsInOrder
      BY DEF LedgerInv
    <2>4. rows' = Added(ins)
      BY <1>8, <2>1
    <2>5. /\ RowsRemain
          /\ \E n \in Nat : /\ DOMAIN rows = 1 .. n /\ DOMAIN rows' = 1 .. n + 1
                            /\ rows' = [i \in 1 .. n + 1 |-> rows'[i]]
                            /\ \A i \in 1 .. n : rows'[i] = rows[i]
                            /\ \A i \in 1 .. 1 : rows'[n + i] = ins[i]
      <3>1. PICK m \in Nat : m = 1
        OBVIOUS
      <3>2. Len(ins) = m /\ DOMAIN ins = 1 .. m
        BY ONLY <2>2, <3>1
      <3>3. /\ RowsRemain
            /\ \E n \in Nat : /\ DOMAIN rows = 1 .. n /\ DOMAIN rows' = 1 .. n + m
                              /\ rows' = [i \in 1 .. n + m |-> rows'[i]]
                              /\ \A i \in 1 .. n : rows'[i] = rows[i]
                              /\ \A i \in 1 .. m : rows'[n + i] = ins[i]
        BY ONLY <2>3, <2>4, <3>2, AddedRows
      <3> QED BY ONLY <3>1, <3>3
    <2>6. PICK n \in Nat : /\ DOMAIN rows = 1 .. n /\ DOMAIN rows' = 1 .. n + 1
                           /\ rows' = [i \in 1 .. n + 1 |-> rows'[i]]
                           /\ \A i \in 1 .. n : rows'[i] = rows[i]
                           /\ rows'[n + 1] = x
      BY ONLY <2>2, <2>5
    <2>7. Len(logs) \in Nat /\ DOMAIN logs = 1 .. Len(logs)
      BY <2>3 DEF LogsInOrder
    <2>8. RowRight(x, Len(logs))
      <3>1. a # "gone" /\ 0 \in 0 .. Len(logs)
        BY <1>5, <2>7, LedgerAssumption
      <3> QED BY ONLY <1>5, <3>1 DEF RowRight
    <2>9. RowsInOrder'
      <3>1. \A i \in DOMAIN rows' : RowRight(rows'[i], Len(logs))
        <4>1. \A i \in 1 .. n : RowRight(rows[i], Len(logs))
          BY <2>3, <2>6 DEF RowsInOrder
        <4> QED BY <2>6, <2>8, <4>1
      <3>2. (\E m \in Nat : DOMAIN rows' = 1 .. m) /\ rows' = [i \in DOMAIN rows' |-> rows'[i]]
        BY <2>6
      <3> QED BY <1>8, <3>1, <3>2 DEF RowsInOrder, RowRight
    <2>10. ASSUME NEW l \in DOMAIN logs PROVE Carrying(l)' = Carrying(l)
      <3>1. l # 0
        BY <2>7
      <3>2. \A i \in DOMAIN rows' : rows'[i].log = l => i \in DOMAIN rows /\ rows[i].log = l
        BY <1>5, <2>6, <3>1
      <3>3. \A i \in DOMAIN rows : rows[i].log = l => i \in DOMAIN rows' /\ rows'[i].log = l
        BY <2>6
      <3> QED BY <3>2, <3>3 DEF Carrying
    <2>11. \A b, h : InAccount(b, h) => InAccount(b, h)'
      BY <2>6 DEF InAccount
    <2>12. ASSUME NEW g, LogRight(g) PROVE LogRight(g)'
      BY <2>11, <2>12 DEF LogRight
    <2>13. LogsInOrder'
      <3>1. ASSUME NEW l \in DOMAIN logs PROVE LogRight(logs[l])'
        <4>1. PICK g : g = logs[l]
          OBVIOUS
        <4>2. LogRight(g)'
          BY <2>3, <2>12, <4>1 DEF LogsInOrder
        <4> QED BY <1>8, <4>1, <4>2
      <3>2. DOMAIN logs' = DOMAIN logs /\ logs' = logs
        BY <1>8
      <3> QED BY <2>3, <2>10, <3>1, <3>2 DEF LogsInOrder
    <2>14. RequestsInOrder'
      BY <1>8, <2>3, <2>5, OthersWorkOn
    <2> QED BY <2>9, <2>13, <2>14 DEF LedgerInv
  <1> QED BY <1>1, <1>6, <1>7, <1>8 DEF EndCreate

LEMMA DeleteStep ==
  ASSUME LedgerInv, NEW r \in Requests, EndDeleteAccount(r)
  PROVE  LedgerInv'
  <1>1. PICK a : a = reqs[r].acct
    OBVIOUS
  <1>2. a \in Accounts /\ ~Hold(a)
    BY <1>1 DEF EndDeleteAccount, LedgerInv, RequestsInOrder, Working
  <1>3. CASE Fail(r)
    BY <1>3, FailStep DEF Fail
  <1>4. CASE ~Fail(r)
    <2>1. /\ rows' = [i \in DOMAIN rows |-> IF i \in {j \in DOMAIN rows : rows[j].acct = a}
                                            THEN [rows[i] EXCEPT !.acct = "gone", !.live = FALSE] ELSE rows[i]]
          /\ logs' = [l \in DOMAIN logs |-> IF logs[l].acct = a THEN [logs[l] EXCEPT !.acct = "null"] ELSE logs[l]]
          /\ Finish(r)
      BY <1>1, <1>4 DEF EndDeleteAccount
    <2>2. rows' = [i \in DOMAIN rows |-> IF rows[i].acct = a THEN [rows[i] EXCEPT !.acct = "gone", !.live = FALSE] ELSE rows[i]]
      BY <2>1
    <2>3. RowsInOrder /\ LogsInOrder /\ RequestsInOrder
      BY DEF LedgerInv
    <2>4. RowsInOrder' /\ LogsInOrder' /\ RowsRemain
      BY ONLY <1>2, <2>1, <2>2, <2>3, AccountGoes
    <2>5. RequestsInOrder'
      BY <2>1, <2>3, <2>4, OthersWorkOn
    <2> QED BY <2>4, <2>5 DEF LedgerInv
  <1> QED BY <1>3, <1>4

LEMMA RowSteps ==
  ASSUME LedgerInv, NEW i \in DOMAIN rows, SoftDelete(i) \/ RestoreRow(i)
  PROVE  LedgerInv'
  <1>1. \E v \in BOOLEAN : (v => rows[i].acct # "gone") /\ rows' = [rows EXCEPT ![i].live = v]
    BY DEF SoftDelete, RestoreRow
  <1>2. logs' = logs /\ reqs' = reqs
    BY DEF SoftDelete, RestoreRow
  <1>3. RowsInOrder' /\ LogsInOrder' /\ RowsRemain
    BY <1>1, <1>2, RowChanges DEF LedgerInv
  <1>4. RequestsInOrder'
    BY <1>2, <1>3, NobodyChanges DEF LedgerInv
  <1> QED BY <1>3, <1>4 DEF LedgerInv

LEMMA QuietSteps ==
  ASSUME LedgerInv, UNCHANGED <<rows, logs, reqs>>
  PROVE  LedgerInv'
  <1>1. RowsInOrder' /\ LogsInOrder' /\ RowsRemain
    BY QuietBooks DEF LedgerInv
  <1>2. RequestsInOrder'
    BY <1>1, NobodyChanges DEF LedgerInv
  <1> QED BY <1>1, <1>2 DEF LedgerInv

\* Recomputing snapshots reads the books.
LEMMA RecomputeSteps ==
  ASSUME LedgerInv, NEW r \in Requests, \/ \E a \in Accounts : ReadDates(r, a)
                                        \/ ReadClosings(r) \/ CommitRecompute(r)
  PROVE  LedgerInv'
  <1>1. PICK q : q = reqs[r]
    OBVIOUS
  <1>2. Working(q) /\ q.op = "recompute"
    BY <1>1 DEF ReadDates, ReadClosings, CommitRecompute, LedgerInv, RequestsInOrder
  <1>3. {"op", "acct", "gen", "at", "phase", "creates", "file", "left", "ins", "dups", "plan", "from", "to", "todo", "dates", "put"} \subseteq DOMAIN q
    BY <1>2, RequestFields DEF Working
  <1>4. ASSUME NEW v, v.op = "recompute", Recomputing(v), DOMAIN v = DOMAIN q, reqs' = [reqs EXCEPT ![r] = v], UNCHANGED <<rows, logs>>
        PROVE  LedgerInv'
    <2>1. Working(v)
      BY <1>2, <1>4 DEF Working
    <2> QED BY <1>4, <2>1, GoesOn
  <1>5. CASE \E a \in Accounts : ReadDates(r, a)
    <2>1. PICK a \in Accounts : ReadDates(r, a)
      BY <1>5
    <2>2. PICK ds, ph, todo : /\ reqs' = [reqs EXCEPT ![r].acct = a, ![r].todo = todo, ![r].dates = ds, ![r].phase = ph]
                              /\ todo = q.todo \ {a} /\ ds = TransactionDates(a, q.from, q.to) /\ a \in q.todo
      BY <1>1, <2>1 DEF ReadDates, LedgerInv, RequestsInOrder
    <2>3. PICK v : v = [q EXCEPT !.acct = a, !.todo = todo, !.dates = ds, !.phase = ph]
      OBVIOUS
    <2>4. v.op = q.op /\ DOMAIN v = DOMAIN q /\ v.acct = a /\ v.todo = todo /\ v.dates = ds /\ v.from = q.from /\ v.to = q.to /\ v.put = q.put
      BY ONLY <1>3, <2>3
    <2>5. reqs' = [reqs EXCEPT ![r] = v]
      BY <1>1, <2>2, <2>3 DEF LedgerInv, RequestsInOrder
    <2>6. Recomputing(v)
      BY <1>2, <2>2, <2>4 DEF Working, Recomputing, TransactionDates
    <2> QED BY <1>2, <1>4, <2>1, <2>4, <2>5, <2>6 DEF ReadDates
  <1>6. CASE ReadClosings(r)
    <2>1. PICK put, new : /\ reqs' = [reqs EXCEPT ![r].phase = "none", ![r].put = put] /\ q.phase = "dated"
                          /\ put = q.put \cup new /\ \A x \in new : x[1] = q.acct
      <3>1. PICK c, ds, cs, ptr : /\ q.phase = "dated"
                                  /\ reqs' = [reqs EXCEPT ![r].phase = "none", ![r].put = @ \cup Snapshots(reqs[r].acct, c, ds, cs, ptr)]
        <4>1. PICK c \in Closings(reqs[r].acct, reqs[r].to) : \E ds \in Ascending(reqs[r].dates), cs \in Ascending(DOMAIN c) : \E ptr \in Reached(ds, cs) :
                reqs' = [reqs EXCEPT ![r].phase = "none", ![r].put = @ \cup Snapshots(reqs[r].acct, c, ds, cs, ptr)]
          BY <1>6 DEF ReadClosings
        <4>2. PICK ds \in Ascending(reqs[r].dates), cs \in Ascending(DOMAIN c) : \E ptr \in Reached(ds, cs) :
                reqs' = [reqs EXCEPT ![r].phase = "none", ![r].put = @ \cup Snapshots(reqs[r].acct, c, ds, cs, ptr)]
          BY <4>1
        <4>3. q.phase = "dated"
          BY <1>1, <1>6 DEF ReadClosings
        <4> QED BY <4>2, <4>3
      <3>2. PICK new : new = Snapshots(q.acct, c, ds, cs, ptr)
        OBVIOUS
      <3>3. reqs' = [reqs EXCEPT ![r] = [q EXCEPT !.phase = "none", !.put = @ \cup new]]
        BY <1>1, <3>1, <3>2 DEF LedgerInv, RequestsInOrder
      <3>4. reqs' = [reqs EXCEPT ![r].phase = "none", ![r].put = q.put \cup new]
        BY <1>1, <1>3, <3>3 DEF LedgerInv, RequestsInOrder
      <3>5. \A x \in new : x[1] = q.acct
        BY <3>2 DEF Snapshots
      <3> QED BY <3>1, <3>4, <3>5
    <2>2. PICK v : v = [q EXCEPT !.phase = "none", !.put = put]
      OBVIOUS
    <2>3. /\ v.op = q.op /\ DOMAIN v = DOMAIN q /\ v.phase = "none" /\ v.put = put /\ v.todo = q.todo /\ v.dates = q.dates
          /\ v.from = q.from /\ v.to = q.to
      BY ONLY <1>3, <2>2
    <2>4. reqs' = [reqs EXCEPT ![r] = v]
      BY <1>1, <2>1, <2>2 DEF LedgerInv, RequestsInOrder
    <2>5. Recomputing(v)
      BY <1>2, <2>1, <2>3 DEF Working, Recomputing
    <2> QED BY <1>2, <1>4, <1>6, <2>3, <2>4, <2>5 DEF ReadClosings
  <1>7. CASE CommitRecompute(r)
    BY <1>7, FailStep DEF CommitRecompute, Fail
  <1> QED BY <1>5, <1>6, <1>7

LEMMA LedgerStep == LedgerInv /\ [LedgerNext]_ledgerVars => LedgerInv'
  <1> SUFFICES ASSUME LedgerInv, [LedgerNext]_ledgerVars PROVE LedgerInv'
    OBVIOUS
  <1>1. CASE UNCHANGED ledgerVars
    BY <1>1, QuietSteps DEF ledgerVars
  <1>2. ASSUME NEW a \in Accounts, CreateAccount(a) PROVE LedgerInv'
    BY <1>2, QuietSteps DEF CreateAccount
  <1>3. ASSUME NEW r \in Requests, NEW a \in Accounts,
               \/ \E force \in BOOLEAN : BeginDeleteAccount(r, a, force)
               \/ \E f \in Files, create \in BOOLEAN : BeginConfirm(r, a, f, create)
               \/ \E f \in Files : BeginUpload(r, a, f)
               \/ \E d \in Manual : BeginCreate(r, a, d)
        PROVE  LedgerInv'
    BY <1>3, Begins
  <1>4. ASSUME NEW r \in Requests, NEW as, BeginRecompute(r, as, 1, Today) PROVE LedgerInv'
    <2>1. PICK q : q = [NoRequest EXCEPT !.op = "recompute", !.at = clock + 1, !.todo = as, !.from = 1, !.to = Today]
      OBVIOUS
    <2>2. Working(q)'
      BY <2>1 DEF Working, Recomputing, NoRequest
    <2>3. StartRequest(r, q) /\ UNCHANGED <<accounts, rows, logs, snaps>>
      BY <1>4, <2>1 DEF BeginRecompute
    <2> QED BY <2>2, <2>3, StartStep
  <1>5. ASSUME NEW r \in Requests,
               \/ \E a \in Accounts : ReadDates(r, a)
               \/ ReadClosings(r) \/ CommitRecompute(r)
        PROVE  LedgerInv'
    BY <1>5, RecomputeSteps
  <1>6. ASSUME NEW r \in Requests, DeleteTooEarly(r) \/ ChunkFails(r) PROVE LedgerInv'
    BY <1>6, FailStep DEF DeleteTooEarly, ChunkFails, Fail
  <1>7. ASSUME NEW r \in Requests,
               \/ EndDeleteAccount(r) \/ OpenLog(r) \/ InsertChunk(r) \/ CommitConfirm(r) \/ ReadHashes(r)
               \/ RefuseUpload(r) \/ CommitUpload(r) \/ EndCreate(r)
        PROVE  LedgerInv'
    BY <1>7, DeleteStep, OpenStep, ChunkStep, ConfirmStep, ReadStep, RefuseStep, UploadStep, CreateStep
  <1>8. ASSUME NEW i \in DOMAIN rows, SoftDelete(i) \/ RestoreRow(i) PROVE LedgerInv'
    BY <1>8, RowSteps
  <1> QED BY <1>1, <1>2, <1>3, <1>4, <1>5, <1>6, <1>7, <1>8 DEF LedgerNext

LEMMA LedgerHolds == LedgerSpec => []LedgerInv
  BY LedgerStart, LedgerStep, PTL DEF LedgerSpec

(***************************************************************************)
(* Whatever uploads, entries, deletions and accounts come and go, in any   *)
(* number and overlapping as they like, a log's counts are those of its    *)
(* rows, and an upload that ended well has left a transaction of every     *)
(* entry of its file in the account (orchestrator.py, uploads.py).         *)
(***************************************************************************)
THEOREM UploadsAlwaysComplete == LedgerSpec => []UploadsAreComplete
  BY LedgerHolds, LedgerInvSuffices, PTL

-----------------------------------------------------------------------------
(* Snapshots of balances: the merge of two ascending lists. *)

IsAscending(s) == /\ Len(s) \in Nat /\ DOMAIN s = 1 .. Len(s) /\ \A i \in DOMAIN s : s[i] \in Int
                  /\ \A i, j \in DOMAIN s : i < j => s[i] < s[j]

LEMMA AscendingIs ==
  ASSUME NEW S, IsFiniteSet(S), S \subseteq Int, NEW s \in Ascending(S)
  PROVE  IsAscending(s) /\ \A x : x \in S <=> \E i \in DOMAIN s : s[i] = x
  <1> DEFINE n == Cardinality(S)
  <1>1. n \in Nat
    BY FS_CardinalityType
  <1>2. s \in [1 .. n -> S] /\ \A i, j \in 1 .. n : i < j => s[i] < s[j]
    BY DEF Ascending
  <1>3. IsFiniteSet(1 .. n) /\ Cardinality(1 .. n) = n
    BY <1>1, FS_Interval
  <1>4. \A i, j \in 1 .. n : s[i] = s[j] => i = j
    <2> SUFFICES ASSUME NEW i \in 1 .. n, NEW j \in 1 .. n, s[i] = s[j], i # j PROVE FALSE
      OBVIOUS
    <2>1. s[i] \in S /\ s[j] \in S
      BY <1>2
    <2>2. i < j \/ j < i
      BY <1>1
    <2>3. s[i] < s[j] \/ s[j] < s[i]
      BY <1>2, <2>2
    <2>4. \A x \in Int : ~(x < x)
      OBVIOUS
    <2>5. s[i] \in Int
      BY <2>1
    <2> QED BY <2>3, <2>4, <2>5
  <1>5. s \in Injection(1 .. n, S)
    BY <1>2, <1>4 DEF Injection, IsInjective
  <1>6. s \in Surjection(1 .. n, S)
    BY <1>3, <1>5, FS_Injection
  <1>7. s \in Seq(S) /\ Len(s) = n
    BY <1>1, <1>2
  <1>8. \A x \in S : \E i \in 1 .. n : s[i] = x
    BY <1>6 DEF Surjection
  <1> QED BY <1>1, <1>2, <1>7, <1>8 DEF IsAscending

\* The merge leaves each day at the last closing up to it.
LEMMA MergeReaches ==
  ASSUME NEW ds, NEW cs, IsAscending(ds), IsAscending(cs), NEW ptr \in Reached(ds, cs), NEW k \in DOMAIN ds
  PROVE  ptr[k] \in 0 .. Len(cs) /\ \A j \in DOMAIN cs : j <= ptr[k] <=> cs[j] <= ds[k]
  <1>1. PICK n, m : n = Len(ds) /\ m = Len(cs) /\ n \in Nat /\ m \in Nat /\ DOMAIN ds = 1 .. n /\ DOMAIN cs = 1 .. m
    BY DEF IsAscending
  <1>2. ASSUME NEW i \in 1 .. n
        PROVE  /\ ptr[i] \in 0 .. m /\ (i > 1 => ptr[i - 1] <= ptr[i])
               /\ \A j \in (IF i = 1 THEN 0 ELSE ptr[i - 1]) + 1 .. ptr[i] : cs[j] <= ds[i]
               /\ ptr[i] < m => cs[ptr[i] + 1] > ds[i]
    BY <1>1, <1>2 DEF Reached
  <1>3. ASSUME NEW i \in 1 .. n, ptr[i] # 0 PROVE cs[ptr[i]] <= ds[i]
    <2> DEFINE bad == {h \in 1 .. n : ptr[h] # 0 /\ ~(cs[ptr[h]] <= ds[h])}
    <2> SUFFICES ASSUME bad # {} PROVE FALSE
      BY <1>3
    <2>1. PICK h \in bad : \A g \in bad : h <= g
      <3>1. bad \subseteq Nat
        BY <1>1
      <3> HIDE DEF bad
      <3> QED BY <3>1, LeastNat
    <2>2. h \in 1 .. n /\ ptr[h] # 0 /\ ptr[h] \in 0 .. m /\ ~(cs[ptr[h]] <= ds[h])
      BY <1>2, <2>1
    <2>3. CASE h = 1
      <3>1. ptr[h] \in 0 + 1 .. ptr[h]
        BY <1>1, <2>2
      <3> QED BY <1>2, <2>2, <2>3, <3>1
    <2>4. CASE h # 1
      <3>1. PICK p : p = ptr[h - 1] /\ h - 1 \in 1 .. n /\ p \in 0 .. m /\ p <= ptr[h]
        BY <1>1, <1>2, <2>2, <2>4
      <3>2. CASE p < ptr[h]
        <4>1. ptr[h] \in p + 1 .. ptr[h]
          BY <1>1, <2>2, <3>1, <3>2
        <4> QED BY <1>2, <2>2, <2>4, <3>1, <4>1
      <3>3. CASE p = ptr[h]
        <4>1. h - 1 \notin bad
          <5>1. h - 1 < h
            BY <1>1, <2>2
          <5>2. h \in Int /\ h - 1 \in Int
            BY <1>1, <2>2
          <5> HIDE DEF bad
          <5> QED BY <2>1, <5>1, <5>2
        <4>2. cs[p] <= ds[h - 1]
          BY <2>2, <3>1, <3>3, <4>1
        <4>3. ds[h - 1] < ds[h] /\ ds[h - 1] \in Int /\ ds[h] \in Int /\ cs[p] \in Int
          <5>1. h - 1 \in DOMAIN ds /\ h \in DOMAIN ds /\ h - 1 < h /\ p \in DOMAIN cs
            BY <1>1, <2>2, <3>1, <3>3
          <5> QED BY <5>1 DEF IsAscending
        <4> QED BY <2>2, <3>3, <4>2, <4>3
      <3> QED BY <1>1, <2>2, <3>1, <3>2, <3>3
    <2> QED BY <2>3, <2>4
  <1>4. PICK p, d : p = ptr[k] /\ p \in 0 .. m /\ d = ds[k] /\ d \in Int
    BY <1>1, <1>2 DEF IsAscending
  <1>5. ASSUME NEW j \in 1 .. m PROVE j <= p <=> cs[j] <= d
    <2>1. cs[j] \in Int
      BY <1>1 DEF IsAscending
    <2>2. CASE j <= p
      <3>1. p \in 1 .. m /\ cs[p] <= d /\ cs[p] \in Int /\ (j = p \/ cs[j] < cs[p])
        BY <1>1, <1>3, <1>4, <2>2 DEF IsAscending
      <3> QED BY <1>4, <2>1, <2>2, <3>1
    <2>3. CASE ~(j <= p)
      <3>1. p + 1 \in 1 .. m /\ p < m /\ (j = p + 1 \/ p + 1 < j)
        BY <1>1, <1>4, <2>3
      <3>2. cs[p + 1] > d /\ cs[p + 1] \in Int /\ (j = p + 1 \/ cs[p + 1] < cs[j])
        BY <1>1, <1>2, <1>4, <3>1 DEF IsAscending
      <3> QED BY <1>4, <2>1, <2>3, <3>2
    <2> QED BY <2>2, <2>3
  <1> QED BY <1>1, <1>4, <1>5

\* The closing of the last day that has one is the balance.
LEMMA ClosingsAre ==
  ASSUME NEW a, NEW t \in Nat, NEW c \in Closings(a, t), NEW d \in 1 .. t
  PROVE  /\ DOMAIN c \subseteq 1 .. t
         /\ \A e \in DOMAIN c : e <= d /\ (\A f \in DOMAIN c : f <= d => f <= e) => c[e] \in BalanceAt(a, d)
         /\ BalanceAt(a, d) # {} => \E e \in DOMAIN c : e <= d
  <1>1. PICK W, S : W = WithBalance(a, t) /\ S = WithBalance(a, d)
    OBVIOUS
  <1>2. (\A i \in W : rows[i].date \in 1 .. t) /\ S = {i \in W : rows[i].date <= d}
    BY <1>1 DEF WithBalance
  <1>3. /\ DOMAIN c = {rows[i].date : i \in W}
        /\ \A e \in DOMAIN c : c[e] \in {rows[i].bal : i \in LastOf({j \in W : rows[j].date = e})}
    BY <1>1 DEF Closings
  <1>4. PICK newest : newest = {i \in S : \A j \in S : rows[j].date <= rows[i].date}
    OBVIOUS
  <1>5. BalanceAt(a, d) = {rows[i].bal : i \in LastOf(newest)}
    BY <1>1, <1>4 DEF BalanceAt
  <1>6. ASSUME NEW e \in DOMAIN c, e <= d, \A f \in DOMAIN c : f <= d => f <= e PROVE c[e] \in BalanceAt(a, d)
    <2>1. e \in 1 .. t /\ \E j \in W : rows[j].date = e
      BY <1>2, <1>3
    <2>2. newest = {j \in W : rows[j].date = e}
      <3>1. ASSUME NEW i \in newest PROVE i \in W /\ rows[i].date = e
        <4>1. rows[i].date \in 1 .. t /\ rows[i].date <= e
          BY <1>2, <1>3, <1>4, <1>6
        <4>2. e <= rows[i].date
          BY <1>2, <1>4, <1>6, <2>1
        <4> QED BY <1>2, <1>4, <2>1, <4>1, <4>2
      <3>2. ASSUME NEW i \in W, rows[i].date = e PROVE i \in newest
        BY <1>2, <1>3, <1>4, <1>6, <3>2
      <3> QED BY <3>1, <3>2
    <2> QED BY <1>3, <1>5, <2>2
  <1>7. ASSUME BalanceAt(a, d) # {} PROVE \E e \in DOMAIN c : e <= d
    <2>1. PICK i : i \in LastOf(newest)
      BY <1>5, <1>7
    <2>2. i \in S
      BY <1>4, <2>1 DEF LastOf
    <2> QED BY <1>2, <1>3, <2>2
  <1> QED BY <1>2, <1>3, <1>6, <1>7

\* What a recomputation adds to its snapshots for the account it reads.
Balanced(q, new) ==
  /\ \A x \in new : x[3] \in BalanceAt(x[1], x[2])
  /\ \A d \in q.dates : BalanceAt(q.acct, d) # {} => \E x \in new : x[2] = d

LEMMA SnapshotsTaken ==
  ASSUME NEW q, q.dates \subseteq 1 .. Today, q.to = Today,
         NEW c \in Closings(q.acct, Today), NEW ds \in Ascending(q.dates), NEW cs \in Ascending(DOMAIN c),
         NEW ptr \in Reached(ds, cs)
  PROVE  Balanced(q, Snapshots(q.acct, c, ds, cs, ptr))
  <1> DEFINE new == Snapshots(q.acct, c, ds, cs, ptr)
  <1>1. Today \in Nat
    BY LedgerAssumption
  <1>2. IsFiniteSet(1 .. Today) /\ 1 .. Today \subseteq Int
    BY <1>1, FS_Interval
  <1>3. IsFiniteSet(q.dates) /\ q.dates \subseteq Int
    BY <1>2, FS_Subset
  <1>4. IsAscending(ds) /\ \A x : x \in q.dates <=> \E i \in DOMAIN ds : ds[i] = x
    BY <1>3, AscendingIs
  <1>5. DOMAIN c \subseteq 1 .. Today
    <2>1. CASE Today = 0
      <3>1. WithBalance(q.acct, Today) = {}
        BY <2>1 DEF WithBalance
      <3> QED BY <3>1 DEF Closings
    <2>2. CASE Today # 0
      <3>1. 1 \in 1 .. Today
        BY <1>1, <2>2
      <3> QED BY <1>1, <3>1, ClosingsAre
    <2> QED BY <2>1, <2>2
  <1>6. IsFiniteSet(DOMAIN c) /\ DOMAIN c \subseteq Int
    BY <1>2, <1>5, FS_Subset
  <1>7. IsAscending(cs) /\ \A x : x \in DOMAIN c <=> \E i \in DOMAIN cs : cs[i] = x
    BY <1>6, AscendingIs
  <1>8. ASSUME NEW k \in DOMAIN ds
        PROVE  /\ ptr[k] # 0 => c[cs[ptr[k]]] \in BalanceAt(q.acct, ds[k])
               /\ BalanceAt(q.acct, ds[k]) # {} => ptr[k] # 0
    <2>1. PICK d, p, m : d = ds[k] /\ p = ptr[k] /\ m = Len(cs)
      OBVIOUS
    <2>2. d \in 1 .. Today
      BY <1>4, <2>1
    <2>3. /\ \A e \in DOMAIN c : e <= d /\ (\A f \in DOMAIN c : f <= d => f <= e) => c[e] \in BalanceAt(q.acct, d)
          /\ BalanceAt(q.acct, d) # {} => \E e \in DOMAIN c : e <= d
      BY <1>1, <2>2, ClosingsAre
    <2>4. p \in 0 .. m /\ \A j \in DOMAIN cs : j <= p <=> cs[j] <= d
      BY <1>4, <1>7, <1>8, <2>1, MergeReaches
    <2>5. m \in Nat /\ DOMAIN cs = 1 .. m
      BY <1>7, <2>1 DEF IsAscending
    <2>6. ASSUME p # 0 PROVE c[cs[p]] \in BalanceAt(q.acct, d)
      <3>1. p \in DOMAIN cs /\ p <= p
        BY <2>4, <2>5, <2>6
      <3>2. cs[p] \in DOMAIN c /\ cs[p] <= d
        BY <1>7, <2>4, <3>1
      <3>3. ASSUME NEW f \in DOMAIN c, f <= d PROVE f <= cs[p]
        <4>1. PICK j \in DOMAIN cs : cs[j] = f
          BY <1>7, <3>3
        <4>2. j <= p
          BY <2>4, <3>3, <4>1
        <4>3. j = p \/ j < p
          BY <2>4, <2>5, <4>1, <4>2
        <4>4. j < p => cs[j] < cs[p]
          BY <1>7, <3>1 DEF IsAscending
        <4>5. cs[j] \in Int /\ cs[p] \in Int
          BY <1>7, <3>1 DEF IsAscending
        <4> QED BY <4>1, <4>3, <4>4, <4>5
      <3> QED BY <2>3, <3>2, <3>3
    <2>7. ASSUME BalanceAt(q.acct, d) # {} PROVE p # 0
      <3>1. PICK e \in DOMAIN c : e <= d
        BY <2>3, <2>7
      <3>2. PICK j \in DOMAIN cs : cs[j] = e
        BY <1>7
      <3>3. j <= p /\ j \in 1 .. m
        BY <2>4, <2>5, <3>1, <3>2
      <3> QED BY <2>5, <3>3
    <2> QED BY <2>1, <2>6, <2>7
  <1>9. ASSUME NEW x \in new PROVE x[3] \in BalanceAt(x[1], x[2])
    <2>1. PICK k \in {j \in DOMAIN ds : ptr[j] # 0} : x = <<q.acct, ds[k], c[cs[ptr[k]]]>>
      BY <1>9 DEF Snapshots
    <2> QED BY <1>8, <2>1
  <1>10. ASSUME NEW d \in q.dates, BalanceAt(q.acct, d) # {} PROVE \E x \in new : x[2] = d
    <2>1. PICK k \in DOMAIN ds : ds[k] = d
      BY <1>4
    <2>2. ptr[k] # 0
      BY <1>8, <1>10, <2>1
    <2>3. <<q.acct, ds[k], c[cs[ptr[k]]]>> \in new
      BY <2>2 DEF Snapshots
    <2> QED BY <2>1, <2>3
  <1> QED BY <1>9, <1>10 DEF Balanced

\* Only reading the closings ends what reading the days began.
LEMMA OnlyClosings ==
  ASSUME LedgerInv, [LedgerNext]_ledgerVars, NEW r \in Requests,
         reqs[r].phase = "dated", reqs'[r].phase = "none", reqs'[r].op = "recompute"
  PROVE  ReadClosings(r)
  <1>0. reqs = [k \in Requests |-> reqs[k]] /\ Working(reqs[r]) /\ reqs[r].op # "none"
    BY DEF LedgerInv, RequestsInOrder, Working
  <1>1. NoRequest.op = "none"
    BY DEF NoRequest
  <1>2. reqs' # reqs
    OBVIOUS
  <1>3. ASSUME NEW q \in Requests, NEW v, StartRequest(q, v) PROVE FALSE
    BY <1>0, <1>3 DEF StartRequest, IsIdle
  <1>4. ASSUME NEW q \in Requests, Finish(q) PROVE FALSE
    BY <1>0, <1>1, <1>4 DEF Finish
  <1>5. ASSUME NEW q \in Requests, Fail(q) PROVE FALSE
    BY <1>4, <1>5 DEF Fail
  <1>6. ASSUME NEW q \in Requests, NEW v, reqs' = [reqs EXCEPT ![q] = v], reqs[q].phase # "dated" PROVE FALSE
    BY <1>0, <1>6
  <1>7. ASSUME NEW a \in Accounts, CreateAccount(a) PROVE FALSE
    BY <1>2, <1>7 DEF CreateAccount
  <1>8. ASSUME NEW q \in Requests, NEW a \in Accounts,
               \/ \E force \in BOOLEAN : BeginDeleteAccount(q, a, force)
               \/ \E f \in Files, create \in BOOLEAN : BeginConfirm(q, a, f, create)
               \/ \E f \in Files : BeginUpload(q, a, f)
               \/ \E d \in Manual : BeginCreate(q, a, d)
        PROVE  FALSE
    BY <1>3, <1>8 DEF BeginDeleteAccount, BeginConfirm, BeginUpload, BeginCreate
  <1>9. ASSUME NEW q \in Requests, NEW a \in Accounts, ReadDates(q, a) PROVE FALSE
    <2>1. reqs[q].phase # "dated"
      BY <1>9 DEF ReadDates
    <2>2. PICK v : reqs' = [reqs EXCEPT ![q] = v]
      BY <1>9 DEF ReadDates
    <2> QED BY <1>6, <2>1, <2>2
  <1>10. ASSUME NEW q \in Requests, BeginRecompute(q, {a \in Accounts : accounts[a].there}, 1, Today) PROVE FALSE
    BY <1>3, <1>10 DEF BeginRecompute
  <1>11. ASSUME NEW q \in Requests, OpenLog(q) PROVE FALSE
    <2>1. reqs[q].phase # "dated"
      BY <1>11 DEF OpenLog
    <2>2. CASE Fail(q)
      BY <1>5, <2>2
    <2>3. CASE reqs' = [reqs EXCEPT ![q].phase = "open"]
      <3>1. PICK v : reqs' = [reqs EXCEPT ![q] = v]
        BY <2>3
      <3> QED BY <1>6, <2>1, <3>1
    <2> QED BY <1>11, <2>2, <2>3 DEF OpenLog
  <1>12. ASSUME NEW q \in Requests, InsertChunk(q) PROVE FALSE
    <2>1. reqs[q].phase # "dated"
      BY <1>12 DEF InsertChunk
    <2>2. PICK v : reqs' = [reqs EXCEPT ![q] = v]
      BY <1>12 DEF InsertChunk
    <2> QED BY <1>6, <2>1, <2>2
  <1>13. ASSUME NEW q \in Requests, ReadHashes(q) PROVE FALSE
    <2>1. reqs[q].phase # "dated"
      BY <1>13 DEF ReadHashes
    <2>2. PICK v : reqs' = [reqs EXCEPT ![q] = v]
      BY <1>13 DEF ReadHashes
    <2> QED BY <1>6, <2>1, <2>2
  <1>14. ASSUME NEW q \in Requests, EndDeleteAccount(q) PROVE FALSE
    BY <1>4, <1>5, <1>14 DEF EndDeleteAccount
  <1>15. ASSUME NEW q \in Requests, DeleteTooEarly(q) \/ ChunkFails(q) PROVE FALSE
    BY <1>5, <1>15 DEF DeleteTooEarly, ChunkFails
  <1>16. ASSUME NEW q \in Requests, CommitConfirm(q) PROVE FALSE
    BY <1>4, <1>16 DEF CommitConfirm
  <1>17. ASSUME NEW q \in Requests, RefuseUpload(q) \/ CommitUpload(q) PROVE FALSE
    BY <1>4, <1>5, <1>17 DEF RefuseUpload, CommitUpload
  <1>18. ASSUME NEW q \in Requests, EndCreate(q) PROVE FALSE
    BY <1>4, <1>5, <1>18 DEF EndCreate
  <1>19. ASSUME NEW q \in Requests, CommitRecompute(q) PROVE FALSE
    BY <1>4, <1>5, <1>19 DEF CommitRecompute
  <1>20. ASSUME NEW i \in DOMAIN rows, SoftDelete(i) \/ RestoreRow(i) PROVE FALSE
    BY <1>2, <1>20 DEF SoftDelete, RestoreRow
  <1>21. ASSUME NEW q \in Requests, ReadClosings(q) PROVE q = r
    <2>1. PICK v : reqs' = [reqs EXCEPT ![q] = v]
      BY <1>21 DEF ReadClosings
    <2> QED BY <1>0, <2>1
  <1>22. CASE UNCHANGED ledgerVars
    BY <1>2, <1>22 DEF ledgerVars
  <1> QED BY <1>7, <1>8, <1>9, <1>10, <1>11, <1>12, <1>13, <1>14, <1>15, <1>16, <1>17, <1>18, <1>19, <1>20, <1>21, <1>22
          DEF LedgerNext

LEMMA ClosingsStep ==
  ASSUME LedgerInv, NEW r \in Requests, ReadClosings(r)
  PROVE  Balanced(reqs[r], reqs'[r].put \ reqs[r].put)
  <1>1. PICK q : q = reqs[r]
    OBVIOUS
  <1>2. Working(q) /\ q.op = "recompute" /\ q.phase = "dated"
    BY <1>1 DEF ReadClosings, LedgerInv, RequestsInOrder
  <1>3. Recomputing(q)
    BY <1>2 DEF Working
  <1>4. PICK c \in Closings(reqs[r].acct, reqs[r].to) : \E ds \in Ascending(reqs[r].dates), cs \in Ascending(DOMAIN c) : \E ptr \in Reached(ds, cs) :
          reqs' = [reqs EXCEPT ![r].phase = "none", ![r].put = @ \cup Snapshots(reqs[r].acct, c, ds, cs, ptr)]
    BY DEF ReadClosings
  <1>5. PICK ds \in Ascending(reqs[r].dates), cs \in Ascending(DOMAIN c) : \E ptr \in Reached(ds, cs) :
          reqs' = [reqs EXCEPT ![r].phase = "none", ![r].put = @ \cup Snapshots(reqs[r].acct, c, ds, cs, ptr)]
    BY <1>4
  <1>6. PICK ptr \in Reached(ds, cs) :
          reqs' = [reqs EXCEPT ![r].phase = "none", ![r].put = @ \cup Snapshots(reqs[r].acct, c, ds, cs, ptr)]
    BY <1>5
  <1>7. PICK new : new = Snapshots(q.acct, c, ds, cs, ptr)
    OBVIOUS
  <1>8. Balanced(q, new)
    BY <1>1, <1>3, <1>4, <1>5, <1>6, <1>7, SnapshotsTaken DEF Recomputing
  <1>9. reqs'[r].put = q.put \cup new
    <2>1. {"op", "acct", "gen", "at", "phase", "creates", "file", "left", "ins", "dups", "plan", "from", "to", "todo", "dates", "put"} \subseteq DOMAIN q
      BY <1>2, RequestFields DEF Working
    <2>2. reqs'[r] = [q EXCEPT !.phase = "none", !.put = @ \cup new]
      BY <1>1, <1>6, <1>7 DEF LedgerInv, RequestsInOrder
    <2> QED BY ONLY <2>1, <2>2
  <1>10. new \cap q.put = {}
    <2>1. \A x \in new : x[1] = q.acct
      BY <1>7 DEF Snapshots
    <2> QED BY <1>2, <1>3, <2>1 DEF Recomputing
  <1>11. reqs'[r].put \ q.put = new
    BY <1>9, <1>10
  <1> QED BY <1>1, <1>8, <1>11

(***************************************************************************)
(* MergeIsBalanceAt: for any books and any days, the merge of the days     *)
(* with the closings gives every day the balance that compute_balance_at   *)
(* gives it, and misses no day that has one, whatever other requests did   *)
(* between the two readings (balance_snapshots.py).                        *)
(***************************************************************************)
THEOREM SnapshotsAreBalances == LedgerSpec => MergeIsBalanceAt
  <1>1. LedgerInv /\ [LedgerNext]_ledgerVars =>
          [\A r \in Requests :
             LET new == reqs'[r].put \ reqs[r].put
             IN reqs[r].phase = "dated" /\ reqs'[r].phase = "none" /\ reqs'[r].op = "recompute" =>
                  /\ \A x \in new : x[3] \in BalanceAt(x[1], x[2])
                  /\ \A d \in reqs[r].dates : BalanceAt(reqs[r].acct, d) # {} => \E x \in new : x[2] = d]_ledgerVars
    BY OnlyClosings, ClosingsStep DEF Balanced
  <1> QED BY <1>1, LedgerHolds, PTL DEF LedgerSpec, MergeIsBalanceAt
=============================================================================
