-------------------------- MODULE TransferMatching --------------------------
(***************************************************************************)
(* Matching of bank transactions with each other and with tax invoices:    *)
(* services/matching.py, services/reconcile.py, routers/matching.py and    *)
(* what routers/transactions.py and routers/tax_invoices.py change.        *)
(*                                                                         *)
(* Every request reads rows, decides, and commits the columns it changed;  *)
(* removing a match and deleting a transaction read the partner in a       *)
(* second query.  Nothing is locked between the read and the commit (the   *)
(* row locks of the UPDATEs order commits; the model allows every order).  *)
(***************************************************************************)
EXTENDS Integers, Sequences, FiniteSets, SequencesExt

CONSTANTS
  Info,          \* the transactions: account, kind, amount and day of each
  Bill,          \* the invoices: kind of the payment, amount and day of each
  Request,
  Tolerance,     \* date_tolerance_days of auto_match_internal_transactions
  BillTolerance, \* and of reconcile_invoices
  None

Txn == DOMAIN Info
Invoice == DOMAIN Bill
Row == Txn \cup Invoice
Kind == {"deposit", "withdrawal"}

ASSUME MatchingAssumption ==
  /\ \A t \in Txn : Info[t].kind \in Kind /\ {Info[t].amount, Info[t].day} \subseteq Nat
  /\ \A i \in Invoice : Bill[i].kind \in Kind /\ {Bill[i].amount, Bill[i].day} \subseteq Nat
  /\ Txn \cap Invoice = {} /\ None \notin Row /\ IsFiniteSet(Row)
  /\ {Tolerance, BillTolerance} \subseteq Nat

VARIABLES
  row,  \* per transaction and invoice: partner, status, live (not is_deleted)
  req,  \* what each request has read and will write
  alone \* history: no two requests have overlapped yet

vars == <<row, req, alone>>

Status == {"unmatched", "matched", "manual"}
Fresh == [partner |-> None, status |-> "unmatched", live |-> TRUE]
Free == {t \in Txn : row[t].live /\ row[t].status = "unmatched"}

Near(d, e, days) == d - e <= days /\ e - d <= days

\* What manual matching demands of two transactions.
Opposite(a, b) ==
  /\ Info[a].account # Info[b].account
  /\ Info[a].amount = Info[b].amount
  /\ Info[a].kind # Info[b].kind

\* The pairs the two automatic runs may make.
Transfers == {p \in Txn \X Txn :
  /\ Info[p[1]].kind = "withdrawal"
  /\ Opposite(p[1], p[2])
  /\ Near(Info[p[1]].day, Info[p[2]].day, Tolerance)}

Payments == {p \in Invoice \X Txn :
  /\ Bill[p[1]].kind = Info[p[2]].kind
  /\ Bill[p[1]].amount = Info[p[2]].amount
  /\ Near(Bill[p[1]].day, Info[p[2]].day, BillTolerance)}

\* Mutant: a candidate that does not fit ends the search.
GreedyStops(fits, xs, ys) ==
  {took \in [DOMAIN xs -> 0 .. Len(ys)] : \A k \in DOMAIN xs :
     took[k] = IF ys # <<>> /\ <<xs[k], ys[1]>> \in fits /\ \A j \in 1 .. k - 1 : took[j] # 1 THEN 1 ELSE 0}

\* The two nested loops: each x takes the first y that fits and is not taken, 0 if there is none.
Greedy(fits, xs, ys) ==
  {took \in [DOMAIN xs -> 0 .. Len(ys)] : \A k \in DOMAIN xs :
     LET open == {i \in DOMAIN ys : <<xs[k], ys[i]>> \in fits /\ \A j \in 1 .. k - 1 : took[j] # i}
     IN  IF open = {} THEN took[k] = 0 ELSE took[k] \in open /\ \A i \in open : took[k] <= i}
Taken(xs, ys, took) == {<<xs[k], ys[took[k]]>> : k \in {j \in DOMAIN xs : took[j] # 0}}

-----------------------------------------------------------------------------
(* A request *)

Idle == [op |-> "idle"]

\* Of a row that was read, the columns the ORM will write: those that differ.
Changed(x, new) == [c \in {k \in DOMAIN new : new[k] # row[x][k]} |-> new[c]]

\* new: the values of the rows it has read; partner: the row it will read next.
BeginWith(r, op, new, partner) ==
  /\ req[r] = Idle
  /\ req' = [req EXCEPT ![r] = [op |-> op, put |-> [x \in DOMAIN new |-> Changed(x, new[x])], partner |-> partner]]
  /\ alone' = (alone /\ \A q \in Request : req[q] = Idle)
  /\ UNCHANGED row
Begin(r, op, new) == BeginWith(r, op, new, None)

Linked(x, y, status) == [row[x] EXCEPT !.partner = y, !.status = status]

\* A row after some of its columns have been written.
Overwritten(cols, old) == [c \in DOMAIN old |-> IF c \in DOMAIN cols THEN cols[c] ELSE old[c]]

Flush(put) == row' = [x \in Row |-> IF x \in DOMAIN put THEN Overwritten(put[x], row[x]) ELSE row[x]]

Commit(r) ==
  /\ req[r] # Idle /\ req[r].partner = None
  /\ Flush(req[r].put)
  /\ req' = [req EXCEPT ![r] = Idle]
  /\ UNCHANGED alone

-----------------------------------------------------------------------------
(* The operations *)

\* auto_match_internal_transactions; the query has no order.
RunMatching(r) ==
  \E ws \in SetToSeqs({t \in Free : Info[t].kind = "withdrawal"}),
     ds \in SetToSeqs({t \in Free : Info[t].kind = "deposit"}) :
      \E took \in Greedy(Transfers, ws, ds) :
    LET pairs == Taken(ws, ds, took)
        both  == pairs \cup {<<p[2], p[1]>> : p \in pairs}
        To(t) == (CHOOSE p \in both : p[1] = t)[2]
    IN Begin(r, "auto", [t \in {p[1] : p \in both} |-> Linked(t, To(t), "matched")])

\* reconcile_invoices: only the invoices are written.
Reconcile(r) ==
  \E is \in SetToSeqs({i \in Invoice : row[i].status = "unmatched"}), ts \in SetToSeqs(Free) :
      \E took \in Greedy(Payments, is, ts) :
    LET pairs == Taken(is, ts, took)
        To(i) == (CHOOSE p \in pairs : p[1] = i)[2]
    IN Begin(r, "reconcile", [i \in {p[1] : p \in pairs} |-> Linked(i, To(i), "matched")])

\* link_invoice_to_transaction: whatever the two are.
LinkInvoice(r, i, t) == Begin(r, "write", [x \in {i} |-> Linked(x, t, "manual")])

\* Mutant: amount and kind are not compared.
ManualMatchAny(r, a, b) ==
  /\ a # b /\ row[a].live /\ row[b].live
  /\ {row[a].status, row[b].status} \subseteq {"unmatched", "manual"}
  /\ Info[a].account # Info[b].account
  /\ Begin(r, "write", [x \in {a, b} |-> Linked(x, IF x = a THEN b ELSE a, "manual")])

\* apply_manual_match: a row that is matched by hand may be matched again.
ManualMatch(r, a, b) ==
  /\ a # b /\ row[a].live /\ row[b].live
  /\ {row[a].status, row[b].status} \subseteq {"unmatched", "manual"}
  /\ Opposite(a, b)
  /\ Begin(r, "write", [x \in {a, b} |-> Linked(x, IF x = a THEN b ELSE a, "manual")])

\* Mutant: the status is emptied too.
UnlinkedNull(x) == Linked(x, None, None)

Unlinked(x) == Linked(x, None, "unmatched")

\* remove_match; a partner is looked up next.
BeginRemove(r, t) ==
  /\ row[t].live
  /\ BeginWith(r, "write", [x \in {t} |-> Unlinked(x)], row[t].partner)

\* soft_delete_transaction; without a partner nothing but the mark is written.
BeginDelete(r, t) ==
  /\ row[t].live
  /\ BeginWith(r, "write",
       [x \in {t} |-> [(IF row[x].partner = None THEN row[x] ELSE Unlinked(x)) EXCEPT !.live = FALSE]], row[t].partner)

\* A row it has read before is the one it writes.
Also(put, p, new) == [x \in DOMAIN put \cup {p} |-> IF x \in DOMAIN put THEN put[x] ELSE Changed(p, new)]

\* Mutant: the partner keeps its status.
ReadPartnerHalf(r) ==
  /\ req[r] # Idle /\ req[r].partner # None
  /\ LET p == req[r].partner
     IN req' = [req EXCEPT ![r].put = Also(@, p, [row[p] EXCEPT !.partner = None]),
                           ![r].partner = None]
  /\ UNCHANGED <<row, alone>>

\* Whoever the row named is unlinked too, whomever that one names.
ReadPartner(r) ==
  /\ req[r] # Idle /\ req[r].partner # None
  /\ LET p == req[r].partner
     IN req' = [req EXCEPT ![r].put = Also(@, p, Unlinked(p)), ![r].partner = None]
  /\ UNCHANGED <<row, alone>>

Restore(r, t) ==
  /\ ~ row[t].live
  /\ Begin(r, "write", [x \in {t} |-> [row[x] EXCEPT !.live = TRUE]])

Init ==
  /\ row = [x \in Row |-> Fresh]
  /\ req = [r \in Request |-> Idle]
  /\ alone = TRUE

Next == \E r \in Request :
  \/ RunMatching(r) \/ Reconcile(r)
  \/ \E i \in Invoice, t \in Txn : LinkInvoice(r, i, t)
  \/ \E a, b \in Txn : ManualMatch(r, a, b)
  \/ \E t \in Txn : BeginRemove(r, t) \/ BeginDelete(r, t) \/ Restore(r, t)
  \/ ReadPartner(r) \/ Commit(r)

Spec == Init /\ [][Next]_vars

-----------------------------------------------------------------------------

\* "자동 후보 생성과 동일 불변식" (matching.py:120): two matched transactions are
\* of one amount, opposite kinds and different accounts, however requests
\* overlap and overwrite each other's links.
PairsFit == \A t \in Txn : row[t].partner # None => Opposite(t, row[t].partner)

\* As long as requests have not overlapped, partner and status of a row agree,
\* also for a partner whose link was replaced, and a deleted transaction is
\* matched with nothing, so that a restored one starts unmatched
\* (matching.py:150-153, 174-185; transactions.py:703-714, 730).
LinksAgree == alone =>
  /\ \A x \in Row : (row[x].partner = None) <=> (row[x].status = "unmatched")
  /\ \A t \in Txn : ~ row[t].live => row[t].partner = None

\* As long as requests have not overlapped, a run of the automatic matching
\* leaves no two transactions, and no invoice with an unclaimed transaction,
\* that it could have matched, whatever the order of the rows
\* (matching.py:38-60, reconcile.py:35-53).
RunIsComplete == [][alone => \A r \in Request : req'[r] = Idle =>
  /\ req[r].op = "auto" => Transfers \cap (Free' \X Free') = {}
  /\ req[r].op = "reconcile" => \A i \in Invoice, t \in Free' :
       row'[i].status = "unmatched" /\ <<i, t>> \in Payments =>
         \E j \in Invoice : row'[j].partner = t]_vars
=============================================================================
