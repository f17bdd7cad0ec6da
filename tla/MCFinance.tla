------------------------------ MODULE MCFinance ------------------------------
(***************************************************************************)
(* The finance module for TLC.  Its four parts share no state that another *)
(* part's steps read, so one run checks them side by side: a desk is       *)
(* chosen at the start, and only the part on that desk moves.  At the desk *)
(* "sheets" somebody opens a statement.                                    *)
(***************************************************************************)
EXTENDS Ledger, Catalog, TransferMatching, TLC

VARIABLES desk, sheet

financeVars == <<desk, sheet, ledgerVars, catalogVars, vars>>

(* ---- sheets ---- *)
MCCell(date, in, out, bal) ==
  [date |-> date, in |-> in, out |-> out, bal |-> bal] @@
  [c \in UNION {ToSet(Header[l]) : l \in Layouts} |-> c]
MCCells == {MCCell(date, in, out, 9) : date \in {0, 1}, in \in {0, 5}, out \in {-1, 0, 3}}
MCRows == {[kind |-> k, cell |-> c] : k \in {"entry", "blank", "sum", "named like a sum"}, c \in MCCells}
NoSheet == [layout |-> "kbstar", rows |-> <<>>]
OpenSheet == sheet = NoSheet /\ \E l \in Layouts, rs \in {<<r>> : r \in MCRows} \cup {<<[kind |-> "entry", cell |-> c], r>> : r \in MCRows, c \in MCCells} :
               sheet' = [layout |-> l, rows |-> rs]

(* ---- ledger ---- *)
MCEntry(date, in, out, bal) == [kind |-> "entry", cell |-> MCCell(date, in, out, bal)]
MCR1 == MCEntry(1, 5, 0, 5)
MCR2 == MCEntry(2, 0, 5, 0)
MCR3 == MCEntry(2, 7, 0, 7)
MCFiles == {[layout |-> "kbstar", rows |-> <<MCR1, MCR2>>],
            [layout |-> "kbstar", rows |-> <<MCR2, MCR3, MCR2>>],
            [layout |-> "wooriFx", rows |-> <<>>]}
MCManual == {[date |-> 2, amount |-> 7, type |-> "deposit", bal |-> 7, desc |-> "desc"],
             [date |-> 1, amount |-> 1, type |-> "deposit", bal |-> 6, desc |-> "desc"]}

(* ---- matching: a withdrawal and two deposits of one amount in three accounts, d2 too far from w1
   ---- for the automatic matching, and an invoice paid by the withdrawal ---- *)
CONSTANTS w1, d1, d2, i1
MCTxn(account, kind, day) == [account |-> account, kind |-> kind, amount |-> 10, day |-> day]
MCInfo == w1 :> MCTxn("A", "withdrawal", 1) @@ d1 :> MCTxn("B", "deposit", 2) @@ d2 :> MCTxn("C", "deposit", 5)
MCBill == i1 :> [kind |-> "withdrawal", amount |-> 10, day |-> 2]

FinanceInit == /\ desk \in {"sheets", "ledger", "catalog", "matching"}
               /\ sheet = NoSheet
               /\ LedgerInit /\ CatalogInit /\ Init
FinanceNext ==
  /\ UNCHANGED desk
  /\ \/ desk = "sheets" /\ OpenSheet /\ UNCHANGED <<ledgerVars, catalogVars, vars>>
     \/ desk = "ledger" /\ LedgerNext /\ UNCHANGED <<sheet, catalogVars, vars>>
     \/ desk = "catalog" /\ CatalogNext /\ UNCHANGED <<sheet, ledgerVars, vars>>
     \/ desk = "matching" /\ Next /\ UNCHANGED <<sheet, ledgerVars, catalogVars>>
FinanceSpec == FinanceInit /\ [][FinanceNext]_financeVars

FinanceSymmetry == Permutations(Request)

(***************************************************************************)
(* services/bank_import and services/excel.py: every sheet is read as its  *)
(* header says, by whichever route (see Statements).                       *)
(***************************************************************************)
SheetsReadRight == ReadsItsHeader(sheet) /\ RoutesReadAlike(sheet)
=============================================================================
