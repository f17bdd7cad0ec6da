----------------------------- MODULE Statements -----------------------------
(***************************************************************************)
(* What the back office reads out of a bank's statement, one operator per  *)
(* parser: the six adapters of services/bank_import/adapters, which find   *)
(* the bank by themselves, and the six parsers of services/excel.py, which *)
(* POST /api/uploads/transactions still uses.  Both pick columns by their  *)
(* position; the banks name them in a header, kept here as Header.  A cell *)
(* holding no amount is 0, which both parsers also make of a zero, and a   *)
(* date nobody can read is 0.                                              *)
(***************************************************************************)
EXTENDS Integers, FiniteSets, Sequences, SequencesExt

\* The header the docstring of each adapter quotes, column by column.
Header == [
  kbstar   |-> <<"no", "date", "party", "out", "in", "bal", "label", "memo", "desc", "branch", "kind">>,
  ibk      |-> <<"blank", "date", "out", "in", "bal", "content", "partyNo", "partyBank", "memo", "kind",
                 "cheque", "cms", "holder">>,
  ibkFx    |-> <<"blank", "date", "ccy", "in", "out", "bal", "summary", "exportNo", "importer">>,
  nonghyup |-> <<"kind", "date", "out", "in", "bal", "content", "record", "branch", "time">>,
  shinhan  |-> <<"no", "select", "date", "summary", "in", "out", "content", "bal", "branch", "payerCode", "memo">>,
  woori    |-> <<"no", "date", "summary", "content", "out", "in", "bal", "branch">>,
  wooriFx  |-> <<"no", "date", "summary", "content", "ccy", "out", "in", "bal", "branch">>,
  hana     |-> <<"date", "summary", "payer", "ccy", "in", "out", "bal", "kind", "branch", "note">>]
Layouts == DOMAIN Header

BankOf(layout) == CASE layout = "ibkFx" -> "ibk" [] layout = "wooriFx" -> "woori" [] OTHER -> layout

(* ---- the adapters ---- *)
KBStar   == [date |-> 2, out |-> 4, in |-> 5, bal |-> 6, desc |-> 9, party |-> 3]
IBK(fx)  == IF fx THEN [date |-> 2, out |-> 5, in |-> 4, bal |-> 6, desc |-> 7, party |-> 9]
                  ELSE [date |-> 2, out |-> 3, in |-> 4, bal |-> 5, desc |-> 6, party |-> 13]
Nonghyup == [date |-> 2, out |-> 3, in |-> 4, bal |-> 5, desc |-> 6, party |-> 7]
Shinhan  == [date |-> 3, out |-> 6, in |-> 5, bal |-> 8, desc |-> 4, party |-> 7]
\* Mutant: deposits and withdrawals swapped.
WooriSwapped(fx) == IF fx THEN [date |-> 2, out |-> 6, in |-> 7, bal |-> 8, desc |-> 3, party |-> 4]
                          ELSE [date |-> 2, out |-> 6, in |-> 5, bal |-> 7, desc |-> 3, party |-> 4]
Woori(fx) == IF fx THEN [date |-> 2, out |-> 6, in |-> 7, bal |-> 8, desc |-> 3, party |-> 4]
                   ELSE [date |-> 2, out |-> 5, in |-> 6, bal |-> 7, desc |-> 3, party |-> 4]
Hana     == [date |-> 1, out |-> 6, in |-> 5, bal |-> 7, desc |-> 2, party |-> 3]

\* A foreign sheet is recognised by its title or a column of its header.
IsForeignSheet(sheet) == "ccy" \in ToSet(Header[sheet.layout])

AdapterColumns(bank, fx) ==
  CASE bank = "kbstar"   -> KBStar
    [] bank = "ibk"      -> IBK(fx)
    [] bank = "nonghyup" -> Nonghyup
    [] bank = "shinhan"  -> Shinhan
    [] bank = "woori"    -> Woori(fx)
    [] bank = "hana"     -> Hana

Cell(sheet, row, i) == IF i \in DOMAIN Header[sheet.layout] THEN row.cell[Header[sheet.layout][i]] ELSE "none"

\* One entry: the deposit column wins; neither column filled, no entry.
Draft(sheet, row, c, filled) ==
  LET in == Cell(sheet, row, c.in)
      out == Cell(sheet, row, c.out)
      entry(amount, type) == <<[date |-> Cell(sheet, row, c.date), amount |-> amount, type |-> type,
                                bal |-> Cell(sheet, row, c.bal), desc |-> Cell(sheet, row, c.desc),
                                party |-> Cell(sheet, row, c.party)]>>
  IN CASE Cell(sheet, row, c.date) = 0 -> <<>>
       [] in \in filled  -> entry(in, "deposit")
       [] out \in filled -> entry(out, "withdrawal")
       [] OTHER       -> <<>>

\* The entries of the rows that have one, in the order of the rows.
Listed(found) ==
  LET with == {i \in DOMAIN found : found[i] # <<>>}
      nth(n) == CHOOSE i \in with : Cardinality({j \in with : j <= i}) = n
  IN [n \in 1 .. Cardinality(with) |-> found[nth(n)][1]]

\* The adapters leave out empty rows and rows of sums.
IsSummaryRow(row) == row.kind = "sum"
Drafts(sheet) ==
  LET c == AdapterColumns(BankOf(sheet.layout), IsForeignSheet(sheet))
      of(row) == IF row.kind = "blank" \/ IsSummaryRow(row) THEN <<>> ELSE Draft(sheet, row, c, Nat \ {0})
  IN Listed([i \in DOMAIN sheet.rows |-> of(sheet.rows[i])])

(* ---- which adapter: detect of each, and the order of the registry ---- *)
\* The words of the title and header of each bank's sheet that an adapter looks for.
Words == [kbstar   |-> {"sender/payee", "in (won)"},       ibk     |-> {"title ibk", "bal after", "holder"},
          ibkFx    |-> {"title ibk fx", "bal after"},      hana    |-> {"bal after", "payer"},
          nonghyup |-> {"title nh", "record", "bal (won)"}, shinhan |-> {"select all", "payer code"},
          woori    |-> {"title woori", "paid (won)"},      wooriFx |-> {"title woori fx", "drawn"}]
Keywords == [kbstar   |-> {"sender/payee"}, ibk |-> {"title ibk", "title ibk fx", "holder"},
             nonghyup |-> {"title nh", "record", "bal (won)"}, shinhan |-> {"select all", "payer code"},
             woori    |-> {"title woori", "title woori fx", "paid (won)", "drawn"},
             hana     |-> {"bal after", "payer"}]
Banks == DOMAIN Keywords
Priority(bank) == IF bank = "hana" THEN 20 ELSE 10

\* One word is enough, except for the words of Hana, which other banks use too.
Detects(bank, sheet, hint) ==
  \/ hint = bank
  \/ IF bank = "hana" THEN Keywords[bank] \subseteq Words[sheet.layout]
                      ELSE Keywords[bank] \cap Words[sheet.layout] # {}

\* The name of the file decides when it names a bank; otherwise the first adapter
\* by priority.  Adapters of one priority keep the order of the list.
ListOrder == <<"kbstar", "ibk", "nonghyup", "shinhan", "woori", "hana">>
DetectAdapter(sheet, hint) ==
  IF hint \in Banks THEN hint
  ELSE LET found == SelectSeq(ListOrder, LAMBDA b : Detects(b, sheet, hint))
       IN IF found = <<>> THEN "none"
          ELSE CHOOSE b \in ToSet(found) : \A c \in ToSet(found) : Priority(b) <= Priority(c)

(* ---- services/excel.py ---- *)
LegacyKB      == [date |-> 2, out |-> 4, in |-> 5, bal |-> 6, desc |-> 9, party |-> 3]
LegacyIBK     == [date |-> 2, out |-> 3, in |-> 4, bal |-> 5, desc |-> 10, party |-> 6]
LegacyNH      == [date |-> 2, out |-> 3, in |-> 4, bal |-> 5, desc |-> 6, party |-> 7]
LegacyShinhan == [date |-> 3, out |-> 6, in |-> 5, bal |-> 8, desc |-> 4, party |-> 7]
LegacyWoori   == [date |-> 2, out |-> 5, in |-> 6, bal |-> 7, desc |-> 3, party |-> 4]
LegacyColumns == [kbstar |-> LegacyKB, ibk |-> LegacyIBK, nonghyup |-> LegacyNH,
                  shinhan |-> LegacyShinhan, woori |-> LegacyWoori]

\* The sheets of Hana always have a column for the currency, so they are refused
\* with every other foreign sheet before their parser runs.
LegacyRefuses(sheet) == IsForeignSheet(sheet)

\* Its word for a sum is also the first syllable of a department's name.
LegacySummaryRow(row) == row.kind \in {"sum", "named like a sum"}
LegacyRows(sheet) ==
  LET c == LegacyColumns[BankOf(sheet.layout)]
      of(row) == IF row.kind = "blank" \/ LegacySummaryRow(row) THEN <<>> ELSE Draft(sheet, row, c, Int \ {0})
  IN Listed([i \in DOMAIN sheet.rows |-> of(sheet.rows[i])])

(* ---- what the header says: the reference for both ---- *)
Stated(sheet) ==
  LET of(row) == IF row.kind \in {"blank", "sum"} \/ row.cell.date = 0 THEN <<>>
                 ELSE CASE row.cell.in > 0  -> <<[date |-> row.cell.date, money |-> row.cell.in, bal |-> row.cell.bal]>>
                        [] row.cell.in <= 0 /\ row.cell.out > 0
                                            -> <<[date |-> row.cell.date, money |-> -row.cell.out, bal |-> row.cell.bal]>>
                        [] OTHER            -> <<>>
  IN FlattenSeq([i \in DOMAIN sheet.rows |-> of(sheet.rows[i])])
Money(d) == [date |-> d.date, money |-> IF d.type = "deposit" THEN d.amount ELSE -d.amount, bal |-> d.bal]
Moneys(ds) == [i \in DOMAIN ds |-> Money(ds[i])]

(***************************************************************************)
(* Every adapter reads the day, the signed amount and the balance of each  *)
(* entry where its bank's header puts them, on won and on foreign sheets,  *)
(* and a sheet without a hint in its name goes to the adapter of its bank. *)
(***************************************************************************)
ReadsItsHeader(sheet) == /\ Moneys(Drafts(sheet)) = Stated(sheet)
                         /\ DetectAdapter(sheet, "none") = BankOf(sheet.layout)
(***************************************************************************)
(* The old parsers read the same money as the adapters from every sheet    *)
(* they accept whose cells are not negative and not named like a sum.      *)
(***************************************************************************)
RoutesReadAlike(sheet) ==
  (/\ ~LegacyRefuses(sheet)
   /\ \A i \in DOMAIN sheet.rows : /\ sheet.rows[i].kind # "named like a sum"
                                   /\ sheet.rows[i].cell.in >= 0 /\ sheet.rows[i].cell.out >= 0)
  => Moneys(LegacyRows(sheet)) = Moneys(Drafts(sheet))
=============================================================================
