----------------------------- MODULE TradeBooks -----------------------------
(***************************************************************************)
(* The trade books of the distribution module: weekly summaries, the stock *)
(* of products and customs declarations, loaded from workbooks, and the    *)
(* sums the settlement page and the dashboard show of them.  An upload is  *)
(* one transaction: what it reads to tell new rows from old ones is as of  *)
(* that statement, and the unique keys hold at its commit.                 *)
(***************************************************************************)
EXTENDS Integers, FiniteSets, SequencesExt, TLC

CONSTANTS Importers,       \* uploads served at the same time
          Workbooks,       \* the files people upload: blocks of weeks, and stock lines
          DeclarationFiles,\* the customs files: what each way of reading one would find in it
          KnownCompanies, DefaultCompany, ThisYear,
          MaxUploads       \* bound

ASSUME TradeAssumption == {ThisYear, MaxUploads} \subseteq Nat

VARIABLES weekly,      \* distribution_weekly_summary: <<company, from, to>> -> item -> amount
          products,    \* distribution_products: set of [company, upload, line, row]
          customs,     \* distribution_customs_declarations: set of [upload, line, row]
          imports,     \* importer -> what its upload has read
          uploaded     \* uploads begun
tradeVars == <<weekly, products, customs, imports, uploaded>>

NoImport == [op |-> "none", no |-> 0, file |-> <<>>, company |-> "", new |-> {}, seen |-> {}, crossed |-> FALSE]
Nothing == [x \in {} |-> 0]
TradeInit == /\ weekly = Nothing /\ products = {} /\ customs = {}
             /\ imports = [r \in Importers |-> NoImport]
             /\ uploaded = 0

(* ---- the sheet of a file: per block a year, a header with the weeks, a line per item, an empty line ---- *)
Items == <<"kr_purchase", "account_deposit">>
TradeLine == [kind |-> "blank", year |-> 0, company |-> "", weeks |-> {}, item |-> "", amounts |-> Nothing]
LinesOf(b) ==
  <<IF b.year = 0 THEN TradeLine ELSE [TradeLine EXCEPT !.kind = "year", !.year = b.year],
    [TradeLine EXCEPT !.kind = "head", !.weeks = DOMAIN b.amounts[1]]>>
  \o [i \in DOMAIN b.amounts |-> [TradeLine EXCEPT !.kind = "item", !.item = Items[i], !.amounts = b.amounts[i],
                                              !.company = IF i = 1 THEN b.company ELSE ""]]
  \o <<TradeLine>>
Sheet(file) == FlattenSeq([i \in DOMAIN file.blocks |-> LinesOf(file.blocks[i])])

(* ---- parse_summary_sheet ---- *)
LeastOf(S, default) == IF S = {} THEN default ELSE CHOOSE x \in S : \A y \in S : x <= y
GreatestOf(S, default) == IF S = {} THEN default ELSE CHOOSE x \in S : \A y \in S : x >= y
BlockEnd(lines, h) == LeastOf({i \in h + 1 .. Len(lines) : lines[i].kind \in {"blank", "head"}}, Len(lines) + 1)
\* _detect_year_marker: the uppermost of the five lines above the header.
YearOf(lines, h) ==
  LET marked == {i \in h - 5 .. h - 1 : i >= 1 /\ lines[i].kind = "year"}
  IN IF marked = {} THEN ThisYear ELSE lines[LeastOf(marked, 0)].year
\* _period_label_to_dates: a week that ends before it starts ends in the next year.
\* Mutant: it ends in the same year.
DatesSameYear(week, year) == <<year * 10000 + week[1], year * 10000 + week[2]>>
Dates(week, year) == <<year * 10000 + week[1], (IF week[2] < week[1] THEN year + 1 ELSE year) * 10000 + week[2]>>
BlockRows(lines, h) ==
  LET body == h + 1 .. BlockEnd(lines, h) - 1
      company == lines[GreatestOf({i \in body : lines[i].company # ""}, h)].company
      values(w) == FoldLeft(LAMBDA v, i : IF w \in DOMAIN lines[i].amounts THEN lines[i].item :> lines[i].amounts[w] @@ v ELSE v,
                            Nothing, SetToSortSeq(body, <))
  IN IF company = "" THEN {}
     ELSE {[company |-> company, dates |-> Dates(w, YearOf(lines, h)), values |-> values(w)] : w \in lines[h].weeks}
ParseSummary(lines) ==
  LET heads == SetToSortSeq({h \in DOMAIN lines : lines[h].kind = "head" /\ lines[h].weeks # {}}, <)
  IN FlattenSeq([k \in DOMAIN heads |-> SelectSeq(SetToSeq(BlockRows(lines, heads[k])), LAMBDA row : row.values # Nothing)])
\* parse_products_sheet: the lines that count; one without a brand is a total.
ParseProducts(file) == {i \in DOMAIN file.stock : file.stock[i].brand # ""}

(* ---- ingest_excel ---- *)
\* _resolve_company_label, for all rows of the file.
ResolveCompany(explicit, rows) ==
  IF explicit # "" THEN explicit ELSE IF rows = <<>> THEN DefaultCompany ELSE rows[1].company
Key(company, row) == <<company, row.dates[1], row.dates[2]>>
Others(r) == {q \in Importers \ {r} : imports[q].op # "none"}
Import(r, im) == imports' = [q \in Importers |->
                               CASE q = r -> [im EXCEPT !.crossed = Others(r) # {}]
                                 [] q \in Others(r) -> [imports[q] EXCEPT !.crossed = TRUE]
                                 [] OTHER -> imports[q]]
\* _upsert_weekly_summary: which rows are new is decided by what is committed now.
BeginUpload(r, f, explicit) ==
  LET rows == ParseSummary(Sheet(f))
      company == ResolveCompany(explicit, rows)
  IN /\ imports[r].op = "none" /\ uploaded < MaxUploads
     /\ uploaded' = uploaded + 1
     /\ Import(r, [NoImport EXCEPT !.op = "summary", !.no = uploaded + 1, !.file = f, !.company = company,
                                   !.new = {Key(company, rows[i]) : i \in DOMAIN rows} \ DOMAIN weekly])
     /\ UNCHANGED <<weekly, products, customs>>
\* _replace_products: the rows the DELETE sees go; a file without any leaves the stock alone.
\* Mutant: the stock of every company is replaced.
SeenOfAll(company) == products
SeenOf(company) == {p \in products : p.company = company}
WipeProducts(r) ==
  /\ imports[r].op = "summary"
  /\ imports' = [imports EXCEPT ![r].op = "products",
                                ![r].seen = IF ParseProducts(imports[r].file) = {} THEN {} ELSE SeenOf(imports[r].company)]
  /\ UNCHANGED <<weekly, products, customs, uploaded>>
\* A column the file does not have keeps its amount.
SummaryUpserted(old, company, rows) ==
  FoldLeft(LAMBDA t, row : LET k == Key(company, row) IN k :> (row.values @@ (IF k \in DOMAIN t THEN t[k] ELSE Nothing)) @@ t, old, rows)
Stock(im) == {[company |-> im.company, upload |-> im.no, line |-> i, row |-> im.file.stock[i]] : i \in ParseProducts(im.file)}
\* The unique key of a week meets no row that was committed meanwhile.
WeeksAreNew(im) == im.new \cap DOMAIN weekly = {}
CommitUpload(r) ==
  LET im == imports[r]
      ok == WeeksAreNew(im)
  IN /\ im.op = "products"
     /\ weekly' = IF ok THEN SummaryUpserted(weekly, im.company, ParseSummary(Sheet(im.file))) ELSE weekly
     /\ products' = IF ok THEN (products \ im.seen) \cup Stock(im) ELSE products
     /\ imports' = [imports EXCEPT ![r] = NoImport]
     /\ UNCHANGED <<customs, uploaded>>

(* ---- parse_customs_file: the model, then the tables, then the lines of a PDF; a sheet has its table only ---- *)
\* A line or a cell that says nothing is no declaration; 0 is a price that is missing.
Identified(d) == d.number # "" \/ d.price # 0
\* reverse_calc_actual_price: an import is declared at three quarters of its price, and so is what has no type.
ReverseCalc(d) == IF d.price <= 0 THEN -1 ELSE IF d.type = "export" THEN d.price ELSE (d.price * 4) \div 3
Valued(d) == [number |-> d.number, price |-> d.price, actual |-> ReverseCalc(d)]
ByModel(f) == SelectSeq(f.llm, Identified)
Untyped(rows) == [i \in DOMAIN rows |-> [rows[i] EXCEPT !.type = ""]]
RowsOfTable(t) == IF t.header THEN Untyped(SelectSeq(t.rows, Identified)) ELSE <<>>
\* _parse_pdf_lines: a line counts when it has a number; the largest amount in it is the price.
LargestAmount(line) == GreatestOf(line.amounts, 0)
RowsOfLines(lines) ==
  LET numbered == SelectSeq(lines, LAMBDA l : l.number # "")
  IN [i \in DOMAIN numbered |-> [number |-> numbered[i].number, price |-> LargestAmount(numbered[i]), type |-> ""]]
\* heard: the model can be called and its answer can be read.
ParsePdf(f, heard) ==
  LET tables == SelectSeq(f.tables, LAMBDA t : RowsOfTable(t) # <<>>)
  IN IF ~f.text THEN <<>>
     ELSE IF heard /\ ByModel(f) # <<>> THEN ByModel(f)
     ELSE IF tables # <<>> THEN RowsOfTable(tables[1])
     ELSE RowsOfLines(f.lines)
ParseDeclarations(f, heard) == IF f.kind = "sheet" THEN RowsOfTable(f.tables[1]) ELSE ParsePdf(f, heard)

(* ---- ingest_customs ---- *)
Numbers == {c.row.number : c \in customs} \ {""}
BeginCustoms(r, f, heard) ==
  LET rows == ParseDeclarations(f, heard)
  IN /\ imports[r].op = "none" /\ uploaded < MaxUploads
     /\ uploaded' = uploaded + 1
     /\ Import(r, [NoImport EXCEPT !.op = "customs", !.no = uploaded + 1, !.file = rows,
                                   !.new = {rows[i].number : i \in DOMAIN rows} \ (Numbers \cup {""})])
     /\ UNCHANGED <<weekly, products, customs>>
\* _upsert_one: a row with the number of another, in the table or earlier in the file, replaces it.
UpsertDeclaration(table, no, i, d) ==
  LET same == {c \in table : d.number # "" /\ c.row.number = d.number}
  IN IF same = {} THEN table \cup {[upload |-> no, line |-> i, row |-> Valued(d)]}
     ELSE (table \ same) \cup {[c EXCEPT !.row = Valued(d)] : c \in same}
\* The numbers that were new still are, and the row of each other one is still there.
NumbersAreAsRead(im) ==
  /\ im.new \cap Numbers = {}
  /\ {im.file[i].number : i \in DOMAIN im.file} \subseteq im.new \cup Numbers \cup {""}
CommitCustoms(r) ==
  LET im == imports[r]
  IN /\ im.op = "customs"
     /\ customs' = IF NumbersAreAsRead(im)
                   THEN FoldLeft(LAMBDA t, i : UpsertDeclaration(t, im.no, i, im.file[i]), customs, [i \in DOMAIN im.file |-> i])
                   ELSE customs
     /\ imports' = [imports EXCEPT ![r] = NoImport]
     /\ UNCHANGED <<weekly, products, uploaded>>
DeleteDeclaration(c) == /\ customs' = customs \ {c}
                        /\ imports' = [r \in Importers |-> [imports[r] EXCEPT !.crossed = imports[r].op # "none"]]
                        /\ UNCHANGED <<weekly, products, uploaded>>

TradeNext ==
  \/ \E r \in Importers :
       \/ \E f \in Workbooks, explicit \in KnownCompanies \cup {""} : BeginUpload(r, f, explicit)
       \/ WipeProducts(r) \/ CommitUpload(r)
       \/ \E f \in DeclarationFiles, heard \in BOOLEAN : BeginCustoms(r, f, heard)
       \/ CommitCustoms(r)
  \/ \E c \in customs : DeleteDeclaration(c)
TradeSpec == TradeInit /\ [][TradeNext]_tradeVars

(* ---- the sums: settlement_service and dashboard_service ---- *)
Amount(k, item) == IF item \in DOMAIN weekly[k] THEN weekly[k][item] ELSE 0
Total(S, f(_)) == FoldSet(LAMBDA x, n : n + f(x), 0, S)
CashFlow(company) == {k \in DOMAIN weekly : company \in {"", k[1]}}
Settlement(company) == Total(CashFlow(company), LAMBDA k : Amount(k, "kr_purchase") - Amount(k, "account_deposit"))
ByCompany == [c \in KnownCompanies |-> Settlement(c)]
Overview == [purchase |-> Total(DOMAIN weekly, LAMBDA k : Amount(k, "kr_purchase")),
             deposit |-> Total(DOMAIN weekly, LAMBDA k : Amount(k, "account_deposit")),
             stock |-> Total(products, LAMBDA p : p.row.qty)]
WeeklyTrends == [d \in {k[2] : k \in DOMAIN weekly} |->
                   Total({k \in DOMAIN weekly : k[2] = d}, LAMBDA k : Amount(k, "kr_purchase") - Amount(k, "account_deposit"))]
CategoryOf(p) == IF p.row.category = "" THEN "unclassified" ELSE p.row.category
CategoryDistribution == [c \in {CategoryOf(p) : p \in products} |-> Total({p \in products : CategoryOf(p) = c}, LAMBDA p : p.row.qty)]
BrandDistribution == [b \in {p.row.brand : p \in products} |-> Total({p \in products : p.row.brand = b}, LAMBDA p : p.row.qty)]
CustomsSummary == [declared |-> Total(customs, LAMBDA c : c.row.price), actual |-> Total({c \in customs : c.row.actual >= 0}, LAMBDA c : c.row.actual)]
BooksAgree ==
  LET out == Overview.purchase - Overview.deposit
  IN /\ Settlement("") = out
     /\ out = Total(DOMAIN WeeklyTrends, LAMBDA d : WeeklyTrends[d])
     /\ out = Total(KnownCompanies, LAMBDA c : ByCompany[c])
              + Total({k[1] : k \in DOMAIN weekly} \ KnownCompanies, LAMBDA c : Settlement(c))
     /\ Overview.stock = Total(DOMAIN BrandDistribution, LAMBDA b : BrandDistribution[b])
     /\ CustomsSummary.declared <= CustomsSummary.actual
     /\ Overview.stock = Total(DOMAIN CategoryDistribution, LAMBDA c : CategoryDistribution[c])

(***************************************************************************)
(* An upload that nobody crosses leaves the books as its file has them:    *)
(* every week of every block under its own dates, the stock of its company *)
(* and of no other, each declaration number once, as its last line has it; *)
(* and the pages that sum the books agree.                                 *)
(***************************************************************************)
Ends(r) == imports[r].op \in {"products", "customs"} /\ imports'[r].op = "none"
WeeksRead(im) ==
  \A b \in ToSet(im.file.blocks), i \in 1 .. 2 :
    \A w \in DOMAIN b.amounts[i] :
      \E k \in DOMAIN weekly' :
        /\ k[1] = im.company
        /\ k[2] = (IF b.year = 0 THEN ThisYear ELSE b.year) * 10000 + w[1]
        /\ k[3] > k[2] /\ k[3] % 10000 = w[2] /\ k[3] - k[2] < 10000
        /\ weekly'[k][Items[i]] = b.amounts[i][w]
StockReplaced(im) ==
  LET mine(table) == {p \in table : p.company = im.company}
  IN /\ products' \ mine(products') = products \ mine(products)
     /\ ParseProducts(im.file) # {} => {p.upload : p \in mine(products')} = {im.no}
DeclaredOnce(im) ==
  \A i \in DOMAIN im.file :
    im.file[i].number # "" /\ (\A j \in i + 1 .. Len(im.file) : im.file[j].number # im.file[i].number) =>
      LET mine == {c \in customs' : c.row.number = im.file[i].number}
      IN Cardinality(mine) = 1 /\ \A c \in mine : c.row.price = im.file[i].price
BooksFollowUploads ==
  [][/\ \A r \in Importers : Ends(r) /\ ~imports[r].crossed =>
          IF imports[r].op = "products" THEN WeeksRead(imports[r]) /\ StockReplaced(imports[r]) ELSE DeclaredOnce(imports[r])
     /\ <<weekly, products, customs>>' # <<weekly, products, customs>> => BooksAgree']_tradeVars
=============================================================================
