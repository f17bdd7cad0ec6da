------------------------------ MODULE SnsBook ------------------------------
(***************************************************************************)
(* The statistics of the social-media accounts and the workbook of a brand *)
(* that is exported, edited by people and imported again.  A sheet is a    *)
(* sequence of rows of column B (a month among them), C and the rest.       *)
(***************************************************************************)
EXTENDS Integers, SequencesExt

CONSTANTS Channels,    \* account -> platform and language
          Years, Months, Days,
          DefaultYear, \* default_year of the importer
          Counts,      \* numbers of followers
          MaxFacts     \* bound: snapshots and posts

VARIABLES snapshots,   \* social_weekly_snapshots: <<account, year, month, week>> -> followers
          published,   \* social_posts: id -> account, year, month, day
          book         \* the workbook last exported: "none", or what it was made of and its first sheet
bookVars == <<snapshots, published, book>>

Accts == DOMAIN Channels
Weeks == 1 .. 5
NoBook == [year |-> 0, month |-> 0, sheet |-> <<>>]

\* current_iso_week_parts and sns_export._week_of_month, in Python ...
WeekOfMonth(day) == (day - 1) \div 7 + 1
\* ... and week_of_month_expr in SQL, where a cast alone would round.
WeekOfMonthCast(day) == (2 * (day - 1) + 7) \div 14 + 1
WeekOfMonthExpr(day) == (day - 1) \div 7 + 1

SnsBookInit == snapshots = <<>> /\ published = <<>> /\ book = NoBook

Room == Cardinality(DOMAIN snapshots) + Len(published) < MaxFacts
Upserted(new) == [k \in DOMAIN snapshots \cup DOMAIN new |-> IF k \in DOMAIN new THEN new[k] ELSE snapshots[k]]
\* upsert_snapshot: by hand, in bulk, or by a collection.
RecordFollowers(a, y, m, d, n) == /\ Room
                                  /\ snapshots' = Upserted([k \in {<<a, y, m, WeekOfMonth(d)>>} |-> n])
                                  /\ UNCHANGED <<published, book>>
PublishPost(a, y, m, d) == /\ Room
                           /\ published' = Append(published, [acct |-> a, year |-> y, month |-> m, day |-> d])
                           /\ UNCHANGED <<snapshots, book>>

(* ---- statistics ---- *)
PostsIn(as, y, m) == {i \in DOMAIN published : published[i].acct \in as /\ published[i].year = y /\ published[i].month = m}
InWeek(P, w) == {i \in P : WeekOfMonthExpr(published[i].day) = w}
\* compute_weekly_post_counts and collect_brand_workbook_data: the weeks add up as the rows of each come.
WeeklyPostCounts(a, y, m) == [week |-> [w \in Weeks |-> Cardinality(InWeek(PostsIn({a}, y, m), w))],
                              total |-> Cardinality(PostsIn({a}, y, m))]
\* compute_weekly_kpi: one row of each language, platform and week that has a snapshot.
WeeklyKpi(y, m) ==
  LET keys == {<<Channels[k[1]], k[4]>> : k \in {x \in DOMAIN snapshots : x[2] = y /\ x[3] = m}}
      of(key) == {a \in Accts : Channels[a] = key[1]}
  IN {[key |-> key, posts |-> Cardinality(InWeek(PostsIn(of(key), y, m), key[2])),
       followers |-> MapThenSumSet(LAMBDA k : snapshots[k],
                                   {x \in DOMAIN snapshots : x[1] \in of(key) /\ <<x[2], x[3], x[4]>> = <<y, m, key[2]>>})]
      : key \in keys}
\* compute_growth_cards: the newest snapshot and the one before it.
Later(k, l) == k[2] > l[2] \/ (k[2] = l[2] /\ (k[3] > l[3] \/ (k[3] = l[3] /\ k[4] > l[4])))
GrowthCard(a) == LET mine == SetToSortSeq({k \in DOMAIN snapshots : k[1] = a}, Later)
                 IN [current |-> snapshots[mine[1]],
                     prev |-> IF Len(mine) > 1 THEN snapshots[mine[2]] ELSE snapshots[mine[1]]]
\* compute_trend: the last n months, counted as year * 12 + month.
Trend(y, m, n) == {k \in DOMAIN snapshots : k[2] * 12 + k[3] >= y * 12 + m - (n - 1)}

(* ---- export: _build_summary_sheet ---- *)
Line(b, c) == [month |-> 0, b |-> b, c |-> c, cells |-> <<>>]
LanguageLabel == [en |-> "english", zh |-> "chinese", ja |-> "japanese"]
\* Column of a week's followers; the rates of change are in the columns between.
SummaryColumnPlain(w) == w + 3
SummaryColumn(w) == 2 * w + 2
ChannelLine(a, y, m) ==
  [Line("none", Channels[a].platform) EXCEPT
     !.cells = [col \in {SummaryColumn(w) : w \in {x \in Weeks : <<a, y, m, x>> \in DOMAIN snapshots}} |->
                  snapshots[<<a, y, m, CHOOSE w \in Weeks : SummaryColumn(w) = col>>]]]
LanguageBlock(l, y, m) == <<Line(LanguageLabel[l], "none")>>
                          \o SetToSeq({ChannelLine(a, y, m) : a \in {x \in Accts : Channels[x].language = l}})
SummarySheet(y, m) ==
  <<Line("title", "none"), [Line("month", "none") EXCEPT !.month = m], Line("header", "channel")>>
  \o FlattenSeq([i \in 1 .. 3 |-> LET l == <<"en", "ja", "zh">>[i]
                                  IN IF \E a \in Accts : Channels[a].language = l THEN LanguageBlock(l, y, m) ELSE <<>>])
  \o <<Line("total", "none")>>
ExportWorkbook(y, m) == /\ book' = [year |-> y, month |-> m, sheet |-> SummarySheet(y, m)]
                        /\ UNCHANGED <<snapshots, published>>

(* ---- import: _parse_summary_sheet, _upsert_snapshots ---- *)
WeekFollowerColumns == [w \in 1 .. 4 |-> <<4, 6, 8, 10>>[w]]
ParseLine(st, line) ==
  CASE line.month # 0 -> [st EXCEPT !.month = line.month, !.language = "none"]
    [] line.b \in {"total", "header"} -> st
    [] OTHER ->
       LET lang == IF \E l \in DOMAIN LanguageLabel : LanguageLabel[l] = line.b
                   THEN CHOOSE l \in DOMAIN LanguageLabel : LanguageLabel[l] = line.b ELSE st.language
           known == line.c # "none" /\ lang # "none" /\ st.month # 0
       IN [st EXCEPT !.language = lang,
                     !.out = IF ~known THEN @
                             ELSE @ \cup {<<line.c, lang, st.month, w, line.cells[WeekFollowerColumns[w]]>> :
                                            w \in {x \in 1 .. 4 : WeekFollowerColumns[x] \in DOMAIN line.cells}}]
ParseSummarySheet(sheet) == FoldLeft(ParseLine, [month |-> 0, language |-> "none", out |-> {}], sheet).out
\* Of accounts with the same platform and language one stands for all.
AccountOf(p, l) == CHOOSE a \in Accts : Channels[a] = [platform |-> p, language |-> l]
Imported(sheet) ==
  LET parsed == ParseSummarySheet(sheet)
      keyOf(x) == <<AccountOf(x[1], x[2]), DefaultYear, x[3], x[4]>>
  IN Upserted([k \in {keyOf(x) : x \in parsed} |-> (CHOOSE x \in parsed : keyOf(x) = k)[5]])
ImportWorkbook == /\ book # NoBook
                  /\ snapshots' = Imported(book.sheet)
                  /\ UNCHANGED <<published, book>>

SnsBookNext ==
  \/ \E a \in Accts, y \in Years, m \in Months, d \in Days :
       \/ \E n \in Counts : RecordFollowers(a, y, m, d, n)
       \/ PublishPost(a, y, m, d)
  \/ \E y \in Years, m \in Months : ExportWorkbook(y, m)
  \/ ImportWorkbook

(***************************************************************************)
(* The workbook goes round: what the importer reads from a book exported   *)
(* of a month of the default year is, week by week up to the fourth, what  *)
(* the database held, of every channel of the brand and of nothing else.   *)
(***************************************************************************)
WorkbookRoundTrip ==
  \A m \in Months :
    LET sheet == SummarySheet(DefaultYear, m)
        held == {k \in DOMAIN snapshots : k[2] = DefaultYear /\ k[3] = m /\ k[4] <= 4}
    IN /\ Imported(sheet) = snapshots
       /\ ParseSummarySheet(sheet) = {<<Channels[k[1]].platform, Channels[k[1]].language, m, k[4], snapshots[k]>> : k \in held}

(***************************************************************************)
(* The statistics that count posts agree, for every day a month may have:  *)
(* a post counts in the week in which followers recorded on its day count, *)
(* the weeks of a channel add up to its month, and the KPI table shows in  *)
(* each week it shows what the channels of its row have in it.  A trend    *)
(* ends where the growth card of the channel stands.                       *)
(***************************************************************************)
StatisticsAgree ==
  \A y \in Years, m \in Months :
    /\ \A a \in Accts :
         LET c == WeeklyPostCounts(a, y, m)
         IN /\ MapThenSumSet(LAMBDA w : c.week[w], Weeks) = c.total
            /\ \A w \in Weeks : c.week[w] = Cardinality({i \in PostsIn({a}, y, m) : WeekOfMonth(published[i].day) = w})
    /\ \A row \in WeeklyKpi(y, m) :
         row.posts = MapThenSumSet(LAMBDA a : WeeklyPostCounts(a, y, m).week[row.key[2]], {x \in Accts : Channels[x] = row.key[1]})
    /\ \A a \in Accts :
         LET t == {k \in Trend(y, m, 2) : k[1] = a}
         IN t # {} => snapshots[CHOOSE k \in t : \A l \in t \ {k} : Later(k, l)] = GrowthCard(a).current
=============================================================================
