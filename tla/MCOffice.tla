------------------------------ MODULE MCOffice ------------------------------
(***************************************************************************)
(* The components of the office for TLC.  They share no state: each has    *)
(* its own tables, so one run checks them side by side.  A desk is chosen  *)
(* at the start, and only the component on that desk moves.                *)
(***************************************************************************)
EXTENDS SnsPosts, SnsBook, Generation, PersonaLogin, Chat, TradeBooks, DocGen, NasSearch, Access

VARIABLE desk

(* ---- the channels of a brand, two languages of one platform among them ---- *)
MCMedia == {1, 2}
MCChannels == [fe |-> [platform |-> "facebook", language |-> "en"], ie |-> [platform |-> "instagram", language |-> "en"],
               fz |-> [platform |-> "facebook", language |-> "zh"]]

(* ---- three personas, one of them not on the list; an upload of the first user ---- *)
MCRoleOf == <<"domestic_admin", "domestic_admin", "vietnam_admin">>
MCPicks == {{1, 3}}
MCOwnerOf == <<"u1">>
MCMediaCost == [u1 |-> 0, u2 |-> 1]

(* ---- a workbook whose weeks pass the turn of the year, one of an unknown company, one with stock only;
   ---- declarations of which one has two lines and one no number ---- *)
MCStock(b, c, q) == [brand |-> b, category |-> c, qty |-> q]
MCBlock(y, c, w, a, d) == [year |-> y, company |-> c, amounts |-> <<w :> a, w :> d>>]
MCWorkbooks == {[blocks |-> <<MCBlock(2025, "A", <<1229, 104>>, 5, 2), MCBlock(2026, "A", <<105, 111>>, 3, 1)>>,
                 stock |-> <<MCStock("b", "", 1), MCStock("", "", 1), MCStock("b", "Bag", 2)>>],
                [blocks |-> <<MCBlock(0, "Z", <<105, 111>>, 4, 0)>>, stock |-> <<>>],
                [blocks |-> <<>>, stock |-> <<MCStock("c", "Bag", 4)>>]}
MCDeclared(n, p, t) == [number |-> n, price |-> p, type |-> t]
MCTable(header, rows) == [header |-> header, rows |-> rows]
MCTwoLines == <<MCDeclared("n1", 3, ""), MCDeclared("", 3, ""), MCDeclared("n1", 6, ""), MCDeclared("", 0, "")>>
MCDeclarationFiles ==
  {[kind |-> "sheet", text |-> TRUE, llm |-> <<>>, tables |-> <<MCTable(TRUE, MCTwoLines)>>, lines |-> <<>>],
   [kind |-> "pdf", text |-> TRUE, llm |-> <<MCDeclared("n1", 9, "export")>>, tables |-> <<MCTable(FALSE, <<>>), MCTable(FALSE, MCTwoLines)>>,
    lines |-> <<[number |-> "", amounts |-> {1}], [number |-> "n1", amounts |-> {3, 9}]>>],
   [kind |-> "pdf", text |-> TRUE, llm |-> <<>>, tables |-> <<MCTable(FALSE, <<>>), MCTable(TRUE, <<MCDeclared("n1", 12, "")>>)>>, lines |-> <<>>]}

(* ---- drafts with a heading twice and a section without one; verdicts that fault some, twice, or nothing ---- *)
MCDrafts == {<<>>, <<"a", "b", "c">>, <<"a", "", "a">>}
MCSays(h, g, n) == [heading |-> h, grounded |-> g, issues |-> n]
MCVerdicts == {{}, {MCSays("a", TRUE, 0)}, {MCSays("a", TRUE, 1), MCSays("b", FALSE, 0), MCSays("c", TRUE, 2)},
               {MCSays("a", TRUE, 1), MCSays("a", FALSE, 2), MCSays("b", TRUE, 1)}, {MCSays("", FALSE, 1), MCSays("d", FALSE, 1)}}
MCFound(p, s) == [path |-> p, score |-> s]
MCFinds == {{MCFound(1, 1), MCFound(2, 3), MCFound(1, 2)}}

(* ---- three documents of two departments, one of the company itself, scrolled out of their order; after
   ---- the next indexing one is gone and another has moved ---- *)
MCChunk(id, doc, dept, index, cosines, terms, rerank) ==
  [id |-> id, doc |-> doc, dept |-> dept, index |-> index, own |-> doc = "ours",
   cosine |-> cosines, terms |-> terms, rerank |-> rerank]
MCLate == MCChunk(1, "plan", "D", 2, <<7, 4>>, {"k"}, 2)
MCEarly == MCChunk(2, "plan", "D", 1, <<6, 9>>, {}, 6)
MCOurs == MCChunk(3, "ours", "D", 1, <<5, 3>>, {"k", "m"}, 2)
MCAnyone == MCChunk(4, "note", "E", 1, <<9, 7>>, {"k"}, 5)
MCNumber == MCChunk(5, "note", "E", 2, <<2, 8>>, {"x9"}, 4)
MCCorpora == {<<MCLate, MCEarly, MCOurs, MCAnyone, MCNumber>>,
              <<MCNumber, [MCAnyone EXCEPT !.dept = "D"], MCLate, MCEarly>>, <<MCOurs>>}
MCScopes == {{}, {"D"}, {"E"}}

(* ---- accounts of two departments, and what an administrator may say of them ---- *)
MCApproval(p, r, x) == [primary |-> p, role |-> r, extras |-> x]
MCApprovals == {MCApproval("D", "member", {"E"}), MCApproval("E", "admin", {})}
MCPatch(s, l) == [set |-> s, listed |-> l]
MCPatches == {MCPatch([primary |-> "E"], {}), MCPatch([primary |-> "D", role |-> "member"], {{"E"}}), MCPatch([active |-> TRUE], {{"E"}}),
              MCPatch([active |-> FALSE], {}), MCPatch([status |-> "pending", role |-> "admin"], {{}})}
MCGrantSets == {{}, {"m", "dashboard"}}

OfficeInit == /\ desk \in {"posts", "book", "generation", "login", "chat", "trade", "documents", "search", "access"}
              /\ SnsInit /\ SnsBookInit /\ GenerationInit /\ LoginInit /\ ChatInit /\ TradeInit /\ DocGenInit /\ NasInit /\ AccessInit
              /\ (desk # "posts" => platform = "facebook")
              /\ (desk # "search" => corpus = CHOOSE c \in Corpora : TRUE)
OfficeNext ==
  /\ UNCHANGED desk
  /\ \/ desk = "posts" /\ SnsNext /\ UNCHANGED <<bookVars, genVars, loginVars, chatVars, tradeVars, docgenVars, nasVars, accessVars>>
     \/ desk = "book" /\ SnsBookNext /\ UNCHANGED <<snsVars, genVars, loginVars, chatVars, tradeVars, docgenVars, nasVars, accessVars>>
     \/ desk = "generation" /\ GenerationNext /\ UNCHANGED <<snsVars, bookVars, loginVars, chatVars, tradeVars, docgenVars, nasVars, accessVars>>
     \/ desk = "login" /\ LoginNext /\ UNCHANGED <<snsVars, bookVars, genVars, chatVars, tradeVars, docgenVars, nasVars, accessVars>>
     \/ desk = "chat" /\ ChatNext /\ UNCHANGED <<snsVars, bookVars, genVars, loginVars, tradeVars, docgenVars, nasVars, accessVars>>
     \/ desk = "trade" /\ TradeNext /\ UNCHANGED <<snsVars, bookVars, genVars, loginVars, chatVars, docgenVars, nasVars, accessVars>>
     \/ desk = "search" /\ NasNext /\ UNCHANGED <<snsVars, bookVars, genVars, loginVars, chatVars, tradeVars, docgenVars, accessVars>>
     \/ desk = "access" /\ AccessNext /\ UNCHANGED <<snsVars, bookVars, genVars, loginVars, chatVars, tradeVars, docgenVars, nasVars>>
     \/ desk = "documents" /\ DocGenNext /\ UNCHANGED <<snsVars, bookVars, genVars, loginVars, chatVars, tradeVars, nasVars, accessVars>>
OfficeSpec == OfficeInit /\ [][OfficeNext]_<<desk, snsVars, bookVars, genVars, loginVars, chatVars, tradeVars, docgenVars, nasVars, accessVars>>

(***************************************************************************)
(* The figures the marketing team reads, in the statistics and in the      *)
(* workbook it edits by hand, are those of the database (see SnsBook).     *)
(***************************************************************************)
FiguresAgree == desk = "book" => WorkbookRoundTrip /\ StatisticsAgree

\* Each component serves the same two requests.
OfficeSymmetry == Permutations(Collectors)
=============================================================================
