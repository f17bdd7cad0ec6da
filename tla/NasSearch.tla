----------------------------- MODULE NasSearch -----------------------------
(***************************************************************************)
(* Search in the documents of the NAS (services/nas_search/bridge.py,      *)
(* qdrant_search.py, hybrid.py, routers/nas_search.py,                     *)
(* services/playground/nas_rag.py).  Qdrant keeps the chunks of documents  *)
(* in the order it scrolls them.  A search for documents asks a vector arm *)
(* and a keyword arm and fuses their ranks; a search for chunks asks with  *)
(* one query, one in each language, or one for each variable of a form.    *)
(* An indexer outside this code may change the corpus between two reads.   *)
(*                                                                         *)
(* Cosines and reranker scores are integers; a rank r counts               *)
(* Scale / (RrfK + r).                                                     *)
(***************************************************************************)
EXTENDS Integers, FiniteSets, SequencesExt

CONSTANTS
  Searchers,   \* requests
  Corpora,     \* sequences of chunks the indexer may leave (a bound)
  Variants,    \* the queries one request asks with, 1 .. n
  Words,       \* the words of the query
  Terms,       \* they and their romanised forms; those in Rare hold a digit or are long
  Rare,
  Scopes,      \* sets of department labels, {} when nothing is restricted
  PageSize,    \* body.limit, limit
  Overfetch, RerankPool, RerankTop, KeywordScan, PerVariable, PerFile, PerChat, ScrollFloor,
  MinRelevance, MinRerank, Boost, Strong, RrfK, Scale,
  MaxReindex   \* bound: changes of the corpus

\* The id of a point is made of path and place, a document is its path
\* (docs/reviews/REVIEW_INCREMENTAL_EMBEDDING_FRIDAY_SCHEDULE.md:26); what is
\* compared are numbers; nas_min_relevance is below the 0.85 of a strong match.
NasAssumption ==
  /\ {PageSize, Overfetch, RerankPool, RerankTop, KeywordScan, PerVariable, PerFile, PerChat, ScrollFloor, RrfK, Scale, Variants} \subseteq Nat
  /\ {MinRelevance, MinRerank, Boost, Strong} \subseteq Int /\ Variants # 0 /\ MinRelevance <= Strong /\ IsFiniteSet(Terms)
  /\ \A c \in Corpora :
       /\ c \in Seq(ToSet(c))
       /\ \A i \in DOMAIN c : /\ {c[i].index, c[i].rerank} \subseteq Int
                               /\ \A q \in 1 .. Variants : c[i].cosine[q] \in Int
       /\ \A i, j \in DOMAIN c : c[i].id = c[j].id \/ (c[i].doc = c[j].doc /\ c[i].index = c[j].index) => i = j
  /\ \A c, e \in Corpora : \A i \in DOMAIN c, j \in DOMAIN e : c[i].id = e[j].id => c[i].doc = e[j].doc
ASSUME NasAssumption

VARIABLES
  corpus, indexed,
  asks         \* what each request asks, has read and has found

nasVars == <<corpus, indexed, asks>>

-----------------------------------------------------------------------------
(* Lists, and what Qdrant answers *)

\* The elements of S in the order R, which is strict.
Sorted(S, R) == [k \in 1 .. Cardinality(S) |-> CHOOSE x \in S : Cardinality({y \in S : <<y, x>> \in R}) = k - 1]
Upwards(S) == {p \in S \X S : p[1] < p[2]}

\* What stands in s at the places of S.
Kept(s, S) == LET order == Sorted(S, Upwards(S)) IN [k \in DOMAIN order |-> s[order[k]]]
Take(s, n) == SubSeq(s, 1, IF n < Len(s) THEN n ELSE Len(s))

\* One list after the other.
Places(lists) == UNION {{<<i, j>> : j \in DOMAIN lists[i]} : i \in DOMAIN lists}
Joined(lists) ==
  LET order == Sorted(Places(lists), {p \in Places(lists) \X Places(lists) :
                                        p[1][1] < p[2][1] \/ (p[1][1] = p[2][1] /\ p[1][2] < p[2][2])})
  IN  [k \in DOMAIN order |-> lists[order[k][1]][order[k][2]]]

\* A stable sort, best score first.
Better(hits) == {p \in (DOMAIN hits) \X (DOMAIN hits) :
                   hits[p[1]].score > hits[p[2]].score \/ (hits[p[1]].score = hits[p[2]].score /\ p[1] < p[2])}
ByScore(hits) == LET order == Sorted(DOMAIN hits, Better(hits)) IN [k \in DOMAIN order |-> hits[order[k]]]

Scored(p, s) == [chunk |-> p, score |-> s]
InScope(p, labels) == labels = {} \/ p.dept \in labels
Points(c, labels) == Kept(c, {i \in DOMAIN c : InScope(c[i], labels)})
Nearest(c, q, labels, n) ==
  LET points == Points(c, labels)
  IN  Take(ByScore([i \in DOMAIN points |-> Scored(points[i], points[i].cosine[q])]), n)

\* The first of each key stays.
FirstOf(hits, key) == Kept(hits, {i \in DOMAIN hits : \A j \in 1 .. i - 1 : hits[j].chunk[key] # hits[i].chunk[key]})

\* 1 / (RrfK + rank) of each list that holds the key, counted in points of 1 / Scale.
Ranked(lists, key, k) ==
  Cardinality({v \in (DOMAIN lists) \X (1 .. Scale) :
                 \E i \in DOMAIN lists[v[1]] : lists[v[1]][i].chunk[key] = k /\ v[2] <= Scale \div (RrfK + i)})
Fused(lists, key) ==
  LET hits == FirstOf(Joined(lists), key)
  IN  ByScore([i \in DOMAIN hits |-> Scored(hits[i].chunk, Ranked(lists, key, hits[i].chunk[key]))])

IdOf(h) == h.chunk.id
DocOf(h) == h.chunk.doc

-----------------------------------------------------------------------------
(* Scope *)

\* Mutant: an empty intersection opens everything.
EffectiveOpen(manual, auto) ==
  IF manual = {} THEN auto ELSE IF auto = {} THEN manual ELSE manual \cap auto

\* _effective_dept_labels: a choice outside the scope falls back on the scope.
Effective(manual, auto) ==
  CASE manual = {} -> auto
    [] manual # {} /\ auto = {} -> manual
    [] manual # {} /\ auto # {} -> IF manual \cap auto # {} THEN manual \cap auto ELSE auto

-----------------------------------------------------------------------------
(* Search for chunks *)

Boosted(hits, bonus) ==
  ByScore([i \in DOMAIN hits |-> Scored(hits[i].chunk, IF hits[i].chunk.own THEN hits[i].score + bonus ELSE hits[i].score)])
Relevant(hits) == Kept(hits, {i \in DOMAIN hits : hits[i].score >= MinRerank})

\* Mutant: documents of the own company pass the gate with their bonus.
GatedBoosted(hits) == Relevant(Boosted(hits, Boost))

\* The gate comes before the bonus.
Gated(hits) == Boosted(Relevant(ByScore(hits)), Boost)

Reranked(hits) == [i \in DOMAIN hits |-> Scored(hits[i].chunk, hits[i].chunk.rerank)]

\* reranker is "off", "works" or "fails".
Chunks(c, q, labels, n, reranker) ==
  LET wanted == IF reranker = "off" THEN 2 * n ELSE 3 * n
      hits == Nearest(c, q, labels, IF wanted < RerankPool THEN wanted ELSE RerankPool)
  IN  CASE reranker = "off" \/ Len(hits) <= 1 -> Take(Boosted(hits, Boost), n)
        [] reranker = "works" /\ Len(hits) > 1 -> Take(Gated(Reranked(hits)), n)
        [] reranker = "fails" /\ Len(hits) > 1 -> Take(hits, n)

Answered(queries, failing) == Kept(queries, {i \in DOMAIN queries : queries[i] \notin failing})

\* One list for each language; a language that fails is left out.  One query
\* alone that fails finds nothing: the request ends in an error.
InLanguages(c, queries, failing, labels, n) ==
  LET pool == IF 2 * n < RerankPool THEN 2 * n ELSE RerankPool
      answered == Answered(queries, failing)
      lists == [i \in DOMAIN answered |-> Nearest(c, answered[i], labels, pool)]
  IN  IF Len(queries) = 1 /\ answered # <<>> THEN Chunks(c, queries[1], labels, n, "off")
      ELSE Take(Boosted(Fused(lists, "id"), Scale \div (RrfK + 1)), n)

\* The best score of a chunk over all variables.
ForVariables(c, queries, failing, labels) ==
  LET answered == Answered(queries, failing)
      all == Joined([i \in DOMAIN answered |-> Nearest(c, answered[i], labels, PerVariable)])
      best(h) == ByScore(Kept(all, {i \in DOMAIN all : IdOf(all[i]) = IdOf(h)}))[1]
      distinct == FirstOf(all, "id")
  IN  ByScore([i \in DOMAIN distinct |-> best(distinct[i])])

\* The context of a chat: twice as many in all languages, of a document the
\* first PerChat.
ForChat(c, queries, failing, n) ==
  LET hits == InLanguages(c, queries, failing, {}, 2 * n)
      early(i) == Cardinality({j \in 1 .. i : DocOf(hits[j]) = DocOf(hits[i])}) <= PerChat
  IN  Take(Kept(hits, {i \in DOMAIN hits : early(i)}), n)

-----------------------------------------------------------------------------
(* Chosen documents *)

Scrolled(c, docs) ==
  LET most == IF Cardinality(docs) * PerFile * 4 > ScrollFloor THEN Cardinality(docs) * PerFile * 4 ELSE ScrollFloor
  IN  Take(Kept(c, {i \in DOMAIN c : c[i].doc \in docs}), most)

\* Of one document the chunks with the lowest indices.
Opening(s, doc) ==
  LET chunks == {p \in ToSet(s) : p.doc = doc}
  IN  Take(Sorted(chunks, {p \in chunks \X chunks : p[1].index < p[2].index}), PerFile)

ForDocuments(c, docs) ==
  LET seen == Scrolled(c, docs)
      names == FirstOf([i \in DOMAIN seen |-> Scored(seen[i], 0)], "doc")
      parts == Joined([i \in DOMAIN names |-> Opening(seen, DocOf(names[i]))])
  IN  [i \in DOMAIN parts |-> Scored(parts[i], 0)]

-----------------------------------------------------------------------------
(* Search for documents *)

VectorArm(c, labels) == FirstOf(Nearest(c, 1, labels, Overfetch * PageSize), "doc")

Holding(s) == Kept(s, {i \in DOMAIN s : s[i].terms \cap Terms # {}})
\* Of each document the first chunk that holds a term, most terms first.
KeywordArm(c, labels) ==
  LET holding == Take(Holding(Points(c, labels)), KeywordScan)
      hits == [i \in DOMAIN holding |-> Scored(holding[i], Cardinality(holding[i].terms \cap Terms))]
  IN  Take(ByScore(FirstOf(hits, "doc")), Overfetch * PageSize)

\* _keyword_is_strong: two terms, one of one, or a rare one.
IsStrong(h) ==
  \/ h.score >= (IF Cardinality(Words) < 2 THEN 1 ELSE 2)
  \/ h.chunk.terms \cap Rare # {}

HitOf(arm, doc) == Kept(arm, {i \in DOMAIN arm : DocOf(arm[i]) = doc})

\* The chunk of the keyword arm stands for the document when there is one.
\* Without a strong match the cosine decides.
Candidate(vector, keyword, doc) ==
  LET v == HitOf(vector, doc)
      k == HitOf(keyword, doc)
      shown == IF k # <<>> THEN k[1].chunk ELSE v[1].chunk
      cosine == IF v = <<>> THEN 0 ELSE v[1].score
  IN  IF k # <<>> /\ IsStrong(k[1]) THEN <<Scored(shown, IF cosine > Strong THEN cosine ELSE Strong)>>
      ELSE IF v # <<>> /\ cosine >= MinRelevance THEN <<Scored(shown, cosine)>> ELSE <<>>

Documents(vector, keyword, reranker) ==
  LET ranked == Fused(<<vector, keyword>>, "doc")
      found == Joined([i \in DOMAIN ranked |-> Candidate(vector, keyword, DocOf(ranked[i]))])
      rescored == ByScore(Reranked(Take(found, RerankTop)))
  IN  IF reranker = "works" /\ Len(found) > 1
      THEN Take(Relevant(rescored), PageSize)
      ELSE Take(ByScore(found), PageSize)

-----------------------------------------------------------------------------
(* Requests *)

Unasked == [pc |-> "idle"]
AnswerSearch(r, kind, labels, hits) ==
  /\ asks' = [asks EXCEPT ![r] = [pc |-> "done", kind |-> kind, labels |-> labels, hits |-> hits]]
  /\ UNCHANGED <<corpus, indexed>>

\* The first read of a search for documents: the vector arm.
AskDocuments(r, manual, auto) ==
  /\ asks[r] = Unasked
  /\ asks' = [asks EXCEPT ![r] = [pc |-> "vector", labels |-> Effective(manual, auto), auto |-> auto,
                                  vector |-> VectorArm(corpus, Effective(manual, auto))]]
  /\ UNCHANGED <<corpus, indexed>>

\* The second, and the rest.
AskKeywords(r, reranker) ==
  /\ asks[r].pc = "vector"
  /\ AnswerSearch(r, IF reranker = "works" THEN "reranked" ELSE "documents", asks[r].auto,
             Documents(asks[r].vector, KeywordArm(corpus, asks[r].labels), reranker))

AskChunks(r, q, labels, reranker) ==
  /\ asks[r] = Unasked
  /\ AnswerSearch(r, IF reranker = "works" THEN "gated" ELSE "chunks", labels, Chunks(corpus, q, labels, PageSize, reranker))

Queries == [i \in 1 .. Variants |-> i]
AskLanguages(r, n, failing, labels) ==
  /\ asks[r] = Unasked
  /\ AnswerSearch(r, "chunks", labels, InLanguages(corpus, Take(Queries, n), failing, labels, PageSize))
AskVariables(r, failing, labels) ==
  /\ asks[r] = Unasked
  /\ AnswerSearch(r, "variables", labels, ForVariables(corpus, Queries, failing, labels))
AskForChat(r, n, failing) ==
  /\ asks[r] = Unasked
  /\ AnswerSearch(r, "chat", {}, ForChat(corpus, Take(Queries, n), failing, PageSize))
AskChosen(r, docs) ==
  /\ asks[r] = Unasked
  /\ AnswerSearch(r, "chosen", {}, ForDocuments(corpus, docs))

\* The indexer replaces, moves or removes documents.
Reindex ==
  /\ indexed < MaxReindex /\ indexed' = indexed + 1
  /\ corpus' \in Corpora \ {corpus}
  /\ UNCHANGED asks

\* The answer has been read.
Leave(r) ==
  /\ asks[r].pc = "done"
  /\ asks' = [asks EXCEPT ![r] = Unasked]
  /\ UNCHANGED <<corpus, indexed>>

Rerankers == {"off", "works", "fails"}
NasInit == corpus \in Corpora /\ indexed = 0 /\ asks = [r \in Searchers |-> Unasked]
NasNext ==
  \/ \E r \in Searchers, auto \in Scopes :
       \/ \E manual \in Scopes : AskDocuments(r, manual, auto)
       \/ \E q \in 1 .. Variants, reranker \in Rerankers : AskChunks(r, q, auto, reranker)
       \/ \E n \in 1 .. Variants, failing \in SUBSET (1 .. Variants) : AskLanguages(r, n, failing, auto)
       \/ \E failing \in SUBSET (1 .. Variants) : AskVariables(r, failing, auto)
  \/ \E r \in Searchers, reranker \in Rerankers : AskKeywords(r, reranker)
  \/ \E r \in Searchers, n \in 1 .. Variants, failing \in SUBSET (1 .. Variants) : AskForChat(r, n, failing)
  \/ \E r \in Searchers : Leave(r) \/ \E docs \in SUBSET {corpus[i].doc : i \in DOMAIN corpus} : docs # {} /\ AskChosen(r, docs)
  \/ Reindex
NasSpec == NasInit /\ [][NasNext]_nasVars

-----------------------------------------------------------------------------

Known == UNION {ToSet(c) : c \in Corpora}
Cosines == {p.cosine[1] : p \in Known}
Distinct(hits, key) == Cardinality({hits[i].chunk[key] : i \in DOMAIN hits}) = Len(hits)
Falls(hits) == \A i \in DOMAIN hits : i > 1 => hits[i - 1].score >= hits[i].score

\* What a search of this kind and scope may say.
Fits(hits, kind, labels) ==
  /\ \A i \in DOMAIN hits : InScope(hits[i].chunk, labels)
  /\ Distinct(hits, "id")
  /\ kind \in {"documents", "reranked"} => Distinct(hits, "doc")
  /\ kind \notin {"chosen"} => Falls(hits)
  /\ kind \notin {"chosen", "variables"} => Len(hits) <= PageSize
  /\ kind \in {"gated", "reranked"} /\ Len(hits) > 1 => \A i \in DOMAIN hits : hits[i].chunk.rerank >= MinRerank
  /\ kind = "documents" =>
       \A i \in DOMAIN hits :
         LET said == Scored(hits[i].chunk, Cardinality(hits[i].chunk.terms \cap Terms))
         IN  hits[i].score >= MinRelevance /\ (hits[i].score \notin Cosines => IsStrong(said))
  /\ kind = "chosen" =>
       \A i, j \in DOMAIN hits :
         i < j /\ DocOf(hits[i]) = DocOf(hits[j]) => hits[i].chunk.index < hits[j].chunk.index

\* What a search says is so, whatever the arms, languages and rerankers that
\* failed and however the corpus indexed between two reads: nothing comes from
\* outside the scope of the user ("권한을 벗어나 전체로 풀리지 않게", nas_search.py:287),
\* no document or chunk comes twice, scores fall, a page is not exceeded, what
\* the reranker or, without it, the cosine finds irrelevant stays out unless
\* the document holds the words, and of a chosen document the chunks come in
\* their order.
FoundFits ==
  \A r \in Searchers : asks[r].pc = "done" => Fits(asks[r].hits, asks[r].kind, asks[r].labels)
=============================================================================
