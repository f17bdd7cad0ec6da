------------------------------- MODULE DocGen -------------------------------
(***************************************************************************)
(* The writing of documents.  A draft is asked of the model; when review   *)
(* is on, a judge reads it and the worst of the faulted sections are       *)
(* written again, a failed call leaving what there was.  The cost and the  *)
(* document are then saved one after the other, and either may fail alone. *)
(***************************************************************************)
EXTENDS Integers, FiniteSets, Sequences

CONSTANTS Authors,      \* requests served at the same time
          Drafts,       \* the sequences of headings a draft may come with; "" is a section without one
          Verdicts,     \* the sets of [heading, grounded, issues] the judge may answer
          Finds,        \* the sets of [path, score] the collection of sources may give
          Cap,          \* docgen_auto_review_max_sections
          MaxDedup,     \* copies of one name
          MaxDocuments, \* bound: requests
          MaxCopies     \* bound: renderings

ASSUME DocGenAssumption == /\ Cap \in Nat /\ MaxDedup \in Nat \ {0} /\ MaxDocuments \in Nat /\ MaxCopies \in Nat
                           /\ Drafts \subseteq Seq(STRING)
                           /\ \A verdict \in Verdicts : IsFiniteSet(verdict) /\ \A v \in verdict : v.issues \in Nat
                           /\ \A finds \in Finds : IsFiniteSet(finds) /\ \A f \in finds : f.score \in Nat

VARIABLES writing,    \* request -> what its handler holds
          bills,      \* form_jobs of kind 'generate': number of the request -> cost
          library,    \* docgen_documents: number of the request -> row
          copies,     \* the day's folder on the NAS: <<title, counter>> -> document it is a copy of
          rendered,   \* renderings whose copy could be saved
          asked,      \* requests so far
          answer      \* the answer given in the last step
docgenVars == <<writing, bills, library, copies, rendered, asked, answer>>

\* A section is its heading and whether it was written again.  tried and paid are history: with the
\* draft and the verdict they tell what a saved document came from.
Document(stage, n, reviewed, finds) ==
  [stage |-> stage, n |-> n, reviewed |-> reviewed, finds |-> finds, cited |-> {}, draft |-> <<>>, sections |-> <<>>,
   verdict |-> {}, todo |-> {}, tried |-> {}, cost |-> 0, paid |-> 0, sources |-> <<>>]
NoDocument == Document("idle", 0, FALSE, {})
NoAnswer == [of |-> 0, saved |-> FALSE]

DocGenInit == /\ writing = [r \in Authors |-> NoDocument]
              /\ bills = <<>>
              /\ library = <<>>
              /\ copies = <<>>
              /\ rendered = 0
              /\ asked = 0
              /\ answer = NoAnswer

(* ---- which sections to write again, and what is shown of the sources ---- *)
Least(S) == CHOOSE k \in S : \A j \in S : k <= j
\* _problem_sections: a review means the first section of its heading; most issues first, then by place.
SectionOf(sections, review) ==
  LET named == {i \in DOMAIN sections : sections[i].heading = review.heading /\ review.heading # ""}
  IN IF named = {} THEN 0 ELSE Least(named)
Faulted(review) == ~review.grounded \/ review.issues > 0
\* What is found in section i, one number for each review that faults it.
Found(sections, verdict, i) == {v.issues : v \in {u \in verdict : Faulted(u) /\ SectionOf(sections, u) = i}}
ProblemSections(sections, verdict) ==
  [i \in {j \in DOMAIN sections : Found(sections, verdict, j) # {}} |->
     LET found == Found(sections, verdict, i) IN CHOOSE k \in found : \A l \in found : l <= k]
Worse(issues, i, j) == issues[i] > issues[j] \/ (issues[i] = issues[j] /\ i < j)
\* Mutant: sorted without the minus, the mildest come first.
ChosenMildest(issues) == {i \in DOMAIN issues : Cardinality({j \in DOMAIN issues : Worse(issues, i, j)}) < Cap}
\* The Cap worst.
Chosen(issues) == {i \in DOMAIN issues : Cardinality({j \in DOMAIN issues : Worse(issues, j, i)}) < Cap}
WorstOf(todo, issues) == CHOOSE i \in todo : \A j \in todo \ {i} : Worse(issues, i, j)

\* A path is shown once, with its best score, the cited ones first.
Before(s, t) == (s.cited /\ ~t.cited) \/ (s.cited = t.cited /\ s.score > t.score)
ShownSources(finds, cited) ==
  LET best == {f \in finds : \A g \in finds : g.path = f.path => g.score <= f.score}
      shown == {[path |-> f.path, score |-> f.score, cited |-> f.path \in cited] : f \in best}
  IN {s \in [1 .. Cardinality(shown) -> shown] :
        /\ shown = {s[i] : i \in DOMAIN s} /\ \A i, j \in DOMAIN s : s[i] = s[j] => i = j
        /\ \A i, j \in DOMAIN s : i < j => ~Before(s[j], s[i])}

(* ---- POST /generate ---- *)
At(r, stage) == writing[r].stage = stage
Keep(r, job) == writing' = [writing EXCEPT ![r] = job]
NoSave == UNCHANGED <<bills, library>>
Elsewhere == UNCHANGED <<copies, rendered>>

\* What was uploaded and what the search found; a search that fails finds nothing.
CollectSources == Finds \cup {{}}
BeginGenerate(r) ==
  /\ At(r, "idle") /\ asked < MaxDocuments
  /\ asked' = asked + 1
  /\ \E reviewed \in BOOLEAN, finds \in CollectSources :
       Keep(r, Document("draft", asked + 1, reviewed, finds))
  /\ answer' = NoAnswer /\ NoSave /\ Elsewhere
\* The call fails, or its answer cannot be read: 502 or 500.
DraftFails(r) == At(r, "draft") /\ Keep(r, NoDocument) /\ answer' = NoAnswer /\ NoSave /\ Elsewhere /\ UNCHANGED asked
\* The headings of the draft, and what it says it cites: one of the sources, or nothing.
Drafted(job, headings, cited) ==
  LET sections == [i \in DOMAIN headings |-> [heading |-> headings[i], again |-> FALSE]]
      judged == job.reviewed /\ Cap > 0 /\ headings # <<>>
  IN [job EXCEPT !.stage = IF judged THEN "judge" ELSE "bill", !.sections = sections, !.draft = sections,
                 !.cited = cited, !.cost = 1, !.paid = 1]
Draft(r) ==
  /\ At(r, "draft")
  /\ \E headings \in Drafts, cited \in {{f.path} : f \in writing[r].finds} \cup {{}} :
       Keep(r, Drafted(writing[r], headings, cited))
  /\ answer' = NoAnswer /\ NoSave /\ Elsewhere /\ UNCHANGED asked
JudgeFails(r) == At(r, "judge") /\ Keep(r, [writing[r] EXCEPT !.stage = "bill"]) /\ answer' = NoAnswer /\ NoSave /\ Elsewhere /\ UNCHANGED asked
\* Without a section to write again the draft is returned as it was, and so is its cost.
Judge(r) ==
  /\ At(r, "judge")
  /\ \E verdict \in Verdicts :
       LET todo == Chosen(ProblemSections(writing[r].draft, verdict))
       IN Keep(r, [writing[r] EXCEPT !.stage = IF todo = {} THEN "bill" ELSE "rewrite", !.verdict = verdict, !.todo = todo,
                                     !.cost = IF todo = {} THEN @ ELSE @ + 1, !.paid = @ + 1])
  /\ answer' = NoAnswer /\ NoSave /\ Elsewhere /\ UNCHANGED asked
NextSection(job) == WorstOf(job.todo, ProblemSections(job.draft, job.verdict))
Tried(job, i, sections, calls) ==
  [job EXCEPT !.stage = IF job.todo = {i} THEN "bill" ELSE "rewrite", !.todo = @ \ {i}, !.tried = @ \cup {i},
              !.sections = sections, !.cost = @ + calls, !.paid = @ + calls]
\* The model may name the section anew.
Rewrite(r) ==
  LET job == writing[r]
      i == NextSection(job)
  IN /\ At(r, "rewrite")
     /\ \E heading \in {job.sections[i].heading, "new"} :
          Keep(r, Tried(job, i, [job.sections EXCEPT ![i] = [heading |-> heading, again |-> TRUE]], 1))
     /\ answer' = NoAnswer /\ NoSave /\ Elsewhere /\ UNCHANGED asked
RewriteFails(r) ==
  LET job == writing[r]
  IN /\ At(r, "rewrite")
     /\ Keep(r, Tried(job, NextSection(job), job.sections, 0))
     /\ answer' = NoAnswer /\ NoSave /\ Elsewhere /\ UNCHANGED asked

Put(f, k, v) == [x \in DOMAIN f \cup {k} |-> IF x = k THEN v ELSE f[x]]
\* _persist_generate_job and _persist_document: a failure is logged and rolled back.
SaveBill(r, saved) ==
  /\ At(r, "bill")
  /\ bills' = IF saved THEN Put(bills, writing[r].n, writing[r].cost) ELSE bills
  /\ \E sources \in ShownSources(writing[r].finds, writing[r].cited) :
       Keep(r, [writing[r] EXCEPT !.stage = "save", !.sources = sources])
  /\ answer' = NoAnswer /\ UNCHANGED <<library, asked>> /\ Elsewhere
SaveDocument(r, saved) ==
  /\ At(r, "save")
  /\ library' = IF saved THEN Put(library, writing[r].n, writing[r]) ELSE library
  /\ answer' = [of |-> writing[r].n, saved |-> saved]
  /\ Keep(r, NoDocument)
  /\ UNCHANGED <<bills, asked>> /\ Elsewhere
Dies == (\E r \in Authors : ~At(r, "idle")) /\ writing' = [r \in Authors |-> NoDocument] /\ answer' = NoAnswer /\ NoSave /\ Elsewhere /\ UNCHANGED asked

(* ---- POST /render, /render_pptx: the bytes of the form, and a copy on the NAS; DELETE /documents ----
   ---- A copy that cannot be saved is logged and changes nothing. *)
\* Mutant: the copy of the same name is written over.
DedupTargetSame(title) == <<title, 0>>
\* _dedup_target: the first counter that is free, the name itself when none is.
DedupTarget(title) ==
  LET free == {k \in 0..(MaxDedup - 1) : <<title, k>> \notin DOMAIN copies}
  IN <<title, IF free = {} THEN 0 ELSE Least(free)>>
Render ==
  /\ rendered < MaxCopies /\ rendered' = rendered + 1
  /\ copies' = Put(copies, DedupTarget("t"), rendered + 1)
  /\ answer' = NoAnswer /\ NoSave /\ UNCHANGED <<writing, asked>>
DeleteDocument == /\ \E n \in DOMAIN library : library' = [m \in DOMAIN library \ {n} |-> library[m]]
                  /\ answer' = NoAnswer /\ UNCHANGED <<writing, bills, asked>> /\ Elsewhere

DocGenNext == \/ \E r \in Authors : \/ BeginGenerate(r) \/ DraftFails(r) \/ Draft(r) \/ JudgeFails(r) \/ Judge(r)
                                    \/ Rewrite(r) \/ RewriteFails(r)
                                    \/ \E saved \in BOOLEAN : SaveBill(r, saved) \/ SaveDocument(r, saved)
              \/ Dies \/ Render \/ DeleteDocument

DocGenSpec == DocGenInit /\ [][DocGenNext]_docgenVars

(***************************************************************************)
(* generate_document_reviewed, its docstring: whatever fails on the way,   *)
(* the draft survives.  A saved document has the sections of its draft in  *)
(* their places, of which at most Cap were written again, each because the *)
(* judge faulted it, and none while a section the judge found worse was    *)
(* left alone; the bill of a document that was changed counts every call   *)
(* that answered; and every source is shown once, at its best score.       *)
(***************************************************************************)
DraftIsKept ==
  \A n \in DOMAIN library :
    LET row == library[n]
        again == {i \in DOMAIN row.sections : row.sections[i] # row.draft[i]}
        found(i) == Found(row.draft, row.verdict, i)
        others == DOMAIN row.draft \ row.tried
    IN /\ DOMAIN row.sections = DOMAIN row.draft /\ Cardinality(row.tried) <= Cap /\ again \subseteq row.tried
       /\ \A i \in row.tried : found(i) # {} /\ \A j \in others : \A k \in found(j) : \E l \in found(i) : k <= l
       /\ Cardinality(row.tried) < Cap => \A j \in others : found(j) = {}
       /\ n \in DOMAIN bills /\ again # {} => bills[n] = row.paid
       /\ {row.sources[i].path : i \in DOMAIN row.sources} = {f.path : f \in row.finds}
       /\ \A i, j \in DOMAIN row.sources :
            i < j => row.sources[i].path # row.sources[j].path /\ (row.sources[j].cited => row.sources[i].cited)

(***************************************************************************)
(* nas_output.save_to_nas: as long as a counter is free, no copy saved on  *)
(* the NAS is written over.                                                *)
(***************************************************************************)
NoCopyIsLost == rendered <= MaxDedup => Cardinality(DOMAIN copies) = rendered

(***************************************************************************)
(* Both: the documents of an author are what was made for him.             *)
(***************************************************************************)
DocumentsAreKept == DraftIsKept /\ NoCopyIsLost
=============================================================================
