------------------------------ MODULE Analysis ------------------------------
(***************************************************************************)
(* One run of analyze() (app/analyzer/llm_analyzer.py) for an incident:    *)
(* the embedding, the three searches that run side by side, the fusion of  *)
(* their results (app/rag/retriever.py), the two questions to the language *)
(* model and what is made of its replies.  LogFixer takes the outcome as   *)
(* one choice; here it is seen how it comes about.                         *)
(*                                                                         *)
(* The scores of the fusion are exact: 1 / (RRF_K + rank) is counted in    *)
(* units of 1 / Scale.  Confidences are in hundredths.                     *)
(*                                                                         *)
(* Operators named ..._<fault> are faulty variants of the operator that    *)
(* follows them, kept for mutation testing; nothing else uses them.        *)
(***************************************************************************)
EXTENDS Incident, Integers, SequencesExt, FiniteSetsExt

CONSTANTS
  TopK,             \* how many documents go into a prompt
  Hits,             \* for each search, the lists it may answer with
  CauseReplies,     \* replies to the first question
  SolutionReplies   \* replies to the second question

Searches == {"bm25", "knn_kb", "knn_pattern"}

\* A document as a search finds it: its logHash, its kbArticleId (patternId
\* for a pattern) and, in Elasticsearch, the _id.  "" is a field not there.
Hit == [logHash : STRING, id : STRING, es : STRING]

\* A reply of the model: no JSON ("malformed"), null where a value is needed,
\* or an object.  The confidence of the first may be missing; an item of the
\* second need not be a SolutionCandidate.
CauseReply == [form : {"malformed", "null", "object"}, confidence : Seq(Int)]

SolutionReply == [form : {"malformed", "null", "object"},
                  items : Seq([candidate : BOOLEAN, sol : Solution])]

ASSUME TopKAssumption    == TopK \in Nat \ {0}
ASSUME HitsAssumption    == Hits \in [Searches -> SUBSET Seq(Hit)]
\* Elasticsearch gives every document an _id.
ASSUME IdAssumption      == \A hits \in Hits["bm25"] : \A i \in DOMAIN hits : hits[i].es # ""
ASSUME RepliesAssumption == /\ CauseReplies \subseteq CauseReply
                            /\ SolutionReplies \subseteq SolutionReply

VARIABLES
  phase,      \* what analyze() is doing
  arrived,    \* the searches that have answered, in that order
  found,      \* what each search has answered
  context,    \* rag_context, the documents for the prompts
  cause,      \* the reply to the first question, as a sequence of at most one
  answer,     \* the reply to the second, likewise
  result      \* what analyze() returns

vars == <<phase, arrived, found, context, cause, answer, result>>

Phases == {"embed", "search", "cause", "solutions", "done", "raised"}

NoResult == [confident |-> FALSE, solutions |-> << >>]

Init ==
  /\ phase = "embed"
  /\ arrived = << >>
  /\ found = [s \in Searches |-> << >>]
  /\ context = << >>
  /\ cause = << >>
  /\ answer = << >>
  /\ result = NoResult

-----------------------------------------------------------------------------
(***************************************************************************)
(* The fusion.                                                             *)
(***************************************************************************)
RRF_K == 60

Scale == MapThenFoldSet(LAMBDA x, y : x * y, 1, LAMBDA rank : RRF_K + rank,
                        LAMBDA S : CHOOSE x \in S : TRUE, 1 .. 2 * TopK)

\* _rrf_score
Score(rank) == Scale \div (RRF_K + rank)

\* doc.get("logHash") or doc.get("kbArticleId", ""); patterns have one key.
KeyOf(search, hit) ==
  IF search # "knn_pattern" /\ hit.logHash # "" THEN hit.logHash ELSE hit.id

\* The results of one search with their ranks.
Ranked(search) ==
  [rank \in DOMAIN found[search] |->
     [key    |-> KeyOf(search, found[search][rank]),
      score  |-> Score(rank),
      search |-> search,
      hit    |-> found[search][rank]]]

Has(docs, key) == \E i \in DOMAIN docs : docs[i].key = key

Joined_NewerMeta(doc, e) == [e EXCEPT !.score = @ + doc.score]

\* The score is added up, what BM25 says of a document stays and the rest only
\* fills in.
Joined(doc, e) ==
  IF e.search = "bm25" THEN [e EXCEPT !.score = @ + doc.score]
  ELSE [doc EXCEPT !.score = @ + e.score]

Add_KeepBlank(docs, e) ==
  IF Has(docs, e.key)
  THEN [i \in DOMAIN docs |-> IF docs[i].key = e.key THEN Joined(docs[i], e) ELSE docs[i]]
  ELSE Append(docs, e)

\* scores[key] and meta[key], in the order of the dictionaries.  A hit without a
\* key is skipped, and its rank with it.
Add(docs, e) ==
  CASE e.key = ""       -> docs
    [] Has(docs, e.key) ->
         [i \in DOMAIN docs |-> IF docs[i].key = e.key THEN Joined(docs[i], e) ELSE docs[i]]
    [] OTHER            -> Append(docs, e)

FusionOrder_Arrival == arrived

\* gather() returns the results in the order of its arguments.
FusionOrder == <<"bm25", "knn_kb", "knn_pattern">>

\* The stable order of sorted(..., reverse=True).
Before(docs, i, j) ==
  \/ docs[i].score > docs[j].score
  \/ docs[i].score = docs[j].score /\ i < j

Ahead(docs, i) == {j \in DOMAIN docs : Before(docs, j, i)}

\* In the place n is the document with n - 1 documents before it.
Sorted(docs) ==
  [n \in DOMAIN docs |-> docs[CHOOSE i \in DOMAIN docs : Cardinality(Ahead(docs, i)) = n - 1]]

Top(docs) == SubSeq(docs, 1, Min({TopK, Len(docs)}))

Best_CutFirst(docs) == Sorted(Top(docs))

\* sorted_keys[:top_k]
Best(docs) == Top(Sorted(docs))

\* _fuse
Fused ==
  Best(FoldLeft(Add, << >>, Ranked(FusionOrder[1]) \o Ranked(FusionOrder[2]) \o Ranked(FusionOrder[3])))

\* One of rag_sources: kbArticleId, or logHash when there is none.  A pattern
\* is given neither.
Source(doc) ==
  IF doc.search = "knn_pattern" THEN ""
  ELSE IF doc.hit.id # "" THEN doc.hit.id ELSE doc.hit.logHash

-----------------------------------------------------------------------------
(***************************************************************************)
(* The steps of analyze(); each ends where it awaits.                      *)
(***************************************************************************)
\* embed_incident answers, and the three searches start.
Embed ==
  /\ phase = "embed"
  /\ phase' = "search"
  /\ UNCHANGED <<arrived, found, context, cause, answer, result>>

\* bm25_search names an article without kbArticleId by its _id.
Named(search, hit) ==
  IF search = "bm25" /\ hit.id = "" THEN [hit EXCEPT !.id = hit.es] ELSE hit

\* A search answers with up to 2 * top_k hits; bm25_search with none when the
\* index does not exist.
Answer(search) ==
  /\ phase = "search"
  /\ search \notin ToSet(arrived)
  /\ \E hits \in Hits[search] \cup (IF search = "bm25" THEN {<< >>} ELSE {}) :
       /\ Len(hits) <= 2 * TopK
       /\ found' = [found EXCEPT ![search] = [i \in DOMAIN hits |-> Named(search, hits[i])]]
  /\ arrived' = Append(arrived, search)
  /\ UNCHANGED <<phase, context, cause, answer, result>>

\* The last answer is there: gather() returns, and the fused documents go into
\* the first prompt.
Fuse ==
  /\ phase = "search"
  /\ ToSet(arrived) = Searches
  /\ context' = Fused
  /\ phase' = "cause"
  /\ UNCHANGED <<arrived, found, cause, answer, result>>

\* The reply to the first question.  A null confidence is not among the
\* exceptions that are caught.
ReplyCause ==
  /\ phase = "cause"
  /\ \E reply \in CauseReplies :
       /\ cause' = <<reply>>
       /\ phase' = IF reply.form = "null" THEN "raised" ELSE "solutions"
  /\ UNCHANGED <<arrived, found, context, answer, result>>

MIN_CONFIDENCE == 40

Confidence_Default(reply) ==
  IF reply.form = "malformed" \/ reply.confidence = << >> THEN 50 ELSE reply.confidence[1]

\* float(root_cause_json.get("confidence", 0.5)), or 0.0 when that fails.
Confidence(reply) ==
  IF reply.form = "malformed" THEN 0
  ELSE IF reply.confidence = << >> THEN 50 ELSE reply.confidence[1]

\* One item that is no SolutionCandidate loses them all.
SolutionsIn(reply) ==
  IF reply.form = "malformed" \/ \E i \in DOMAIN reply.items : ~reply.items[i].candidate
  THEN << >>
  ELSE [i \in DOMAIN reply.items |-> reply.items[i].sol]

\* The reply to the second question, and the end of analyze().  No reply at
\* all (null) is caught, but logging it raises again.
ReplySolutions ==
  /\ phase = "solutions"
  /\ \E reply \in SolutionReplies :
       /\ answer' = <<reply>>
       /\ IF reply.form = "null"
          THEN phase' = "raised" /\ UNCHANGED result
          ELSE /\ phase' = "done"
               /\ result' = [confident |-> Confidence(cause[1]) >= MIN_CONFIDENCE,
                             solutions |-> SolutionsIn(reply)]
  /\ UNCHANGED <<arrived, found, context, cause>>

\* Nothing is caught but what json.loads and the candidates raise: an
\* incident without text (embed), a search (gather passes the first exception
\* on; the other searches go on unheard), OpenAI.
Raise ==
  /\ phase \in {"embed", "search", "cause", "solutions"}
  /\ phase' = "raised"
  /\ UNCHANGED <<arrived, found, context, cause, answer, result>>

Next ==
  \/ Embed \/ Fuse \/ ReplyCause \/ ReplySolutions \/ Raise
  \/ \E search \in Searches : Answer(search)

Spec == Init /\ [][Next]_vars

-----------------------------------------------------------------------------
(***************************************************************************)
(* Properties.                                                             *)
(***************************************************************************)
Doc == [key : STRING \ {""}, score : Nat, search : Searches, hit : Hit]

\* Every variable keeps its type; in particular analyze() returns what the
\* validator and LogFixer take for an analysis.
TypeOK ==
  /\ phase \in Phases
  /\ arrived \in Seq(Searches)
  /\ found \in [Searches -> Seq(Hit)]
  /\ context \in Seq(Doc)
  /\ cause \in Seq(CauseReply)
  /\ answer \in Seq(SolutionReply)
  /\ result \in AnalysisResult

\* Where a document was found.
Lists == << found["bm25"], found["knn_kb"], found["knn_pattern"] >>

Places == {p \in (1 .. 3) \X (1 .. 2 * TopK) : p[2] \in DOMAIN Lists[p[1]]}

KeyAt(p) ==
  LET hit == Lists[p[1]][p[2]]
  IN IF p[1] # 3 /\ hit.logHash # "" THEN hit.logHash ELSE hit.id

PlacesOf(key) == {p \in Places : KeyAt(p) = key}

\* The sum of the reciprocal ranks of a document.
Reciprocal(key) == MapThenSumSet(LAMBDA p : Scale \div (60 + p[2]), PlacesOf(key))

Keys == {KeyAt(p) : p \in Places} \ {""}

Cited == {context[i].key : i \in DOMAIN context}

\* The first place of a document: BM25 before articles before patterns.
First(key) ==
  CHOOSE p \in PlacesOf(key) :
    \A q \in PlacesOf(key) : p[1] < q[1] \/ (p[1] = q[1] /\ p[2] <= q[2])

\* Does a belong before b?
Outranks(a, b) ==
  \/ Reciprocal(a) > Reciprocal(b)
  \/ /\ Reciprocal(a) = Reciprocal(b)
     /\ \/ First(a)[1] < First(b)[1]
        \/ First(a)[1] = First(b)[1] /\ First(a)[2] < First(b)[2]

Prompted == phase \in {"cause", "solutions", "done"}

\* _fuse: the prompts get the TopK documents with the greatest sums of
\* reciprocal ranks over the three searches, each of them once, and every
\* document left out is outranked by all of them.
RankedBySum ==
  Prompted =>
    /\ Len(context) = Min({TopK, Cardinality(Keys)})
    /\ Cardinality(Cited) = Len(context)
    /\ \A i \in DOMAIN context :
         /\ context[i].key \in Keys
         /\ context[i].score = Reciprocal(context[i].key)
         /\ \A key \in Keys \ Cited : context[i].score >= Reciprocal(key)

\* retrieve: the order of the documents depends on what the searches found
\* and never on which of them answered first.
ArrivalDoesNotMatter ==
  Prompted =>
    \A i, j \in DOMAIN context :
      i < j => Outranks(context[i].key, context[j].key)

\* retrieve and rag_sources: a document that BM25 found is cited by the
\* kbArticleId (or the _id that stands for it) of the article that BM25 found
\* under its key, the last of them if there are several, wherever else it was
\* found.
ArticlesAreCited ==
  Prompted =>
    \A i \in DOMAIN context : \A rank \in DOMAIN found["bm25"] :
      /\ KeyOf("bm25", found["bm25"][rank]) = context[i].key
      /\ \A other \in DOMAIN found["bm25"] :
           KeyOf("bm25", found["bm25"][other]) = context[i].key => other <= rank
      => Source(context[i]) = found["bm25"][rank].id

\* analyze and validate: a reply that cannot be read, in whole or in part, is
\* never validated, so nobody is asked to approve what is left of it.
UnreadableIsRefused ==
  phase = "done" /\ Validate(result) =>
    /\ cause[1].form = "object"
    /\ answer[1].form = "object"
    /\ \A i \in DOMAIN answer[1].items :
         /\ answer[1].items[i].candidate
         /\ i \in DOMAIN result.solutions /\ result.solutions[i] = answer[1].items[i].sol

=============================================================================
