----------------------------- MODULE MCAnalysis -----------------------------
(* Analysis on small instances: the lists the searches may answer with and *)
(* the replies of the language model.                                      *)
EXTENDS Analysis, TLC

At(hash, id, es) == [logHash |-> hash, id |-> id, es |-> es]

\* Four articles in Elasticsearch: two of one incident, one without
\* kbArticleId, one of no incident.
MCArticles == {At("h1", "k1", "e1"), At("h1", "k4", "e4"), At("h2", "", "k2"), At("", "k3", "e3")}

\* The same in Qdrant, where the first lacks its id; one point has no payload.
MCPoint(n) == << At("h1", "", ""), At("h2", "k2", ""), At("", "k3", ""), At("", "", "") >>[n]

\* As an article is saved under a new id each time, a list may have it twice.
MCHits ==
  [bm25        |-> SetToAllKPermutations(MCArticles),
   knn_kb      |-> {<< >>,
                    <<MCPoint(1)>>,
                    <<MCPoint(2), MCPoint(1)>>,
                    <<MCPoint(3), MCPoint(3), MCPoint(1)>>,
                    <<MCPoint(4), MCPoint(2), MCPoint(2)>>,
                    <<MCPoint(3), MCPoint(2), MCPoint(1), MCPoint(1)>>},
   knn_pattern |-> {<< >>,
                    <<At("", "p1", "")>>,
                    <<At("", "", ""), At("", "p1", ""), At("", "p2", "")>>}]

MCCause ==
  {[form |-> f, confidence |-> << >>] : f \in {"malformed", "null", "object"}}
  \cup {[form |-> "object", confidence |-> <<c>>] : c \in {39, 40}}

MCItem(candidate, type) ==
  [candidate |-> candidate,
   sol |-> [action_type |-> type, target |-> TRUE, keyval |-> FALSE]]

MCSolutions ==
  {[form |-> f, items |-> << >>] : f \in {"malformed", "null", "object"}}
  \cup {[form |-> "object", items |-> items] :
          items \in {<<MCItem(TRUE, "RESTART")>>,
                     <<MCItem(TRUE, "REBOOT")>>,
                     <<MCItem(TRUE, "RESTART"), MCItem(FALSE, "DEL_DISK")>>}}
=============================================================================
