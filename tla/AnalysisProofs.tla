--------------------------- MODULE AnalysisProofs ---------------------------
(***************************************************************************)
(* A theorem about Analysis, for any number of documents, any answers of   *)
(* the searches and any replies of the language model.                     *)
(***************************************************************************)
EXTENDS Analysis, TLAPS

-----------------------------------------------------------------------------
\* What the replies have come to at the end of analyze().
Outcome(first, second) ==
  [confident |-> Confidence(first) >= MIN_CONFIDENCE, solutions |-> SolutionsIn(second)]

\* The inductive invariant: the replies are kept as they came until they are
\* made into the result, and no null goes that far.
RepliesInv ==
  /\ phase \in {"solutions", "done"} =>
       cause # << >> /\ cause[1] \in CauseReplies /\ cause[1].form # "null"
  /\ phase = "done" =>
       /\ answer # << >> /\ answer[1] \in SolutionReplies /\ answer[1].form # "null"
       /\ result = Outcome(cause[1], answer[1])

\* An outcome that passes the validator comes from two replies that can be
\* read in whole, and has every item of the second.
LEMMA ValidatedIsRead ==
  ASSUME NEW first \in CauseReply, first.form # "null",
         NEW second \in SolutionReply, second.form # "null",
         Validate(Outcome(first, second))
  PROVE  /\ first.form = "object"
         /\ second.form = "object"
         /\ \A i \in DOMAIN second.items :
              /\ second.items[i].candidate
              /\ i \in DOMAIN SolutionsIn(second)
              /\ SolutionsIn(second)[i] = second.items[i].sol
<1>1. Confidence(first) >= MIN_CONFIDENCE /\ SolutionsIn(second) # << >>
  BY DEF Validate, Outcome
<1>2. first.form # "malformed"
  BY <1>1 DEF Confidence, MIN_CONFIDENCE
<1>3. /\ second.form # "malformed"
      /\ \A i \in DOMAIN second.items : second.items[i].candidate
      /\ SolutionsIn(second) = [i \in DOMAIN second.items |-> second.items[i].sol]
  BY <1>1 DEF SolutionsIn
<1>4. QED
  BY <1>2, <1>3 DEF CauseReply, SolutionReply

\* Whatever the model answers, a reply of which something cannot be read is
\* refused: the validator never accepts what is left of it.
THEOREM UnreadableRefused == Spec => []UnreadableIsRefused
<1>1. Init => RepliesInv
  BY DEF Init, RepliesInv
<1>2. RepliesInv /\ [Next]_vars => RepliesInv'
  <2> SUFFICES ASSUME RepliesInv, [Next]_vars
               PROVE  RepliesInv'
    OBVIOUS
  <2>1. CASE Embed \/ Fuse \/ Raise \/ \E search \in Searches : Answer(search)
    BY <2>1 DEF Embed, Fuse, Raise, Answer, RepliesInv
  <2>2. CASE ReplyCause
    BY <2>2 DEF ReplyCause, RepliesInv
  <2>3. CASE ReplySolutions
    <3>1. PICK reply \in SolutionReplies :
            /\ answer' = <<reply>>
            /\ IF reply.form = "null"
               THEN phase' = "raised" /\ UNCHANGED result
               ELSE /\ phase' = "done"
                    /\ result' = [confident |-> Confidence(cause[1]) >= MIN_CONFIDENCE,
                                  solutions |-> SolutionsIn(reply)]
      BY <2>3 DEF ReplySolutions
    <3>2. phase = "solutions" /\ cause' = cause
      BY <2>3 DEF ReplySolutions
    <3>3. QED
      BY <3>1, <3>2 DEF RepliesInv, Outcome
  <2>4. CASE UNCHANGED vars
    BY <2>4 DEF vars, RepliesInv
  <2>5. QED
    BY <2>1, <2>2, <2>3, <2>4 DEF Next
<1>3. RepliesInv => UnreadableIsRefused
  <2> SUFFICES ASSUME RepliesInv, phase = "done", Validate(result)
               PROVE  /\ cause[1].form = "object"
                      /\ answer[1].form = "object"
                      /\ \A i \in DOMAIN answer[1].items :
                           /\ answer[1].items[i].candidate
                           /\ i \in DOMAIN result.solutions
                           /\ result.solutions[i] = answer[1].items[i].sol
    BY DEF UnreadableIsRefused
  <2>1. /\ cause[1] \in CauseReply /\ cause[1].form # "null"
        /\ answer[1] \in SolutionReply /\ answer[1].form # "null"
        /\ result = Outcome(cause[1], answer[1])
    BY RepliesAssumption DEF RepliesInv
  <2>2. result.solutions = SolutionsIn(answer[1]) /\ Validate(Outcome(cause[1], answer[1]))
    BY <2>1 DEF Outcome
  <2>3. QED
    BY <2>1, <2>2, ValidatedIsRead
<1>4. QED
  BY <1>1, <1>2, <1>3, PTL DEF Spec

=============================================================================
