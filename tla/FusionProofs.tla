---------------------------- MODULE FusionProofs ----------------------------
(***************************************************************************)
(* Theorems about the fusion of Analysis, for any TopK, any answers of the *)
(* searches and any replies of the language model: its type, the order of  *)
(* the documents and what they are cited by.                               *)
(*                                                                         *)
(* The argument follows _fuse.  The fold over the three lists is taken     *)
(* apart into one step per entry (DocsSteps); after each step the          *)
(* documents so far are described by Collected, in which a score is the    *)
(* sum over the places already passed (Total); Sorted is a permutation in  *)
(* the order of Before (SortedDocs); and the first of the sorted documents *)
(* have what the properties say.                                           *)
(***************************************************************************)
EXTENDS Analysis, SequenceTheorems, FoldLemmas

-----------------------------------------------------------------------------
(***************************************************************************)
(* The fusion, one entry of the three lists after the other.               *)
(***************************************************************************)
\* A result of a search with its rank, as _fuse goes through them.
Entry == [key : STRING, score : Nat, search : Searches, hit : Hit]

\* What CHOOSE takes from a set.
Taken(S) == [T \in SUBSET S |-> CHOOSE x \in T : TRUE]

\* It is a choice in the sense of FoldLemmas.
LEMMA TakenFrom ==
  ASSUME NEW S
  PROVE  /\ IsChoice(Taken(S), S)
         /\ \A T \in SUBSET S : Taken(S)[T] = CHOOSE x \in T : TRUE
<1>1. \A T \in SUBSET S : T # {} => (CHOOSE x \in T : TRUE) \in T
  OBVIOUS
<1>2. QED
  BY <1>1 DEF Taken, IsChoice

\* The unit of the scores is a number.
LEMMA ScaleIsNat == Scale \in Nat
<1> DEFINE S == 1 .. 2 * TopK
           ch == Taken(S)
           mult == [p \in S \X Nat |-> (RRF_K + p[1]) * p[2]]
           any(T) == CHOOSE x \in T : TRUE
           eq(h) == h = [T \in SUBSET S |->
                          IF T = {} THEN 1 ELSE (RRF_K + any(T)) * h[T \ {any(T)}]]
           f == CHOOSE h : eq(h)
<1>1. IsFiniteSet(S)
  BY TopKAssumption, FS_Interval
<1>2. mult \in [S \X Nat -> Nat] /\ \A x \in S, n \in Nat : mult[<<x, n>>] = (RRF_K + x) * n
  BY TopKAssumption DEF RRF_K
<1>3. Scale = f[S]
  BY DEF Scale, MapThenFoldSet
<1>4. IsChoice(ch, S) /\ \A T \in SUBSET S : ch[T] = any(T)
  BY TakenFrom
<1>5. \A T \in SUBSET S : T # {} => any(T) \in S /\ T \ {any(T)} \in SUBSET S
  BY <1>4 DEF IsChoice
<1> HIDE DEF S, mult, any, ch
<1>6. ASSUME NEW g, IsFold(g, S, Nat, 1, ch, mult) PROVE IsPartialFold(f, S, Nat, 1, ch, mult)
  <2>1. /\ g[{}] = 1
        /\ \A T \in SUBSET S : g[T] \in Nat
        /\ \A T \in SUBSET S : T # {} => g[T] = mult[<<ch[T], g[T \ {ch[T]}]>>]
    BY <1>6 DEF IsFold
  <2> DEFINE h == [T \in SUBSET S |-> g[T]]
  <2>2. ASSUME NEW T \in SUBSET S, T # {}
        PROVE  g[T] = (RRF_K + any(T)) * h[T \ {any(T)}]
    <3>1. /\ any(T) \in S /\ T \ {any(T)} \in SUBSET S /\ ch[T] = any(T)
          /\ h[T \ {any(T)}] = g[T \ {any(T)}]
      BY <1>4, <1>5, <2>2
    <3>2. g[T \ {any(T)}] \in Nat /\ g[T] = mult[<<any(T), g[T \ {any(T)}]>>]
      BY <2>1, <2>2, <3>1
    <3>3. QED
      BY <1>2, <3>1, <3>2
  <2>3. eq(h)
    BY <2>1, <2>2
  <2>4. eq(f)
    <3> HIDE DEF h, eq
    <3>1. QED
      BY <2>3
  <2> HIDE DEF f
  <2>5. f[{}] = 1
    BY <2>4
  <2>6. ASSUME NEW T \in SUBSET S, T # {} /\ f[T \ {ch[T]}] \in Nat
        PROVE  f[T] = mult[<<ch[T], f[T \ {ch[T]}]>>]
    <3>1. any(T) \in S /\ ch[T] = any(T)
      BY <1>4, <1>5, <2>6
    <3>2. f[T] = (RRF_K + any(T)) * f[T \ {any(T)}]
      BY <2>4, <2>6
    <3>3. QED
      BY <1>2, <2>6, <3>1, <3>2
  <2>7. QED
    BY <2>5, <2>6 DEF IsPartialFold
<1> HIDE DEF f
<1>7. IsFold(f, S, Nat, 1, ch, mult)
  <2> DEFINE X == Nat
  <2>1. mult \in [S \X X -> X] /\ 1 \in X
    BY <1>2
  <2>2. \A g : IsFold(g, S, X, 1, ch, mult) => IsPartialFold(f, S, X, 1, ch, mult)
    BY <1>6
  <2> HIDE DEF X
  <2>3. IsFold(f, S, X, 1, ch, mult)
    BY <1>1, <1>4, <2>1, <2>2, ChosenFold, Zenon
  <2>4. QED
    BY <2>3 DEF X
<1>8. QED
  BY <1>3, <1>7 DEF IsFold

\* So is the score a place of a list is worth.
LEMMA ScoreIsNat ==
  ASSUME NEW rank \in Nat
  PROVE  Score(rank) \in Nat
<1>1. \A s \in Nat, d \in Nat \ {0} : s \div d \in Nat
  OBVIOUS
<1>2. QED
  BY <1>1, ScaleIsNat DEF Score, RRF_K
-----------------------------------------------------------------------------
(***************************************************************************)
(* The sum of the reciprocal ranks.                                        *)
(***************************************************************************)
\* What the searches have answered: at most 2 * TopK hits each.
Answered ==
  /\ found \in [Searches -> Seq(Hit)]
  /\ \A search \in Searches : Len(found[search]) <= 2 * TopK

\* What a place of a document adds to its score.
Share(key) == [p \in PlacesOf(key) |-> Score(p[2])]

\* The sum over some of its places.
SumOver(key) ==
  CHOOSE f : f = [T \in SUBSET PlacesOf(key) |->
                   IF T = {} THEN 0
                   ELSE (Scale \div (60 + (CHOOSE p \in T : TRUE)[2]))
                          + f[T \ {CHOOSE p \in T : TRUE}]]

\* There are finitely many places.
LEMMA PlacesFinite ==
  ASSUME NEW key
  PROVE  IsFiniteSet(PlacesOf(key)) /\ \A p \in PlacesOf(key) : p[2] \in 1 .. 2 * TopK
<1>1. IsFiniteSet((1 .. 3) \X (1 .. 2 * TopK))
  <2>1. IsFiniteSet(1 .. 3) /\ IsFiniteSet(1 .. 2 * TopK)
    <3>1. 1 \in Int /\ 3 \in Int /\ 2 * TopK \in Int
      BY TopKAssumption
    <3>2. QED
      BY <3>1, FS_Interval
  <2>2. QED
    BY <2>1, FS_Product
<1>2. PlacesOf(key) \subseteq (1 .. 3) \X (1 .. 2 * TopK)
  BY DEF PlacesOf, Places
<1>3. QED
  BY <1>1, <1>2, FS_Subset

\* The sum is what any place adds and the sum over the others.
LEMMA SumOverPlaces ==
  ASSUME NEW key
  PROVE  /\ SumOver(key)[{}] = 0
         /\ \A T \in SUBSET PlacesOf(key) : SumOver(key)[T] \in Nat
         /\ \A T \in SUBSET PlacesOf(key) : \A p \in T :
              SumOver(key)[T] = Score(p[2]) + SumOver(key)[T \ {p}]
         /\ Reciprocal(key) = SumOver(key)[PlacesOf(key)]
<1> DEFINE S == PlacesOf(key)
           ch == Taken(S)
           w == Share(key)
           plus == [q \in S \X Nat |-> w[q[1]] + q[2]]
           any(T) == CHOOSE p \in T : TRUE
           eq(h) == h = [T \in SUBSET S |->
                          IF T = {} THEN 0 ELSE (Scale \div (60 + any(T)[2])) + h[T \ {any(T)}]]
           f == CHOOSE h : eq(h)
<1>1. IsFiniteSet(S)
  BY PlacesFinite
<1>2. w \in [S -> Nat] /\ \A p \in S : w[p] = Score(p[2]) /\ w[p] = Scale \div (60 + p[2])
  BY PlacesFinite, ScoreIsNat, TopKAssumption DEF Share, Score, RRF_K
<1>3. SumOver(key) = f /\ Reciprocal(key) = f[S]
  BY DEF SumOver, Reciprocal, MapThenSumSet, MapThenFoldSet
<1>4. IsChoice(ch, S) /\ \A T \in SUBSET S : ch[T] = any(T)
  BY TakenFrom
<1>5. \A T \in SUBSET S : T # {} => any(T) \in S /\ T \ {any(T)} \in SUBSET S
  BY <1>4 DEF IsChoice
<1> HIDE DEF S, w
<1>6. plus \in [S \X Nat -> Nat] /\ \A p \in S, n \in Nat : plus[<<p, n>>] = w[p] + n
  BY <1>2
<1> HIDE DEF plus, any, ch
<1>7. ASSUME NEW g, IsFold(g, S, Nat, 0, ch, plus) PROVE IsPartialFold(f, S, Nat, 0, ch, plus)
  <2>1. /\ g[{}] = 0
        /\ \A T \in SUBSET S : g[T] \in Nat
        /\ \A T \in SUBSET S : T # {} => g[T] = plus[<<ch[T], g[T \ {ch[T]}]>>]
    BY <1>7 DEF IsFold
  <2> DEFINE h == [T \in SUBSET S |-> g[T]]
  <2>2. ASSUME NEW T \in SUBSET S, T # {}
        PROVE  g[T] = (Scale \div (60 + any(T)[2])) + h[T \ {any(T)}]
    <3>1. /\ any(T) \in S /\ T \ {any(T)} \in SUBSET S /\ ch[T] = any(T)
          /\ h[T \ {any(T)}] = g[T \ {any(T)}]
      BY <1>4, <1>5, <2>2
    <3>2. g[T \ {any(T)}] \in Nat /\ g[T] = plus[<<any(T), g[T \ {any(T)}]>>]
      BY <2>1, <2>2, <3>1
    <3>3. g[T] = w[any(T)] + g[T \ {any(T)}]
      BY <1>6, <3>1, <3>2
    <3>4. QED
      BY <1>2, <3>1, <3>3
  <2>3. eq(h)
    BY <2>1, <2>2
  <2>4. eq(f)
    <3> HIDE DEF h, eq
    <3>1. QED
      BY <2>3
  <2> HIDE DEF f
  <2>5. f[{}] = 0
    BY <2>4
  <2>6. ASSUME NEW T \in SUBSET S, T # {} /\ f[T \ {ch[T]}] \in Nat
        PROVE  f[T] = plus[<<ch[T], f[T \ {ch[T]}]>>]
    <3>1. any(T) \in S /\ ch[T] = any(T)
      BY <1>4, <1>5, <2>6
    <3>2. f[T] = (Scale \div (60 + any(T)[2])) + f[T \ {any(T)}]
      BY <2>4, <2>6
    <3>3. f[T] = w[any(T)] + f[T \ {any(T)}]
      BY <1>2, <3>1, <3>2
    <3>4. QED
      BY <1>6, <2>6, <3>1, <3>3
  <2>7. QED
    BY <2>5, <2>6 DEF IsPartialFold
<1> HIDE DEF f
<1>8. IsFold(f, S, Nat, 0, ch, plus)
  <2> DEFINE X == Nat
  <2>1. plus \in [S \X X -> X] /\ 0 \in X
    BY <1>6
  <2>2. \A g : IsFold(g, S, X, 0, ch, plus) => IsPartialFold(f, S, X, 0, ch, plus)
    BY <1>7
  <2> HIDE DEF X
  <2>3. IsFold(f, S, X, 0, ch, plus)
    BY <1>1, <1>4, <2>1, <2>2, ChosenFold, Zenon
  <2>4. QED
    BY <2>3 DEF X
<1>9. IsSum(f, S, ch, w)
  <2>1. /\ f[{}] = 0
        /\ \A T \in SUBSET S : f[T] \in Nat
        /\ \A T \in SUBSET S : T # {} => f[T] = plus[<<ch[T], f[T \ {ch[T]}]>>]
    BY <1>8 DEF IsFold
  <2>2. ASSUME NEW T \in SUBSET S, T # {} PROVE f[T] = w[ch[T]] + f[T \ {ch[T]}]
    <3>1. ch[T] \in S /\ T \ {ch[T]} \in SUBSET S
      BY <1>4, <1>5, <2>2
    <3>2. QED
      BY <1>6, <2>1, <2>2, <3>1
  <2>3. QED
    BY <2>1, <2>2 DEF IsSum
<1>10. \A T \in SUBSET S : \A p \in T : f[T] = w[p] + f[T \ {p}]
  <2>1. w \in [S -> Nat] /\ IsChoice(ch, S)
    BY <1>2, <1>4
  <2>2. IsUnorderedSum(f, S, w)
    BY <1>1, <1>9, <2>1, SumRemove, Zenon
  <2>3. QED
    BY <2>2 DEF IsUnorderedSum
<1>11. f[{}] = 0 /\ \A T \in SUBSET S : f[T] \in Nat
  BY <1>9 DEF IsSum
<1>12. \A T \in SUBSET S : \A p \in T : f[T] = Score(p[2]) + f[T \ {p}]
  BY <1>2, <1>10
<1>13. QED
  BY <1>3, <1>11, <1>12 DEF S

-----------------------------------------------------------------------------
(***************************************************************************)
(* Adding the entries up.                                                  *)
(***************************************************************************)
\* A document that is there already is joined with the entry.
LEMMA JoinedDoc ==
  ASSUME NEW doc \in Doc, NEW e \in Entry, e.key = doc.key
  PROVE  /\ Joined(doc, e) \in Doc
         /\ Joined(doc, e).key = doc.key
         /\ Joined(doc, e).score = doc.score + e.score
         /\ e.search = "bm25" => Joined(doc, e).search = "bm25" /\ Joined(doc, e).hit = e.hit
         /\ e.search # "bm25" => Joined(doc, e).search = doc.search /\ Joined(doc, e).hit = doc.hit
<1>0. doc.score \in Nat /\ e.score \in Nat
  <2>1. doc.score \in Nat
    BY DEF Doc
  <2>2. e.score \in Nat
    BY DEF Entry
  <2>3. QED
    BY <2>1, <2>2
<1>1. CASE e.search = "bm25"
  <2> DEFINE v == e.score + doc.score
  <2>1. v \in Nat /\ v = doc.score + e.score
    BY <1>0
  <2>2. Joined(doc, e) = [e EXCEPT !.score = v]
    BY <1>1 DEF Joined
  <2> HIDE DEF v
  <2>3. [e EXCEPT !.score = v] = [key |-> e.key, score |-> v, search |-> e.search, hit |-> e.hit]
    BY DEF Entry
  <2>4. QED
    BY <1>1, <2>1, <2>2, <2>3 DEF Doc, Entry
<1>2. CASE e.search # "bm25"
  <2> DEFINE v == doc.score + e.score
  <2>1. v \in Nat
    BY <1>0
  <2>2. Joined(doc, e) = [doc EXCEPT !.score = v]
    BY <1>2 DEF Joined
  <2> HIDE DEF v
  <2>3. [doc EXCEPT !.score = v]
          = [key |-> doc.key, score |-> v, search |-> doc.search, hit |-> doc.hit]
    <3> DEFINE K == STRING \ {""}
    <3>1. doc \in [key : K, score : Nat, search : Searches, hit : Hit]
      BY DEF Doc
    <3> HIDE DEF K
    <3>2. QED
      BY <3>1
  <2>4. Joined(doc, e) \in Doc
    BY <2>1, <2>2, <2>3 DEF Doc
  <2>5. QED
    BY <1>2, <2>2, <2>3, <2>4 DEF v
<1>3. QED
  BY <1>1, <1>2

\* What Add does to a list of documents.
LEMMA Adding ==
  ASSUME NEW docs \in Seq(Doc), NEW e \in Entry
  PROVE  /\ Add(docs, e) \in Seq(Doc)
         /\ e.key = "" => Add(docs, e) = docs
         /\ e.key # "" /\ Has(docs, e.key) =>
              /\ Len(Add(docs, e)) = Len(docs)
              /\ \A i \in 1 .. Len(docs) :
                   /\ docs[i].key # e.key => Add(docs, e)[i] = docs[i]
                   /\ docs[i].key = e.key => Add(docs, e)[i] = Joined(docs[i], e)
         /\ e.key # "" /\ ~Has(docs, e.key) =>
              /\ Len(Add(docs, e)) = Len(docs) + 1
              /\ \A i \in 1 .. Len(docs) : Add(docs, e)[i] = docs[i]
              /\ Add(docs, e)[Len(docs) + 1] = e
<1>1. DOMAIN docs = 1 .. Len(docs) /\ Len(docs) \in Nat /\ \A i \in DOMAIN docs : docs[i] \in Doc
  BY LenProperties
<1>2. CASE e.key = ""
  <2>1. ~Has(docs, "")
    BY <1>1 DEF Has, Doc
  <2>2. QED
    BY <1>2, <2>1 DEF Add
<1>3. CASE e.key # "" /\ Has(docs, e.key)
  <2> DEFINE val(i) == IF docs[i].key = e.key THEN Joined(docs[i], e) ELSE docs[i]
             new == [i \in 1 .. Len(docs) |-> val(i)]
  <2>1. Add(docs, e) = new
    BY <1>1, <1>3 DEF Add
  <2>2. \A i \in 1 .. Len(docs) : val(i) \in Doc
    BY <1>1, JoinedDoc
  <2> HIDE DEF val
  <2>3. new \in Seq(Doc) /\ Len(new) = Len(docs)
    <3>1. new \in [1 .. Len(docs) -> Doc]
      BY <2>2
    <3>2. new \in Seq(Doc)
      BY <1>1, <3>1, SeqDef
    <3>3. DOMAIN new = 1 .. Len(docs) /\ DOMAIN new = 1 .. Len(new) /\ Len(new) \in Nat
      BY <3>2, LenProperties
    <3> HIDE DEF new
    <3>4. QED
      BY <1>1, <3>2, <3>3
  <2>4. QED
    BY <1>3, <2>1, <2>3 DEF val
<1>4. CASE e.key # "" /\ ~Has(docs, e.key)
  <2>1. Add(docs, e) = Append(docs, e)
    BY <1>4 DEF Add
  <2>2. e \in Doc
    BY <1>4 DEF Entry, Doc
  <2>3. /\ Append(docs, e) \in Seq(Doc) /\ Len(Append(docs, e)) = Len(docs) + 1
        /\ \A i \in 1 .. Len(docs) : Append(docs, e)[i] = docs[i]
        /\ Append(docs, e)[Len(docs) + 1] = e
    BY <2>2, AppendProperties
  <2>4. QED
    BY <1>4, <2>1, <2>3
<1>5. QED
  BY <1>2, <1>3, <1>4

\* The documents after the first n entries of es.
Docs(es, n) ==
  (CHOOSE f : f = [T \in SUBSET (DOMAIN es) |->
                    IF T = {} THEN << >> ELSE Add(f[T \ {Max(T)}], es[Max(T)])])[1 .. n]

\* They come about one entry after the other.
LEMMA DocsSteps ==
  ASSUME NEW es \in Seq(Entry)
  PROVE  /\ Docs(es, 0) = << >>
         /\ \A n \in 0 .. Len(es) : Docs(es, n) \in Seq(Doc)
         /\ \A n \in 0 .. Len(es) : n < Len(es) => Docs(es, n + 1) = Add(Docs(es, n), es[n + 1])
         /\ FoldLeft(Add, << >>, es) = Docs(es, Len(es))
<1> DEFINE N == Len(es)
           S == 1 .. N
           X == Seq(Doc)
           ch == [T \in SUBSET S |-> Max(T)]
           op == [q \in S \X X |-> Add(q[2], es[q[1]])]
           eq(h) == h = [T \in SUBSET S |->
                          IF T = {} THEN << >> ELSE Add(h[T \ {Max(T)}], es[Max(T)])]
           f == CHOOSE h : eq(h)
<1>1. N \in Nat /\ DOMAIN es = S /\ IsFiniteSet(S) /\ \A i \in S : es[i] \in Entry
  BY LenProperties, FS_Interval
<1>2. << >> \in X
  BY EmptySeq
<1>3. op \in [S \X X -> X] /\ \A i \in S, docs \in X : op[<<i, docs>>] = Add(docs, es[i])
  <2>1. \A i \in S, docs \in X : Add(docs, es[i]) \in X
    BY <1>1, Adding
  <2> HIDE DEF X, S
  <2>2. QED
    BY <2>1
<1>4. FoldLeft(Add, << >>, es) = f[S] /\ \A n \in Nat : Docs(es, n) = f[1 .. n]
  BY <1>1 DEF FoldLeft, MapThenFoldSet, Docs
<1>5. \A T \in SUBSET S : T # {} => Max(T) \in T /\ Max(T) \in S /\ \A k \in T : Max(T) >= k
  <2>1. ASSUME NEW T \in SUBSET S, T # {} PROVE \E m \in T : \A k \in T : m >= k
    BY <1>1, <2>1, GreatestNumber
  <2>2. QED
    BY <2>1 DEF Max
<1>6. IsChoice(ch, S) /\ \A T \in SUBSET S : ch[T] = Max(T)
  BY <1>5 DEF IsChoice
<1> HIDE DEF N, S, X, op, ch
<1>7. ASSUME NEW g, IsFold(g, S, X, << >>, ch, op) PROVE IsPartialFold(f, S, X, << >>, ch, op)
  <2>1. /\ g[{}] = << >>
        /\ \A T \in SUBSET S : g[T] \in X
        /\ \A T \in SUBSET S : T # {} => g[T] = op[<<ch[T], g[T \ {ch[T]}]>>]
    BY <1>7 DEF IsFold
  <2> DEFINE h == [T \in SUBSET S |-> g[T]]
  <2>2. ASSUME NEW T \in SUBSET S, T # {}
        PROVE  g[T] = Add(h[T \ {Max(T)}], es[Max(T)])
    <3>1. /\ Max(T) \in S /\ T \ {Max(T)} \in SUBSET S /\ ch[T] = Max(T)
          /\ h[T \ {Max(T)}] = g[T \ {Max(T)}]
      BY <1>5, <1>6, <2>2
    <3>2. g[T \ {Max(T)}] \in X /\ g[T] = op[<<Max(T), g[T \ {Max(T)}]>>]
      BY <2>1, <2>2, <3>1
    <3>3. QED
      BY <1>3, <3>1, <3>2
  <2>3. eq(h)
    BY <2>1, <2>2
  <2>4. eq(f)
    <3> HIDE DEF h, eq
    <3>1. QED
      BY <2>3
  <2> HIDE DEF f
  <2>5. f[{}] = << >>
    BY <2>4
  <2>6. ASSUME NEW T \in SUBSET S, T # {} /\ f[T \ {ch[T]}] \in X
        PROVE  f[T] = op[<<ch[T], f[T \ {ch[T]}]>>]
    <3>1. Max(T) \in S /\ ch[T] = Max(T)
      BY <1>5, <1>6, <2>6
    <3>2. f[T] = Add(f[T \ {Max(T)}], es[Max(T)])
      BY <2>4, <2>6
    <3>3. QED
      BY <1>3, <2>6, <3>1, <3>2
  <2>7. QED
    BY <2>5, <2>6 DEF IsPartialFold
<1> HIDE DEF f
<1>8. IsFold(f, S, X, << >>, ch, op)
  <2> DEFINE b == << >>
  <2>1. b \in X /\ \A g : IsFold(g, S, X, b, ch, op) => IsPartialFold(f, S, X, b, ch, op)
    BY <1>2, <1>7
  <2>2. IsFiniteSet(S) /\ IsChoice(ch, S) /\ op \in [S \X X -> X]
    BY <1>1, <1>3, <1>6
  <2> HIDE DEF b
  <2>3. IsFold(f, S, X, b, ch, op)
    BY <2>1, <2>2, ChosenFold, Zenon
  <2>4. QED
    BY <2>3 DEF b
<1>9. /\ f[{}] = << >>
      /\ \A T \in SUBSET S : f[T] \in X
      /\ \A T \in SUBSET S : T # {} => f[T] = op[<<ch[T], f[T \ {ch[T]}]>>]
  BY <1>8 DEF IsFold
<1>10. 1 .. 0 = {}
  OBVIOUS
<1>11. ASSUME NEW n \in 0 .. N, n < N
       PROVE  f[1 .. n + 1] = Add(f[1 .. n], es[n + 1])
  <2> DEFINE T == 1 .. n + 1
  <2>1. T \in SUBSET S /\ T # {} /\ n + 1 \in S /\ T \ {n + 1} = 1 .. n /\ 1 .. n \in SUBSET S
    <3>1. n \in Nat /\ n + 1 <= N
      BY <1>1, <1>11
    <3>2. n + 1 \in S /\ n + 1 \in T
      BY <1>1, <3>1 DEF S
    <3>3. T \in SUBSET S /\ 1 .. n \in SUBSET S
      BY <1>1, <3>1 DEF S
    <3>4. T \ {n + 1} = 1 .. n
      BY <3>1
    <3>5. QED
      BY <3>2, <3>3, <3>4
  <2>2. Max(T) = n + 1
    <3>1. Max(T) \in T /\ \A k \in T : Max(T) >= k
      BY <1>5, <2>1
    <3>2. n + 1 \in T /\ \A k \in T : k \in Nat /\ k <= n + 1
      BY <1>1
    <3> HIDE DEF T
    <3>3. Max(T) >= n + 1 /\ Max(T) <= n + 1 /\ Max(T) \in Nat
      BY <3>1, <3>2
    <3>4. QED
      BY <1>1, <3>3
  <2>3. f[T] = op[<<n + 1, f[T \ {n + 1}]>>]
    BY <1>6, <1>9, <2>1, <2>2
  <2>4. f[T] = op[<<n + 1, f[1 .. n]>>] /\ f[1 .. n] \in X
    BY <1>9, <2>1, <2>3
  <2>5. QED
    BY <1>3, <2>1, <2>4
<1>12. \A n \in 0 .. N : n \in Nat /\ 1 .. n \in SUBSET S
  BY <1>1 DEF S
<1>13. Docs(es, 0) = << >>
  BY <1>4, <1>9, <1>10
<1>14. \A n \in 0 .. N : Docs(es, n) \in Seq(Doc)
  BY <1>4, <1>9, <1>12 DEF X
<1>15. ASSUME NEW n \in 0 .. N, n < N PROVE Docs(es, n + 1) = Add(Docs(es, n), es[n + 1])
  <2>1. n \in Nat /\ n + 1 \in Nat
    BY <1>12
  <2>2. Docs(es, n) = f[1 .. n] /\ Docs(es, n + 1) = f[1 .. n + 1]
    BY <1>4, <2>1
  <2>3. QED
    BY <1>11, <1>15, <2>2
<1>16. FoldLeft(Add, << >>, es) = Docs(es, N)
  BY <1>1, <1>4 DEF S
<1>17. QED
  BY <1>13, <1>14, <1>15, <1>16 DEF N

-----------------------------------------------------------------------------
(***************************************************************************)
(* The entries of the three lists, and the places they come from.          *)
(***************************************************************************)
\* The results of one search, with their ranks.
LEMMA RankedResults ==
  ASSUME Answered, NEW search \in Searches
  PROVE  /\ Ranked(search) \in Seq(Entry)
         /\ Len(Ranked(search)) = Len(found[search])
         /\ \A rank \in 1 .. Len(found[search]) :
              /\ Ranked(search)[rank].key = KeyOf(search, found[search][rank])
              /\ Ranked(search)[rank].score = Score(rank)
              /\ Ranked(search)[rank].search = search
              /\ Ranked(search)[rank].hit = found[search][rank]
<1> DEFINE hits == found[search]
           val(rank) == [key    |-> KeyOf(search, hits[rank]),
                         score  |-> Score(rank),
                         search |-> search,
                         hit    |-> hits[rank]]
           list == [rank \in 1 .. Len(hits) |-> val(rank)]
<1>1. hits \in Seq(Hit)
  BY DEF Answered
<1>2. Len(hits) \in Nat /\ DOMAIN hits = 1 .. Len(hits) /\ \A rank \in 1 .. Len(hits) : hits[rank] \in Hit
  <2> HIDE DEF hits
  <2>1. QED
    BY <1>1, LenProperties
<1>3. Ranked(search) = list
  BY <1>2 DEF Ranked
<1> HIDE DEF hits
<1>4. \A rank \in 1 .. Len(hits) : val(rank) \in Entry
  <2>1. ASSUME NEW rank \in 1 .. Len(hits) PROVE val(rank) \in Entry
    <3>1. hits[rank] \in Hit /\ KeyOf(search, hits[rank]) \in STRING
      BY <1>2 DEF Hit, KeyOf
    <3>2. rank \in Nat /\ Score(rank) \in Nat
      BY <1>2, ScoreIsNat
    <3>3. QED
      BY <3>1, <3>2 DEF Entry
  <2>2. QED
    BY <2>1
<1>5. list \in Seq(Entry) /\ Len(list) = Len(hits)
  <2> HIDE DEF val
  <2>1. list \in [1 .. Len(hits) -> Entry]
    BY <1>4
  <2>2. list \in Seq(Entry)
    BY <1>2, <2>1, SeqDef
  <2>3. DOMAIN list = 1 .. Len(hits) /\ DOMAIN list = 1 .. Len(list) /\ Len(list) \in Nat
    BY <2>2, LenProperties
  <2> HIDE DEF list
  <2>4. QED
    BY <1>2, <2>2, <2>3
<1>6. \A rank \in 1 .. Len(hits) : list[rank] = val(rank)
  OBVIOUS
<1>7. \A rank \in 1 .. Len(hits) :
        /\ val(rank).key = KeyOf(search, hits[rank])
        /\ val(rank).score = Score(rank)
        /\ val(rank).search = search
        /\ val(rank).hit = hits[rank]
  OBVIOUS
<1> HIDE DEF list, val
<1>8. QED
  BY <1>3, <1>5, <1>6, <1>7 DEF hits

\* The three lists one after the other.
Entries == Ranked(FusionOrder[1]) \o Ranked(FusionOrder[2]) \o Ranked(FusionOrder[3])

\* The place of the entry m, by its list and its rank.
PlaceOf(m) ==
  LET a == Len(found["bm25"])
      b == Len(found["knn_kb"])
  IN  IF m <= a THEN <<1, m>>
      ELSE IF m <= a + b THEN <<2, m - a>>
      ELSE <<3, m - (a + b)>>

\* p comes before q.
Earlier(p, q) == p[1] < q[1] \/ (p[1] = q[1] /\ p[2] < q[2])

\* Every entry is what its place says.
LEMMA EntryAtPlace ==
  ASSUME Answered
  PROVE  /\ Entries \in Seq(Entry)
         /\ Len(Entries) = Len(found["bm25"]) + Len(found["knn_kb"]) + Len(found["knn_pattern"])
         /\ \A m \in 1 .. Len(Entries) :
              /\ PlaceOf(m) \in Places
              /\ Entries[m].key = KeyAt(PlaceOf(m))
              /\ Entries[m].score = Score(PlaceOf(m)[2])
              /\ Entries[m].search = "bm25" => m \in 1 .. Len(found["bm25"])
              /\ m <= Len(found["bm25"]) =>
                   /\ Entries[m].search = "bm25"
                   /\ Entries[m].hit = found["bm25"][m]
                   /\ Entries[m].key = KeyOf("bm25", found["bm25"][m])
<1> DEFINE r1 == Ranked("bm25")
           r2 == Ranked("knn_kb")
           r3 == Ranked("knn_pattern")
           a == Len(found["bm25"])
           b == Len(found["knn_kb"])
           c == Len(found["knn_pattern"])
<1>1. /\ a \in Nat /\ b \in Nat /\ c \in Nat
      /\ a <= 2 * TopK /\ b <= 2 * TopK /\ c <= 2 * TopK
      /\ DOMAIN found["bm25"] = 1 .. a /\ DOMAIN found["knn_kb"] = 1 .. b
      /\ DOMAIN found["knn_pattern"] = 1 .. c
  <2>1. \A s \in Searches : found[s] \in Seq(Hit) /\ Len(found[s]) <= 2 * TopK
    BY DEF Answered
  <2>2. \A s \in Searches : Len(found[s]) \in Nat /\ DOMAIN found[s] = 1 .. Len(found[s])
    BY <2>1, LenProperties
  <2>3. QED
    BY <2>1, <2>2 DEF Searches
<1>2. Entries = (r1 \o r2) \o r3
  BY DEF Entries, FusionOrder
<1>3. /\ r1 \in Seq(Entry) /\ Len(r1) = a
      /\ r2 \in Seq(Entry) /\ Len(r2) = b
      /\ r3 \in Seq(Entry) /\ Len(r3) = c
  BY RankedResults DEF Searches
<1>4. /\ \A m \in 1 .. a : /\ r1[m].key = KeyOf("bm25", found["bm25"][m])
                           /\ r1[m].score = Score(m)
                           /\ r1[m].search = "bm25"
                           /\ r1[m].hit = found["bm25"][m]
      /\ \A m \in 1 .. b : /\ r2[m].key = KeyOf("knn_kb", found["knn_kb"][m])
                           /\ r2[m].score = Score(m)
                           /\ r2[m].search = "knn_kb"
      /\ \A m \in 1 .. c : /\ r3[m].key = KeyOf("knn_pattern", found["knn_pattern"][m])
                           /\ r3[m].score = Score(m)
                           /\ r3[m].search = "knn_pattern"
  BY RankedResults DEF Searches
<1>5. /\ \A m \in 1 .. a : KeyAt(<<1, m>>) = KeyOf("bm25", found["bm25"][m])
      /\ \A m \in 1 .. b : KeyAt(<<2, m>>) = KeyOf("knn_kb", found["knn_kb"][m])
      /\ \A m \in 1 .. c : KeyAt(<<3, m>>) = KeyOf("knn_pattern", found["knn_pattern"][m])
  BY DEF KeyAt, Lists, KeyOf
<1>6. /\ \A m \in 1 .. a : <<1, m>> \in Places
      /\ \A m \in 1 .. b : <<2, m>> \in Places
      /\ \A m \in 1 .. c : <<3, m>> \in Places
  BY <1>1, TopKAssumption DEF Places, Lists
<1>7. \A m \in Int : /\ m <= a => PlaceOf(m) = <<1, m>>
                     /\ m > a /\ m <= a + b => PlaceOf(m) = <<2, m - a>>
                     /\ m > a + b => PlaceOf(m) = <<3, m - (a + b)>>
  <2> HIDE DEF a, b
  <2>1. \A m : PlaceOf(m) = IF m <= a THEN <<1, m>>
                            ELSE IF m <= a + b THEN <<2, m - a>> ELSE <<3, m - (a + b)>>
    BY DEF PlaceOf, a, b
  <2>2. QED
    BY <1>1, <2>1
<1> HIDE DEF r1, r2, r3, a, b, c
<1>8. /\ r1 \o r2 \in Seq(Entry) /\ Len(r1 \o r2) = a + b
      /\ \A m \in 1 .. a + b : (r1 \o r2)[m] = IF m <= a THEN r1[m] ELSE r2[m - a]
  BY <1>3, ConcatProperties
<1>9. /\ Entries \in Seq(Entry) /\ Len(Entries) = (a + b) + c
      /\ \A m \in 1 .. (a + b) + c :
           Entries[m] = IF m <= a + b THEN (r1 \o r2)[m] ELSE r3[m - (a + b)]
  <2> DEFINE u == r1 \o r2
  <2>1. Entries = u \o r3 /\ u \in Seq(Entry) /\ Len(u) = a + b
    BY <1>2, <1>8
  <2> HIDE DEF u
  <2>2. /\ Entries \in Seq(Entry) /\ Len(Entries) = (a + b) + c
        /\ \A m \in 1 .. (a + b) + c :
             Entries[m] = IF m <= a + b THEN u[m] ELSE r3[m - (a + b)]
    BY <1>3, <2>1, ConcatProperties
  <2>3. QED
    BY <2>2 DEF u
<1>10. ASSUME NEW m \in 1 .. (a + b) + c, m <= a
       PROVE  m \in 1 .. a /\ Entries[m] = r1[m] /\ PlaceOf(m) = <<1, m>>
  <2>1. m \in Int /\ m \in 1 .. a /\ m \in 1 .. a + b /\ m <= a + b
    BY <1>1, <1>10
  <2>2. PlaceOf(m) = <<1, m>>
    BY <1>7, <1>10, <2>1
  <2>3. Entries[m] = (r1 \o r2)[m]
    BY <1>9, <2>1
  <2>4. (r1 \o r2)[m] = r1[m]
    BY <1>8, <1>10, <2>1
  <2>5. QED
    BY <2>1, <2>2, <2>3, <2>4
<1>11. ASSUME NEW m \in 1 .. (a + b) + c, m > a, m <= a + b
       PROVE  m - a \in 1 .. b /\ Entries[m] = r2[m - a] /\ PlaceOf(m) = <<2, m - a>>
  <2>1. m \in Int /\ m - a \in 1 .. b /\ m \in 1 .. a + b /\ ~(m <= a)
    BY <1>1, <1>11
  <2>2. PlaceOf(m) = <<2, m - a>>
    BY <1>7, <1>11, <2>1
  <2>3. Entries[m] = (r1 \o r2)[m]
    BY <1>9, <1>11
  <2>4. (r1 \o r2)[m] = r2[m - a]
    BY <1>8, <2>1
  <2>5. QED
    BY <2>1, <2>2, <2>3, <2>4
<1>12. ASSUME NEW m \in 1 .. (a + b) + c, m > a + b
       PROVE  m - (a + b) \in 1 .. c /\ Entries[m] = r3[m - (a + b)] /\ PlaceOf(m) = <<3, m - (a + b)>>
  BY <1>1, <1>7, <1>9, <1>12
<1>13. ASSUME NEW m \in 1 .. (a + b) + c
       PROVE  /\ PlaceOf(m) \in Places
              /\ Entries[m].key = KeyAt(PlaceOf(m))
              /\ Entries[m].score = Score(PlaceOf(m)[2])
              /\ Entries[m].search = "bm25" => m \in 1 .. a
              /\ m <= a =>
                   /\ Entries[m].search = "bm25"
                   /\ Entries[m].hit = found["bm25"][m]
                   /\ Entries[m].key = KeyOf("bm25", found["bm25"][m])
  <2>1. CASE m <= a
    BY <1>4, <1>5, <1>6, <1>10, <2>1
  <2>2. CASE m > a /\ m <= a + b
    <3> DEFINE k == m - a
    <3>1. k \in 1 .. b /\ Entries[m] = r2[k] /\ PlaceOf(m) = <<2, k>> /\ ~(m <= a)
      BY <1>1, <1>11, <2>2
    <3> HIDE DEF k
    <3>2. QED
      BY <1>4, <1>5, <1>6, <3>1
  <2>3. CASE m > a + b
    <3> DEFINE k == m - (a + b)
    <3>1. k \in 1 .. c /\ Entries[m] = r3[k] /\ PlaceOf(m) = <<3, k>> /\ ~(m <= a)
      BY <1>1, <1>12, <2>3
    <3> HIDE DEF k
    <3>2. QED
      BY <1>4, <1>5, <1>6, <3>1
  <2>4. QED
    BY <1>1, <2>1, <2>2, <2>3
<1>14. QED
  BY <1>1, <1>9, <1>13 DEF a, b, c

\* The entries are in the order of their places, and every place is one's.
LEMMA PlacesInOrder ==
  ASSUME Answered
  PROVE  /\ \A p \in Places : \E m \in 1 .. Len(Entries) : PlaceOf(m) = p
         /\ \A m, l \in 1 .. Len(Entries) : m < l => Earlier(PlaceOf(m), PlaceOf(l))
<1> DEFINE a == Len(found["bm25"])
           b == Len(found["knn_kb"])
           c == Len(found["knn_pattern"])
<1>1. /\ a \in Nat /\ b \in Nat /\ c \in Nat
      /\ DOMAIN found["bm25"] = 1 .. a /\ DOMAIN found["knn_kb"] = 1 .. b
      /\ DOMAIN found["knn_pattern"] = 1 .. c
  <2>1. \A s \in Searches : found[s] \in Seq(Hit)
    BY DEF Answered
  <2>2. \A s \in Searches : Len(found[s]) \in Nat /\ DOMAIN found[s] = 1 .. Len(found[s])
    BY <2>1, LenProperties
  <2>3. QED
    BY <2>2 DEF Searches
<1>2. Len(Entries) = (a + b) + c
  BY EntryAtPlace
<1>3. \A m \in Int : /\ m <= a => PlaceOf(m) = <<1, m>>
                     /\ m > a /\ m <= a + b => PlaceOf(m) = <<2, m - a>>
                     /\ m > a + b => PlaceOf(m) = <<3, m - (a + b)>>
  <2> HIDE DEF a, b
  <2>1. \A m : PlaceOf(m) = IF m <= a THEN <<1, m>>
                            ELSE IF m <= a + b THEN <<2, m - a>> ELSE <<3, m - (a + b)>>
    BY DEF PlaceOf, a, b
  <2>2. QED
    BY <1>1, <2>1
<1>4. ASSUME NEW p \in Places
      PROVE  \E k \in Nat : \/ p = <<1, k>> /\ k \in 1 .. a
                            \/ p = <<2, k>> /\ k \in 1 .. b
                            \/ p = <<3, k>> /\ k \in 1 .. c
  <2>1. p = <<p[1], p[2]>> /\ p[1] \in 1 .. 3 /\ p[2] \in 1 .. 2 * TopK /\ p[2] \in DOMAIN Lists[p[1]]
    BY DEF Places
  <2>2. p[2] \in Nat /\ (p[1] = 1 \/ p[1] = 2 \/ p[1] = 3)
    BY <2>1, TopKAssumption
  <2>3. /\ p[1] = 1 => p[2] \in 1 .. a
        /\ p[1] = 2 => p[2] \in 1 .. b
        /\ p[1] = 3 => p[2] \in 1 .. c
    BY <1>1, <2>1 DEF Lists
  <2>4. QED
    BY <2>1, <2>2, <2>3
<1> HIDE DEF a, b, c
<1>5. ASSUME NEW p \in Places PROVE \E m \in 1 .. Len(Entries) : PlaceOf(m) = p
  <2>1. PICK k \in Nat : \/ p = <<1, k>> /\ k \in 1 .. a
                         \/ p = <<2, k>> /\ k \in 1 .. b
                         \/ p = <<3, k>> /\ k \in 1 .. c
    BY <1>4
  <2>2. CASE p = <<1, k>> /\ k \in 1 .. a
    <3>1. k \in 1 .. (a + b) + c /\ PlaceOf(k) = p
      BY <1>1, <1>3, <2>2
    <3>2. QED
      BY <1>2, <3>1
  <2>3. CASE p = <<2, k>> /\ k \in 1 .. b
    <3> DEFINE m == a + k
    <3>1. m \in 1 .. (a + b) + c /\ m \in Int /\ m > a /\ m <= a + b /\ m - a = k
      BY <1>1, <2>3
    <3>2. PlaceOf(m) = p
      BY <1>3, <2>3, <3>1
    <3>3. QED
      BY <1>2, <3>1, <3>2
  <2>4. CASE p = <<3, k>> /\ k \in 1 .. c
    <3> DEFINE m == (a + b) + k
    <3>1. m \in 1 .. (a + b) + c /\ m \in Int /\ m > a + b /\ m - (a + b) = k
      BY <1>1, <2>4
    <3>2. PlaceOf(m) = p
      BY <1>3, <2>4, <3>1
    <3>3. QED
      BY <1>2, <3>1, <3>2
  <2>5. QED
    BY <2>1, <2>2, <2>3, <2>4
<1>6. ASSUME NEW m \in 1 .. Len(Entries), NEW l \in 1 .. Len(Entries), m < l
      PROVE  Earlier(PlaceOf(m), PlaceOf(l))
  <2>1. m \in Int /\ l \in Int
    BY <1>1, <1>2
  <2> DEFINE p == PlaceOf(m)
             q == PlaceOf(l)
  <2>2. /\ m <= a => p[1] = 1 /\ p[2] = m
        /\ m > a /\ m <= a + b => p[1] = 2 /\ p[2] = m - a
        /\ m > a + b => p[1] = 3 /\ p[2] = m - (a + b)
    BY <1>3, <2>1
  <2>3. /\ l <= a => q[1] = 1 /\ q[2] = l
        /\ l > a /\ l <= a + b => q[1] = 2 /\ q[2] = l - a
        /\ l > a + b => q[1] = 3 /\ q[2] = l - (a + b)
    BY <1>3, <2>1
  <2> HIDE DEF p, q
  <2>4. Earlier(p, q)
    BY <1>1, <1>6, <2>1, <2>2, <2>3 DEF Earlier
  <2>5. QED
    BY <2>4 DEF p, q
<1>7. QED
  BY <1>5, <1>6

\* The empty string under a name of its own: the SMT backend cannot reason about
\* "" itself.
NoKey == ""

\* There are finitely many entries.
LEMMA EntriesCounted ==
  ASSUME Answered
  PROVE  Len(Entries) \in Nat /\ \A m \in 1 .. Len(Entries) : Entries[m] \in Entry
<1>1. Entries \in Seq(Entry)
  BY EntryAtPlace
<1>2. QED
  BY <1>1, LenProperties, ElementOfSeq

-----------------------------------------------------------------------------
(***************************************************************************)
(* What the documents are after the first n entries.                       *)
(***************************************************************************)
\* The places of key among the first n entries, and the sum over them.
Matching(key, n) == {PlaceOf(m) : m \in {l \in 1 .. n : Entries[l].key = key}}

Total(key, n) == SumOver(key)[Matching(key, n)]

\* The sum grows with every entry that has the key.
LEMMA TotalSteps ==
  ASSUME Answered, NEW key
  PROVE  /\ \A n \in 0 .. Len(Entries) : Total(key, n) \in Nat
         /\ \A n \in 0 .. Len(Entries) :
              (\A m \in 1 .. n : Entries[m].key # key) => Total(key, n) = 0
         /\ \A n \in 0 .. Len(Entries) : n < Len(Entries) =>
              /\ Entries[n + 1].key # key => Total(key, n + 1) = Total(key, n)
              /\ Entries[n + 1].key = key =>
                   Total(key, n + 1) = Total(key, n) + Entries[n + 1].score
         /\ Total(key, Len(Entries)) = Reciprocal(key)
<1> DEFINE N == Len(Entries)
           E(n) == Entries[n]
           S == PlacesOf(key)
           U(n) == {l \in 1 .. n : E(l).key = key}
           g == SumOver(key)
<1>1. N \in Nat
  BY EntryAtPlace, LenProperties
<1>2. \A m \in 1 .. N : /\ PlaceOf(m) \in Places
                        /\ E(m).key = KeyAt(PlaceOf(m))
                        /\ E(m).score = Score(PlaceOf(m)[2])
  BY EntryAtPlace
<1>3. \A m, l \in 1 .. N : m < l => PlaceOf(m) # PlaceOf(l)
  <2>1. ASSUME NEW m \in 1 .. N, NEW l \in 1 .. N, m < l, PlaceOf(m) = PlaceOf(l) PROVE FALSE
    <3>1. Earlier(PlaceOf(m), PlaceOf(m)) /\ PlaceOf(m) \in Places
      BY <1>2, <2>1, PlacesInOrder
    <3>2. PlaceOf(m)[1] \in Int /\ PlaceOf(m)[2] \in Int
      BY <3>1, TopKAssumption DEF Places
    <3>3. QED
      BY <3>1, <3>2 DEF Earlier
  <2>2. QED
    BY <2>1
<1>4. \A p \in S : p \in Places /\ KeyAt(p) = key /\ \E m \in 1 .. N : PlaceOf(m) = p
  BY PlacesInOrder DEF PlacesOf
<1>5. /\ g[{}] = 0 /\ Reciprocal(key) = g[S]
      /\ \A T \in SUBSET S : g[T] \in Nat
      /\ \A T \in SUBSET S : \A p \in T : g[T] = Score(p[2]) + g[T \ {p}]
  BY SumOverPlaces
<1>6. \A n : Matching(key, n) = {PlaceOf(m) : m \in U(n)} /\ Total(key, n) = g[Matching(key, n)]
  BY DEF Matching, Total
<1>7. \A n \in 0 .. N : Matching(key, n) \in SUBSET S
  <2>1. \A m \in 1 .. N : E(m).key = key => PlaceOf(m) \in S
    BY <1>2 DEF PlacesOf
  <2>2. \A n \in 0 .. N : \A m \in U(n) : m \in 1 .. N /\ E(m).key = key
    BY <1>1
  <2> HIDE DEF U, S, E, N
  <2>3. QED
    BY <1>6, <2>1, <2>2
<1>8. Matching(key, N) = S
  <2>1. \A p \in S : \E m \in 1 .. N : PlaceOf(m) = p /\ E(m).key = key
    BY <1>2, <1>4
  <2>2. \A p \in S : p \in Matching(key, N)
    BY <1>6, <2>1
  <2>3. Matching(key, N) \in SUBSET S
    BY <1>1, <1>7
  <2>4. QED
    BY <2>2, <2>3
<1> HIDE DEF S, g, E
<1>9. ASSUME NEW n \in 0 .. N, n < N, E(n + 1).key # key
      PROVE  Total(key, n + 1) = Total(key, n)
  <2>1. \A l : l \in 1 .. n + 1 <=> l \in 1 .. n \/ l = n + 1
    BY <1>1
  <2>2. U(n + 1) = U(n)
    BY <1>9, <2>1
  <2>3. QED
    BY <1>6, <2>2
<1>10. ASSUME NEW n \in 0 .. N, n < N, E(n + 1).key = key
       PROVE  Total(key, n + 1) = Total(key, n) + E(n + 1).score
  <2> DEFINE p == PlaceOf(n + 1)
             T == Matching(key, n + 1)
  <2>1. \A l : l \in 1 .. n + 1 <=> l \in 1 .. n \/ l = n + 1
    BY <1>1
  <2>2. U(n + 1) = U(n) \cup {n + 1}
    BY <1>10, <2>1
  <2>3. T = Matching(key, n) \cup {p}
    BY <1>6, <2>2
  <2>4. n + 1 \in 0 .. N /\ n + 1 \in 1 .. N /\ \A m \in U(n) : m \in 1 .. N /\ m < n + 1
    BY <1>1, <1>10
  <2>5. p \notin Matching(key, n)
    <3>1. \A m \in U(n) : PlaceOf(m) # p
      BY <1>3, <2>4
    <3> HIDE DEF p, U
    <3>2. QED
      BY <1>6, <3>1
  <2> HIDE DEF T, p
  <2>6. p \in T /\ T \ {p} = Matching(key, n) /\ T \in SUBSET S /\ Matching(key, n) \in SUBSET S
    <3>1. T \in SUBSET S
      BY <1>7, <2>4 DEF T
    <3>2. Matching(key, n) \in SUBSET S
      BY <1>7
    <3>3. QED
      BY <2>3, <2>5, <3>1, <3>2
  <2>7. g[T] = Score(p[2]) + g[Matching(key, n)]
    BY <1>5, <2>6
  <2>8. E(n + 1).score = Score(p[2])
    BY <1>2, <2>4 DEF p
  <2>9. Score(p[2]) \in Nat
    <3>1. p \in Places
      BY <1>2, <2>4 DEF p
    <3>2. p[2] \in Nat
      BY <3>1, TopKAssumption DEF Places
    <3>3. QED
      BY <3>2, ScoreIsNat
  <2>10. g[T] = g[Matching(key, n)] + Score(p[2])
    <3>1. g[Matching(key, n)] \in Nat
      BY <1>5, <2>6
    <3>2. QED
      BY <2>7, <2>9, <3>1
  <2>11. Total(key, n + 1) = g[T] /\ Total(key, n) = g[Matching(key, n)]
    BY <1>6 DEF T
  <2>12. QED
    BY <2>8, <2>10, <2>11
<1>11. ASSUME NEW n \in 0 .. N, \A m \in 1 .. n : E(m).key # key
       PROVE  Total(key, n) = 0
  <2>1. Matching(key, n) = {}
    BY <1>6, <1>11
  <2>2. QED
    BY <1>5, <1>6, <2>1
<1>12. \A n \in 0 .. N : Total(key, n) \in Nat
  BY <1>5, <1>6, <1>7
<1>13. Total(key, N) = Reciprocal(key)
  BY <1>5, <1>6, <1>8
<1>14. QED
  BY <1>9, <1>10, <1>11, <1>12, <1>13 DEF E, N

\* One step of it.
LEMMA TotalStep ==
  ASSUME Answered, NEW n \in Nat, n < Len(Entries), NEW key
  PROVE  /\ Entries[n + 1].key # key => Total(key, n + 1) = Total(key, n)
         /\ Entries[n + 1].key = key => Total(key, n + 1) = Total(key, n) + Entries[n + 1].score
         /\ (\A m \in 1 .. n : Entries[m].key # key) => Total(key, n) = 0
<1>1. n \in 0 .. Len(Entries)
  BY EntriesCounted
<1>2. QED
  BY <1>1, TotalSteps

\* Each key has one document, ...
KeysDistinct(docs) ==
  \A i, j \in 1 .. Len(docs) : docs[i].key = docs[j].key => i = j

\* ... which is there from the first entry that has it on, ...
KeysCovered(docs, n) ==
  \A m \in 1 .. n : Entries[m].key # NoKey => Has(docs, Entries[m].key)

KeysInOrder(docs, n) ==
  /\ \A i \in 1 .. Len(docs) : \E m \in 1 .. n : Entries[m].key = docs[i].key
  /\ \A i, j \in 1 .. Len(docs) : i < j =>
       \E m \in 1 .. n : /\ Entries[m].key = docs[i].key
                         /\ \A l \in 1 .. m : Entries[l].key # docs[j].key

\* ... has the sum over its places ...
ScoresAdded(docs, n) ==
  \A i \in 1 .. Len(docs) : docs[i].score = Total(docs[i].key, n)

\* The entry m is the last of BM25 with the key among the first n.
LastArticle(m, key, n) ==
  /\ Entries[m].search = "bm25" /\ Entries[m].key = key
  /\ \A l \in 1 .. n : Entries[l].search = "bm25" /\ Entries[l].key = key => l <= m

\* ... and what BM25 said of it last, if BM25 found it.
ArticlesKept(docs, n) ==
  \A i \in 1 .. Len(docs) : \A m \in 1 .. n :
    LastArticle(m, docs[i].key, n) =>
      docs[i].search = "bm25" /\ docs[i].hit = Entries[m].hit

Collected(docs, n) ==
  /\ KeysDistinct(docs)
  /\ KeysCovered(docs, n)
  /\ KeysInOrder(docs, n)
  /\ ScoresAdded(docs, n)
  /\ ArticlesKept(docs, n)

\* An entry without a key changes nothing.
LEMMA SkipsBlank ==
  ASSUME Answered, NEW n \in Nat, n < Len(Entries),
         NEW docs \in Seq(Doc), Collected(docs, n), Entries[n + 1].key = NoKey
  PROVE  Collected(Add(docs, Entries[n + 1]), n + 1)
<1> DEFINE e == Entries[n + 1]
<1>1. n \in 0 .. Len(Entries) /\ n + 1 \in 1 .. Len(Entries)
  BY EntriesCounted
<1>2. \A m \in 1 .. n + 1 : m \in 1 .. n \/ m = n + 1
  BY <1>1
<1>3. \A m \in 1 .. n : m \in 1 .. n + 1
  BY <1>1
<1>4. e \in Entry
  BY <1>1, EntriesCounted
<1>5. Add(docs, e) = docs
  <2> HIDE DEF e
  <2>1. e.key = "" => Add(docs, e) = docs
    BY <1>4, Adding
  <2>2. e.key = ""
    BY DEF e, NoKey
  <2>3. QED
    BY <2>1, <2>2
<1>6. \A i \in 1 .. Len(docs) : docs[i] \in Doc
  BY ElementOfSeq
<1>7. \A i \in 1 .. Len(docs) : docs[i].key # NoKey
  BY <1>6 DEF Doc, NoKey
<1>8. KeysCovered(docs, n + 1)
  BY <1>2 DEF Collected, KeysCovered
<1>9. KeysInOrder(docs, n + 1)
  BY <1>3 DEF Collected, KeysInOrder
<1>10. ScoresAdded(docs, n + 1)
  <2>1. ASSUME NEW i \in 1 .. Len(docs) PROVE Total(docs[i].key, n + 1) = Total(docs[i].key, n)
    BY <1>7, TotalStep
  <2>2. QED
    BY <2>1 DEF Collected, ScoresAdded
<1>11. ArticlesKept(docs, n + 1)
  BY <1>2, <1>3, <1>7 DEF Collected, ArticlesKept, LastArticle
<1>12. QED
  BY <1>5, <1>8, <1>9, <1>10, <1>11 DEF Collected

\* An entry whose key is there is joined with its document.
LEMMA JoinsKnown ==
  ASSUME Answered, NEW n \in Nat, n < Len(Entries),
         NEW docs \in Seq(Doc), Collected(docs, n),
         Entries[n + 1].key # NoKey, Has(docs, Entries[n + 1].key)
  PROVE  Collected(Add(docs, Entries[n + 1]), n + 1)
<1> DEFINE e == Entries[n + 1]
           new == Add(docs, e)
<1>1. n \in 0 .. Len(Entries) /\ n + 1 \in 1 .. Len(Entries) /\ n + 1 \in 1 .. n + 1
  BY EntriesCounted
<1>2. \A m \in 1 .. n + 1 : m \in 1 .. n \/ m = n + 1
  BY <1>1
<1>3. \A m \in 1 .. n : m \in 1 .. n + 1
  BY <1>1
<1>4. e \in Entry
  BY <1>1, EntriesCounted
<1>5. \A i \in 1 .. Len(docs) : docs[i] \in Doc
  BY ElementOfSeq
<1>6. DOMAIN docs = 1 .. Len(docs)
  BY LenProperties
<1>7. /\ Len(new) = Len(docs)
      /\ \A i \in 1 .. Len(docs) : /\ docs[i].key # e.key => new[i] = docs[i]
                                   /\ docs[i].key = e.key => new[i] = Joined(docs[i], e)
  <2>1. e.key # "" /\ Has(docs, e.key)
    BY DEF NoKey
  <2> HIDE DEF e
  <2>2. QED
    BY <1>4, <2>1, Adding, Zenon
<1>8. new \in Seq(Doc)
  BY <1>4, Adding, Zenon
<1>9. DOMAIN new = 1 .. Len(docs)
  BY <1>7, <1>8, LenProperties
<1> HIDE DEF new, e
<1>10. ASSUME NEW i \in 1 .. Len(docs), docs[i].key = e.key
       PROVE  /\ new[i].key = docs[i].key
              /\ new[i].score = docs[i].score + e.score
              /\ e.search = "bm25" => new[i].search = "bm25" /\ new[i].hit = e.hit
              /\ e.search # "bm25" => new[i].search = docs[i].search /\ new[i].hit = docs[i].hit
  <2> DEFINE doc == docs[i]
  <2>1. doc \in Doc /\ e.key = doc.key /\ new[i] = Joined(doc, e)
    BY <1>5, <1>7, <1>10
  <2> HIDE DEF doc
  <2>2. /\ Joined(doc, e).key = doc.key
        /\ Joined(doc, e).score = doc.score + e.score
        /\ e.search = "bm25" => Joined(doc, e).search = "bm25" /\ Joined(doc, e).hit = e.hit
        /\ e.search # "bm25" => Joined(doc, e).search = doc.search /\ Joined(doc, e).hit = doc.hit
    BY <1>4, <2>1, JoinedDoc
  <2>3. QED
    BY <2>1, <2>2 DEF doc
<1>11. \A i \in 1 .. Len(docs) : new[i].key = docs[i].key
  <2>1. ASSUME NEW i \in 1 .. Len(docs) PROVE new[i].key = docs[i].key
    <3>1. CASE docs[i].key = e.key
      BY <1>10, <3>1
    <3>2. CASE docs[i].key # e.key
      BY <1>7, <3>2
    <3>3. QED
      BY <3>1, <3>2
  <2>2. QED
    BY <2>1
<1>12. KeysDistinct(new)
  BY <1>7, <1>11 DEF Collected, KeysDistinct
<1>13. \A key : Has(new, key) <=> Has(docs, key)
  BY <1>6, <1>9, <1>11 DEF Has
<1>14. KeysCovered(new, n + 1)
  BY <1>2, <1>13 DEF Collected, KeysCovered, e
<1>15. KeysInOrder(new, n + 1)
  BY <1>3, <1>7, <1>11 DEF Collected, KeysInOrder
<1>16. ScoresAdded(new, n + 1)
  <2>1. ASSUME NEW i \in 1 .. Len(docs)
        PROVE  new[i].score = Total(docs[i].key, n + 1)
    <3>1. docs[i].score = Total(docs[i].key, n)
      BY DEF Collected, ScoresAdded
    <3>2. CASE docs[i].key = e.key
      <4>1. Total(docs[i].key, n + 1) = Total(docs[i].key, n) + e.score
        BY <3>2, TotalStep DEF e
      <4>2. QED
        BY <1>10, <3>1, <3>2, <4>1
    <3>3. CASE docs[i].key # e.key
      <4>1. Total(docs[i].key, n + 1) = Total(docs[i].key, n)
        BY <3>3, TotalStep DEF e
      <4>2. new[i] = docs[i]
        BY <1>7, <3>3
      <4>3. QED
        BY <3>1, <4>1, <4>2
    <3>4. QED
      BY <3>2, <3>3
  <2>2. QED
    BY <1>7, <1>11, <2>1 DEF ScoresAdded
<1>17. ArticlesKept(new, n + 1)
  <2> SUFFICES ASSUME NEW i \in 1 .. Len(docs), NEW m \in 1 .. n + 1,
                      LastArticle(m, docs[i].key, n + 1)
               PROVE  new[i].search = "bm25" /\ new[i].hit = Entries[m].hit
    BY <1>7, <1>11 DEF ArticlesKept
  <2>1. CASE docs[i].key = e.key /\ e.search = "bm25"
    <3>1. m = n + 1
      BY <1>1, <2>1 DEF LastArticle, e
    <3>2. QED
      BY <1>10, <2>1, <3>1 DEF e
  <2>2. CASE docs[i].key # e.key \/ e.search # "bm25"
    <3>1. m \in 1 .. n /\ LastArticle(m, docs[i].key, n)
      BY <1>2, <1>3, <2>2 DEF LastArticle, e
    <3>2. docs[i].search = "bm25" /\ docs[i].hit = Entries[m].hit
      BY <3>1 DEF Collected, ArticlesKept
    <3>3. new[i].search = docs[i].search /\ new[i].hit = docs[i].hit
      <4>1. CASE docs[i].key = e.key
        BY <1>10, <2>2, <4>1
      <4>2. CASE docs[i].key # e.key
        BY <1>7, <4>2
      <4>3. QED
        BY <4>1, <4>2
    <3>4. QED
      BY <3>2, <3>3
  <2>3. QED
    BY <2>1, <2>2
<1>18. QED
  BY <1>12, <1>14, <1>15, <1>16, <1>17 DEF Collected, new, e

\* An entry with another key becomes the last document.
LEMMA AppendsNew ==
  ASSUME Answered, NEW n \in Nat, n < Len(Entries),
         NEW docs \in Seq(Doc), Collected(docs, n),
         Entries[n + 1].key # NoKey, ~Has(docs, Entries[n + 1].key)
  PROVE  Collected(Add(docs, Entries[n + 1]), n + 1)
<1> DEFINE e == Entries[n + 1]
           new == Add(docs, e)
           k == Len(docs)
<1>1. n \in 0 .. Len(Entries) /\ n + 1 \in 1 .. Len(Entries) /\ n + 1 \in 1 .. n + 1
  BY EntriesCounted
<1>2. \A m \in 1 .. n + 1 : m \in 1 .. n \/ m = n + 1
  BY <1>1
<1>3. \A m \in 1 .. n : m \in 1 .. n + 1 /\ m # n + 1
  BY <1>1
<1>4. e \in Entry
  BY <1>1, EntriesCounted
<1>5. DOMAIN docs = 1 .. k /\ k \in Nat
  BY LenProperties
<1>6. new \in Seq(Doc) /\ Len(new) = k + 1 /\ new[k + 1] = e /\ \A i \in 1 .. k : new[i] = docs[i]
  <2>1. e.key # "" /\ ~Has(docs, e.key)
    BY DEF NoKey
  <2> HIDE DEF e
  <2>2. QED
    BY <1>4, <2>1, Adding, Zenon
<1>7. DOMAIN new = 1 .. k + 1
  BY <1>6, LenProperties
<1>8. \A i \in 1 .. k : docs[i].key # e.key
  BY <1>5 DEF Has
<1> HIDE DEF new, e, k
<1>9. \A i \in 1 .. k + 1 : i \in 1 .. k \/ i = k + 1
  BY <1>5
<1>10. \A i \in 1 .. k : i \in 1 .. k + 1 /\ i # k + 1
  BY <1>5
<1>11. KeysDistinct(new)
  <2>1. \A i, j \in 1 .. k : docs[i].key = docs[j].key => i = j
    BY DEF Collected, KeysDistinct, k
  <2>2. QED
    BY <1>6, <1>8, <1>9, <2>1 DEF KeysDistinct
<1>12. \A key : Has(docs, key) \/ key = e.key => Has(new, key)
  <2>1. k + 1 \in 1 .. k + 1
    BY <1>5
  <2>2. QED
    BY <1>5, <1>6, <1>7, <1>10, <2>1 DEF Has
<1>13. KeysCovered(new, n + 1)
  BY <1>2, <1>12 DEF Collected, KeysCovered, e
<1>14. \A m \in 1 .. n : Entries[m].key # e.key
  <2>1. ASSUME NEW m \in 1 .. n, Entries[m].key = e.key PROVE FALSE
    <3>1. Has(docs, e.key)
      BY <2>1 DEF Collected, KeysCovered, e
    <3>2. QED
      BY <3>1 DEF e
  <2>2. QED
    BY <2>1
<1>15. KeysInOrder(new, n + 1)
  <2>1. /\ \A i \in 1 .. k : \E m \in 1 .. n : Entries[m].key = docs[i].key
        /\ \A i, j \in 1 .. k : i < j =>
             \E m \in 1 .. n : /\ Entries[m].key = docs[i].key
                               /\ \A l \in 1 .. m : Entries[l].key # docs[j].key
    BY DEF Collected, KeysInOrder, k
  <2>2. ASSUME NEW i \in 1 .. k + 1 PROVE \E m \in 1 .. n + 1 : Entries[m].key = new[i].key
    <3>1. CASE i \in 1 .. k
      BY <1>3, <1>6, <2>1, <3>1
    <3>2. CASE i = k + 1
      BY <1>1, <1>6, <3>2 DEF e
    <3>3. QED
      BY <1>9, <3>1, <3>2
  <2>3. ASSUME NEW i \in 1 .. k + 1, NEW j \in 1 .. k + 1, i < j
        PROVE  \E m \in 1 .. n + 1 : /\ Entries[m].key = new[i].key
                                     /\ \A l \in 1 .. m : Entries[l].key # new[j].key
    <3>1. i \in 1 .. k /\ new[i] = docs[i]
      <4>1. i \in 1 .. k
        BY <1>5, <2>3
      <4>2. QED
        BY <1>6, <4>1
    <3>2. CASE j \in 1 .. k
      <4>1. PICK m \in 1 .. n : /\ Entries[m].key = docs[i].key
                                /\ \A l \in 1 .. m : Entries[l].key # docs[j].key
        BY <2>1, <2>3, <3>1, <3>2
      <4>2. m \in 1 .. n + 1 /\ new[j] = docs[j]
        BY <1>3, <1>6, <3>2
      <4>3. QED
        BY <3>1, <4>1, <4>2
    <3>3. CASE j = k + 1
      <4>1. PICK m \in 1 .. n : Entries[m].key = docs[i].key
        BY <2>1, <3>1
      <4>2. m \in 1 .. n + 1 /\ new[j] = e
        BY <1>3, <1>6, <3>3
      <4>3. \A l \in 1 .. m : l \in 1 .. n
        BY <1>1
      <4>4. QED
        BY <1>14, <3>1, <4>1, <4>2, <4>3
    <3>4. QED
      BY <1>9, <3>2, <3>3
  <2>4. QED
    BY <1>6, <2>2, <2>3 DEF KeysInOrder
<1>16. ScoresAdded(new, n + 1)
  <2>1. ASSUME NEW i \in 1 .. k PROVE new[i].score = Total(new[i].key, n + 1)
    <3>1. docs[i].score = Total(docs[i].key, n)
      BY DEF Collected, ScoresAdded, k
    <3>2. Total(docs[i].key, n + 1) = Total(docs[i].key, n)
      <4>1. docs[i].key # e.key
        BY <1>8
      <4>2. QED
        BY <4>1, TotalStep DEF e
    <3>3. QED
      BY <1>6, <3>1, <3>2
  <2>2. e.score = Total(e.key, n + 1)
    <3>1. Total(e.key, n) = 0
      BY <1>14, TotalStep
    <3>2. Total(e.key, n + 1) = Total(e.key, n) + e.score
      BY TotalStep DEF e
    <3>3. e.score \in Nat
      BY <1>4 DEF Entry
    <3>4. QED
      BY <3>1, <3>2, <3>3
  <2>3. QED
    BY <1>6, <1>9, <2>1, <2>2 DEF ScoresAdded
<1>17. ArticlesKept(new, n + 1)
  <2> SUFFICES ASSUME NEW i \in 1 .. k + 1, NEW m \in 1 .. n + 1,
                      LastArticle(m, new[i].key, n + 1)
               PROVE  new[i].search = "bm25" /\ new[i].hit = Entries[m].hit
    BY <1>6 DEF ArticlesKept
  <2>1. CASE i \in 1 .. k
    <3>1. new[i] = docs[i] /\ docs[i].key # e.key
      BY <1>6, <1>8, <2>1
    <3>2. m \in 1 .. n /\ LastArticle(m, docs[i].key, n)
      BY <1>2, <1>3, <3>1 DEF LastArticle, e
    <3>3. docs[i].search = "bm25" /\ docs[i].hit = Entries[m].hit
      BY <2>1, <3>2 DEF Collected, ArticlesKept, k
    <3>4. QED
      BY <3>1, <3>3
  <2>2. CASE i = k + 1
    <3>1. new[i] = e /\ m = n + 1
      BY <1>2, <1>6, <1>14, <2>2 DEF LastArticle
    <3>2. QED
      BY <3>1 DEF LastArticle, e
  <2>3. QED
    BY <1>9, <2>1, <2>2
<1>18. QED
  BY <1>11, <1>13, <1>15, <1>16, <1>17 DEF Collected, new, e

\* The documents after all the entries.
AllDocs == FoldLeft(Add, << >>, Entries)

\* They are described by Collected, by induction over the entries.
LEMMA AllCollected ==
  ASSUME Answered
  PROVE  AllDocs \in Seq(Doc) /\ Collected(AllDocs, Len(Entries))
<1> DEFINE N == Len(Entries)
           D(n) == Docs(Entries, n)
           P == {n \in Nat : n <= N => Collected(D(n), n)}
<1>1. N \in Nat /\ Entries \in Seq(Entry)
  BY EntryAtPlace, LenProperties
<1>2. /\ D(0) = << >>
      /\ \A n \in 0 .. N : D(n) \in Seq(Doc)
      /\ \A n \in 0 .. N : n < N => D(n + 1) = Add(D(n), Entries[n + 1])
      /\ AllDocs = D(N)
  BY <1>1, DocsSteps DEF AllDocs
<1> HIDE DEF D
<1>3. 0 \in P
  <2>1. Len(<< >>) = 0 /\ 1 .. 0 = {}
    BY EmptySeq
  <2>2. Collected(<< >>, 0)
    BY <2>1 DEF Collected, KeysDistinct, KeysCovered, KeysInOrder, ScoresAdded, ArticlesKept
  <2>3. QED
    BY <1>2, <2>2
<1>4. ASSUME NEW n \in P PROVE n + 1 \in P
  <2> SUFFICES ASSUME n + 1 <= N PROVE Collected(D(n + 1), n + 1)
    OBVIOUS
  <2>1. n \in 0 .. N /\ n < N /\ Collected(D(n), n)
    BY <1>1
  <2> DEFINE docs == D(n)
  <2>2. docs \in Seq(Doc) /\ Collected(docs, n) /\ D(n + 1) = Add(docs, Entries[n + 1])
    BY <1>2, <2>1
  <2> HIDE DEF docs, P
  <2>3. CASE Entries[n + 1].key = NoKey
    BY <2>1, <2>2, <2>3, SkipsBlank
  <2>4. CASE Entries[n + 1].key # NoKey /\ Has(docs, Entries[n + 1].key)
    BY <2>1, <2>2, <2>4, JoinsKnown
  <2>5. CASE Entries[n + 1].key # NoKey /\ ~Has(docs, Entries[n + 1].key)
    BY <2>1, <2>2, <2>5, AppendsNew
  <2>6. QED
    BY <2>3, <2>4, <2>5
<1>5. P = Nat
  <2>1. P \in SUBSET Nat
    OBVIOUS
  <2> HIDE DEF P
  <2>2. QED
    BY <1>3, <1>4, <2>1, Induction
<1>6. Collected(D(N), N) /\ D(N) \in Seq(Doc)
  BY <1>1, <1>2, <1>5
<1>7. QED
  BY <1>2, <1>6

-----------------------------------------------------------------------------
(***************************************************************************)
(* The documents in their order.                                           *)
(***************************************************************************)
\* The document that is sorted into the place n.
Ranks(docs, n) == CHOOSE i \in DOMAIN docs : Cardinality(Ahead(docs, i)) = n - 1

\* Sorted moves every document to a place of its own, in the order of Before.
LEMMA SortedDocs ==
  ASSUME NEW docs \in Seq(Doc)
  PROVE  /\ Sorted(docs) \in Seq(Doc)
         /\ Len(Sorted(docs)) = Len(docs)
         /\ \A n \in 1 .. Len(docs) :
              Ranks(docs, n) \in 1 .. Len(docs) /\ Sorted(docs)[n] = docs[Ranks(docs, n)]
         /\ \A i \in 1 .. Len(docs) : \E n \in 1 .. Len(docs) : Ranks(docs, n) = i
         /\ \A m, n \in 1 .. Len(docs) : m < n => Before(docs, Ranks(docs, m), Ranks(docs, n))
<1> DEFINE N == Len(docs)
           D == 1 .. N
           R == {q \in D \X D : Before(docs, q[1], q[2])}
           rank(i) == NumberBefore(R, N, i)
           at(n) == Ranks(docs, n)
<1>1. N \in Nat /\ DOMAIN docs = D
  BY LenProperties
<1>2. \A i \in D : docs[i] \in Doc
  BY ElementOfSeq
<1>3. \A i \in D : docs[i].score \in Nat
  BY <1>2 DEF Doc
<1>4. \A i, j \in D : <<i, j>> \in R <=> Before(docs, i, j)
  OBVIOUS
<1>5. IsOrder(R, N)
  <2> DEFINE sc(i) == docs[i].score
  <2>1. \A i, j \in D : <<i, j>> \in R <=> sc(i) > sc(j) \/ (sc(i) = sc(j) /\ i < j)
    BY <1>4 DEF Before
  <2>2. \A i \in D : sc(i) \in Nat /\ i \in Nat
    BY <1>1, <1>3
  <2> HIDE DEF R, sc
  <2>3. \A i \in D : <<i, i>> \notin R
    BY <2>1, <2>2
  <2>4. ASSUME NEW i \in D, NEW j \in D, NEW k \in D, <<i, j>> \in R, <<j, k>> \in R
        PROVE  <<i, k>> \in R
    <3>1. /\ sc(i) \in Nat /\ sc(j) \in Nat /\ sc(k) \in Nat
          /\ i \in Nat /\ j \in Nat /\ k \in Nat
          /\ sc(i) > sc(j) \/ (sc(i) = sc(j) /\ i < j)
          /\ sc(j) > sc(k) \/ (sc(j) = sc(k) /\ j < k)
      BY <2>1, <2>2, <2>4
    <3>2. sc(i) > sc(k) \/ (sc(i) = sc(k) /\ i < k)
      BY <3>1
    <3>3. QED
      BY <2>1, <3>2
  <2>5. \A i, j \in D : i # j => <<i, j>> \in R \/ <<j, i>> \in R
    BY <2>1, <2>2
  <2>6. QED
    BY <2>3, <2>4, <2>5 DEF IsOrder
<1>6. IsRanked(R, N)
  <2> HIDE DEF R, N
  <2>1. QED
    BY <1>1, <1>5, Ranking
<1>7. /\ \A i \in D : rank(i) \in Nat /\ rank(i) + 1 \in D
      /\ \A i, j \in D : <<i, j>> \in R => rank(i) < rank(j)
      /\ \A m \in D : \E i \in D : rank(i) = m - 1
  <2> HIDE DEF R
  <2>1. QED
    BY <1>6 DEF IsRanked
<1>8. \A i \in D : Cardinality(Ahead(docs, i)) = rank(i)
  <2>1. \A i \in D : Ahead(docs, i) = {k \in 1 .. N : <<k, i>> \in R}
    BY <1>1, <1>4 DEF Ahead
  <2>2. QED
    BY <2>1 DEF NumberBefore
<1> HIDE DEF R, rank
<1>9. \A n \in D : at(n) \in D /\ rank(at(n)) = n - 1
  <2>1. \A n \in D : \E i \in DOMAIN docs : Cardinality(Ahead(docs, i)) = n - 1
    BY <1>1, <1>7, <1>8
  <2>2. \A n \in D : at(n) \in DOMAIN docs /\ Cardinality(Ahead(docs, at(n))) = n - 1
    BY <2>1 DEF Ranks
  <2>3. QED
    BY <1>1, <1>8, <2>2
<1> HIDE DEF at
<1>10. \A i, j \in D : i # j => <<i, j>> \in R \/ <<j, i>> \in R
  BY <1>5 DEF IsOrder
<1>11. ASSUME NEW i \in D PROVE \E n \in D : at(n) = i
  <2> DEFINE n == rank(i) + 1
  <2>1. n \in D /\ rank(i) \in Nat /\ n - 1 = rank(i)
    BY <1>7
  <2>2. at(n) \in D /\ rank(at(n)) = rank(i)
    BY <1>9, <2>1
  <2> HIDE DEF n
  <2>3. ASSUME at(n) # i PROVE FALSE
    <3>1. <<at(n), i>> \in R \/ <<i, at(n)>> \in R
      BY <1>10, <2>2, <2>3
    <3>2. rank(at(n)) < rank(i) \/ rank(i) < rank(at(n))
      BY <1>7, <2>2, <3>1
    <3>3. QED
      BY <2>1, <2>2, <3>2
  <2>4. QED
    BY <2>1, <2>3
<1>12. ASSUME NEW m \in D, NEW n \in D, m < n PROVE Before(docs, at(m), at(n))
  <2>1. /\ at(m) \in D /\ at(n) \in D
        /\ rank(at(m)) = m - 1 /\ rank(at(n)) = n - 1 /\ m \in Nat /\ n \in Nat
    BY <1>1, <1>9
  <2>2. at(m) # at(n)
    BY <1>12, <2>1
  <2>3. <<at(m), at(n)>> \in R \/ <<at(n), at(m)>> \in R
    BY <1>10, <2>1, <2>2
  <2>4. ~(rank(at(n)) < rank(at(m)))
    BY <1>12, <2>1
  <2>5. <<at(m), at(n)>> \in R
    BY <1>7, <2>1, <2>3, <2>4
  <2>6. QED
    BY <1>4, <2>1, <2>5
<1>13. /\ Sorted(docs) = [n \in D |-> docs[at(n)]]
       /\ Sorted(docs) \in Seq(Doc) /\ Len(Sorted(docs)) = N
  <2> DEFINE list == [n \in D |-> docs[at(n)]]
  <2>1. Sorted(docs) = list
    BY <1>1 DEF Sorted, at, Ranks
  <2>2. list \in [D -> Doc]
    BY <1>2, <1>9
  <2>3. list \in Seq(Doc)
    BY <1>1, <2>2, SeqDef
  <2>4. DOMAIN list = 1 .. N /\ DOMAIN list = 1 .. Len(list) /\ Len(list) \in Nat
    BY <2>3, LenProperties
  <2> HIDE DEF list, N
  <2>5. Len(list) = N
    BY <1>1, <2>4
  <2>6. QED
    BY <2>1, <2>3, <2>5 DEF list
<1>14. QED
  BY <1>9, <1>11, <1>12, <1>13 DEF at

\* The lesser of two numbers.
LEMMA MinOfTwo ==
  ASSUME NEW a \in Nat, NEW b \in Nat
  PROVE  /\ Min({a, b}) \in Nat
         /\ Min({a, b}) = a \/ Min({a, b}) = b
         /\ Min({a, b}) <= a /\ Min({a, b}) <= b
<1>1. \E m \in {a, b} : \A k \in {a, b} : m <= k
  BY LeastNumber
<1>2. Min({a, b}) \in {a, b} /\ \A k \in {a, b} : Min({a, b}) <= k
  BY <1>1 DEF Min
<1>3. QED
  BY <1>2

\* What is given to the prompts: the first of the sorted documents.
LEMMA FusedDocs ==
  ASSUME Answered
  PROVE  /\ Fused \in Seq(Doc)
         /\ Len(Fused) = Min({TopK, Len(AllDocs)})
         /\ \A n \in 1 .. Len(Fused) :
              n \in 1 .. Len(AllDocs) /\ Fused[n] = AllDocs[Ranks(AllDocs, n)]
<1> DEFINE docs == AllDocs
           all == Sorted(docs)
           N == Len(docs)
           K == Min({TopK, N})
<1>1. docs \in Seq(Doc)
  BY AllCollected
<1>2. Fused = SubSeq(all, 1, Min({TopK, Len(all)}))
  BY DEF Fused, Best, Top, AllDocs, Entries
<1> HIDE DEF docs
<1>3. N \in Nat
  BY <1>1, LenProperties
<1>4. /\ all \in Seq(Doc) /\ Len(all) = N
      /\ \A n \in 1 .. N : all[n] = docs[Ranks(docs, n)]
  BY <1>1, SortedDocs
<1> HIDE DEF N, all
<1>5. K \in Nat /\ K <= N
  BY <1>3, TopKAssumption, MinOfTwo
<1>6. Fused = SubSeq(all, 1, K)
  BY <1>2, <1>4
<1> HIDE DEF K
<1>7. \A n \in 1 .. K : n \in 1 .. N
  BY <1>3, <1>5
<1>8. \A n \in 1 .. K : all[n] \in Doc
  BY <1>4, <1>7, ElementOfSeq
<1>9. SubSeq(all, 1, K) \in Seq(Doc) /\ Len(SubSeq(all, 1, K)) = K
      /\ \A n \in 1 .. K : SubSeq(all, 1, K)[n] = all[n]
  <2>1. 1 \in Int /\ K \in Int
    BY <1>5
  <2>2. /\ SubSeq(all, 1, K) \in Seq(Doc)
        /\ Len(SubSeq(all, 1, K)) = IF 1 <= K THEN K - 1 + 1 ELSE 0
        /\ \A n \in 1 .. K - 1 + 1 : SubSeq(all, 1, K)[n] = all[1 + n - 1]
    BY <1>8, <2>1, SubSeqProperties
  <2>3. K - 1 + 1 = K /\ \A n \in 1 .. K : 1 + n - 1 = n
    BY <1>5
  <2>4. QED
    BY <1>5, <2>2, <2>3
<1>10. QED
  BY <1>4, <1>6, <1>7, <1>9 DEF K, N, docs

-----------------------------------------------------------------------------
(***************************************************************************)
(* The properties of the fused documents.                                  *)
(***************************************************************************)
\* The first place of a key is that of the first entry with it.
LEMMA FirstPlace ==
  ASSUME Answered, NEW m \in 1 .. Len(Entries),
         \A l \in 1 .. Len(Entries) : l < m => Entries[l].key # Entries[m].key
  PROVE  First(Entries[m].key) = PlaceOf(m)
<1> DEFINE N == Len(Entries)
           key == Entries[m].key
           p == PlaceOf(m)
           leads(q) == \A r \in PlacesOf(key) : q[1] < r[1] \/ (q[1] = r[1] /\ q[2] <= r[2])
<1>1. N \in Nat /\ m \in Nat
  BY EntriesCounted
<1>2. \A q \in PlacesOf(key) :
        /\ q = <<q[1], q[2]>> /\ q[1] \in Nat /\ q[2] \in Nat
        /\ \E l \in 1 .. N : PlaceOf(l) = q /\ Entries[l].key = key
  <2>1. \A q \in PlacesOf(key) : q \in Places /\ KeyAt(q) = key
    BY DEF PlacesOf
  <2>2. \A q \in Places : q = <<q[1], q[2]>> /\ q[1] \in Nat /\ q[2] \in Nat
    BY TopKAssumption DEF Places
  <2>3. \A q \in Places : \E l \in 1 .. N : PlaceOf(l) = q /\ Entries[l].key = KeyAt(q)
    BY PlacesInOrder, EntryAtPlace
  <2> HIDE DEF key
  <2>4. QED
    BY <2>1, <2>2, <2>3
<1>3. p \in PlacesOf(key)
  BY EntryAtPlace DEF PlacesOf
<1>4. ASSUME NEW q \in PlacesOf(key) PROVE p = q \/ Earlier(p, q)
  <2>1. PICK l \in 1 .. N : PlaceOf(l) = q /\ Entries[l].key = key
    BY <1>2
  <2>2. ~(l < m) /\ l \in Nat
    BY <1>1, <2>1
  <2>3. CASE l = m
    BY <2>1, <2>3
  <2>4. CASE m < l
    BY <2>1, <2>4, PlacesInOrder
  <2>5. QED
    BY <1>1, <2>2, <2>3, <2>4
<1> HIDE DEF key, p
<1>5. leads(p)
  <2>1. ASSUME NEW r \in PlacesOf(key) PROVE p[1] < r[1] \/ (p[1] = r[1] /\ p[2] <= r[2])
    <3>1. p[1] \in Nat /\ p[2] \in Nat
      BY <1>2, <1>3
    <3>2. CASE p = r
      BY <3>1, <3>2
    <3>3. CASE Earlier(p, r)
      <4>1. r[1] \in Nat /\ r[2] \in Nat
        BY <1>2
      <4>2. p[1] < r[1] \/ (p[1] = r[1] /\ p[2] < r[2])
        BY <3>3 DEF Earlier
      <4>3. QED
        BY <3>1, <4>1, <4>2
    <3>4. QED
      BY <1>4, <3>2, <3>3
  <2>2. QED
    BY <2>1
<1>6. ASSUME NEW q \in PlacesOf(key), leads(q) PROVE q = p
  <2>1. /\ q = <<q[1], q[2]>> /\ q[1] \in Nat /\ q[2] \in Nat
        /\ p = <<p[1], p[2]>> /\ p[1] \in Nat /\ p[2] \in Nat
    BY <1>2, <1>3
  <2>2. /\ q[1] < p[1] \/ (q[1] = p[1] /\ q[2] <= p[2])
        /\ p[1] < q[1] \/ (p[1] = q[1] /\ p[2] <= q[2])
    BY <1>3, <1>5, <1>6
  <2>3. q[1] = p[1] /\ q[2] = p[2]
    BY <2>1, <2>2
  <2>4. QED
    BY <2>1, <2>3
<1>7. First(key) = CHOOSE q \in PlacesOf(key) : leads(q)
  BY DEF First
<1> HIDE DEF leads
<1>8. First(key) \in PlacesOf(key) /\ leads(First(key))
  BY <1>3, <1>5, <1>7
<1>9. QED
  BY <1>6, <1>8 DEF key, p

\* Among the entries with a key there is a first.
LEMMA FirstEntry ==
  ASSUME Answered, NEW m \in 1 .. Len(Entries)
  PROVE  \E k \in 1 .. Len(Entries) :
           /\ k <= m
           /\ Entries[k].key = Entries[m].key
           /\ First(Entries[m].key) = PlaceOf(k)
<1> DEFINE N == Len(Entries)
           key == Entries[m].key
           T == {l \in 1 .. N : Entries[l].key = key}
<1>1. N \in Nat
  BY EntriesCounted
<1>2. T \in SUBSET Nat /\ m \in T
  BY <1>1
<1>3. PICK k \in T : \A l \in T : k <= l
  <2> HIDE DEF T
  <2>1. QED
    BY <1>2, LeastNumber
<1>4. k \in 1 .. N /\ k <= m /\ Entries[k].key = key
  BY <1>2, <1>3
<1>5. \A l \in 1 .. N : l < k => Entries[l].key # Entries[k].key
  <2>1. \A l \in 1 .. N : l \in Nat /\ (Entries[l].key = key => k <= l)
    BY <1>1, <1>3
  <2>2. k \in Nat
    BY <1>1, <1>4
  <2> HIDE DEF key
  <2>3. QED
    BY <1>4, <2>1, <2>2
<1>6. First(Entries[k].key) = PlaceOf(k)
  BY <1>4, <1>5, FirstPlace
<1>7. QED
  BY <1>4, <1>6

\* Of two documents the first has been found in an earlier place.
LEMMA FirstsInOrder ==
  ASSUME Answered, NEW i \in 1 .. Len(AllDocs), NEW j \in 1 .. Len(AllDocs), i < j
  PROVE  Earlier(First(AllDocs[i].key), First(AllDocs[j].key))
<1> DEFINE N == Len(Entries)
           a == AllDocs[i].key
           b == AllDocs[j].key
<1>1. N \in Nat
  BY EntriesCounted
<1>2. KeysInOrder(AllDocs, N)
  BY AllCollected DEF Collected
<1>3. PICK m \in 1 .. N : Entries[m].key = a /\ \A l \in 1 .. m : Entries[l].key # b
  BY <1>2 DEF KeysInOrder
<1>4. PICK r \in 1 .. N : Entries[r].key = b
  BY <1>2 DEF KeysInOrder
<1>5. PICK k \in 1 .. N : k <= m /\ First(a) = PlaceOf(k)
  BY <1>3, FirstEntry
<1>6. PICK l \in 1 .. N : Entries[l].key = b /\ First(b) = PlaceOf(l)
  BY <1>4, FirstEntry
<1> HIDE DEF a, b
<1>7. k < l
  <2>1. ~(l \in 1 .. m)
    BY <1>3, <1>6
  <2>2. k \in Nat /\ l \in Nat /\ m \in Nat /\ l >= 1
    BY <1>1
  <2>3. QED
    BY <1>5, <2>1, <2>2
<1>8. Earlier(PlaceOf(k), PlaceOf(l))
  BY <1>7, PlacesInOrder
<1>9. QED
  BY <1>5, <1>6, <1>8 DEF a, b

\* The keys of all the documents are the keys of all the places.
LEMMA AllKeys ==
  ASSUME Answered
  PROVE  /\ Keys = {AllDocs[i].key : i \in 1 .. Len(AllDocs)}
         /\ IsFiniteSet(Keys) /\ Cardinality(Keys) = Len(AllDocs)
         /\ \A i \in 1 .. Len(AllDocs) : AllDocs[i].score = Reciprocal(AllDocs[i].key)
<1> DEFINE docs == AllDocs
           k == Len(docs)
           N == Len(Entries)
           V == {docs[i].key : i \in 1 .. k}
<1>1. docs \in Seq(Doc) /\ Collected(docs, N)
  BY AllCollected
<1>2. k \in Nat /\ N \in Nat /\ DOMAIN docs = 1 .. k
  BY <1>1, LenProperties, EntriesCounted
<1>3. \A i \in 1 .. k : docs[i].key # NoKey
  <2>1. \A i \in 1 .. k : docs[i] \in Doc
    BY <1>1, ElementOfSeq
  <2>2. QED
    BY <2>1 DEF Doc, NoKey
<1> HIDE DEF docs, k, N
<1>4. Keys = {KeyAt(p) : p \in Places} \ {NoKey}
  BY DEF Keys, NoKey
<1>5. ASSUME NEW i \in 1 .. k PROVE docs[i].key \in Keys
  <2>1. PICK m \in 1 .. N : Entries[m].key = docs[i].key
    BY <1>1 DEF Collected, KeysInOrder, k
  <2>2. PlaceOf(m) \in Places /\ Entries[m].key = KeyAt(PlaceOf(m))
    BY EntryAtPlace DEF N
  <2>3. QED
    BY <1>3, <1>4, <2>1, <2>2
<1>6. ASSUME NEW key \in Keys PROVE \E i \in 1 .. k : docs[i].key = key
  <2>1. PICK p \in Places : KeyAt(p) = key /\ key # NoKey
    BY <1>4
  <2>2. PICK m \in 1 .. N : PlaceOf(m) = p
    BY PlacesInOrder DEF N
  <2>3. Entries[m].key = key
    BY <2>1, <2>2, EntryAtPlace DEF N
  <2>4. Has(docs, Entries[m].key)
    BY <1>1, <2>1, <2>3 DEF Collected, KeysCovered
  <2>5. QED
    BY <1>2, <2>3, <2>4 DEF Has
<1>7. Keys = V
  BY <1>5, <1>6
<1>8. IsFiniteSet(V) /\ Cardinality(V) = k
  <2> DEFINE f == [i \in 1 .. k |-> docs[i].key]
  <2>1. \A i, j \in 1 .. k : f[i] = f[j] => i = j
    BY <1>1 DEF Collected, KeysDistinct, k
  <2>2. V = ValuesOf(f, k)
    BY DEF ValuesOf
  <2> HIDE DEF f, V
  <2>3. QED
    BY <1>2, <2>1, <2>2, CountValues
<1>9. ASSUME NEW i \in 1 .. k PROVE docs[i].score = Reciprocal(docs[i].key)
  <2>1. docs[i].score = Total(docs[i].key, N)
    BY <1>1 DEF Collected, ScoresAdded, k
  <2>2. Total(docs[i].key, N) = Reciprocal(docs[i].key)
    BY TotalSteps DEF N
  <2>3. QED
    BY <2>1, <2>2
<1>10. QED
  BY <1>7, <1>8, <1>9 DEF V, docs, k

\* The fused documents are the best of all, and none is left out for a worse one.
LEMMA FusedAreBest ==
  ASSUME Answered, context = Fused
  PROVE  RankedBySum
<1> DEFINE docs == AllDocs
           N == Len(docs)
           K == Len(context)
           at(n) == Ranks(docs, n)
<1>1. docs \in Seq(Doc) /\ N \in Nat /\ Collected(docs, Len(Entries))
  BY AllCollected, LenProperties
<1>2. /\ context \in Seq(Doc) /\ K = Min({TopK, N})
      /\ \A n \in 1 .. K : n \in 1 .. N /\ context[n] = docs[at(n)]
  BY FusedDocs
<1>3. DOMAIN context = 1 .. K /\ K \in Nat
  BY <1>2, LenProperties
<1>4. /\ \A n \in 1 .. N : at(n) \in 1 .. N
      /\ \A i \in 1 .. N : \E n \in 1 .. N : at(n) = i
      /\ \A m, n \in 1 .. N : m < n => Before(docs, at(m), at(n))
  BY <1>1, SortedDocs
<1>5. /\ Keys = {docs[i].key : i \in 1 .. N}
      /\ Cardinality(Keys) = N
      /\ \A i \in 1 .. N : docs[i].score = Reciprocal(docs[i].key)
  BY AllKeys
<1>6. \A i \in 1 .. N : docs[i].score \in Nat
  <2>1. \A i \in 1 .. N : docs[i] \in Doc
    BY <1>1, ElementOfSeq
  <2>2. QED
    BY <2>1 DEF Doc
<1>7. \A i, j \in 1 .. N : docs[i].key = docs[j].key => i = j
  BY <1>1 DEF Collected, KeysDistinct
<1> HIDE DEF docs, N, K, at
<1>8. Cited = {context[n].key : n \in 1 .. K}
  BY <1>3 DEF Cited
<1>9. \A m, n \in 1 .. N : at(m) = at(n) => m = n
  <2>1. ASSUME NEW m \in 1 .. N, NEW n \in 1 .. N, m < n PROVE at(m) # at(n)
    <3>1. Before(docs, at(m), at(n)) /\ at(m) \in 1 .. N
      BY <1>4, <2>1
    <3>2. ~Before(docs, at(m), at(m))
      <4>1. docs[at(m)].score \in Nat /\ at(m) \in Nat
        BY <1>1, <1>6, <3>1
      <4>2. QED
        BY <4>1 DEF Before
    <3>3. QED
      BY <3>1, <3>2
  <2>2. \A m, n \in 1 .. N : m \in Nat /\ n \in Nat /\ (m = n \/ m < n \/ n < m)
    BY <1>1
  <2>3. QED
    BY <2>1, <2>2
<1>10. Cardinality(Cited) = K
  <2> DEFINE f == [n \in 1 .. K |-> context[n].key]
  <2>1. ASSUME NEW m \in 1 .. K, NEW n \in 1 .. K, f[m] = f[n] PROVE m = n
    <3>1. docs[at(m)].key = docs[at(n)].key /\ m \in 1 .. N /\ n \in 1 .. N
      BY <1>2, <2>1
    <3>2. at(m) = at(n)
      BY <1>4, <1>7, <3>1
    <3>3. QED
      BY <1>9, <3>1, <3>2
  <2>2. Cited = ValuesOf(f, K)
    BY <1>8 DEF ValuesOf
  <2> HIDE DEF f
  <2>3. QED
    BY <1>3, <2>1, <2>2, CountValues
<1>11. ASSUME NEW n \in 1 .. K
       PROVE  context[n].key \in Keys /\ context[n].score = Reciprocal(context[n].key)
  BY <1>2, <1>4, <1>5
<1>12. ASSUME NEW n \in 1 .. K, NEW key \in Keys \ Cited
       PROVE  context[n].score >= Reciprocal(key)
  <2>1. PICK i \in 1 .. N : docs[i].key = key
    BY <1>5
  <2>2. PICK m \in 1 .. N : at(m) = i
    BY <1>4
  <2>3. ~(m \in 1 .. K)
    BY <1>2, <1>8, <2>1, <2>2
  <2>4. n \in 1 .. N /\ n < m
    <3>1. n \in 1 .. N
      BY <1>2
    <3>2. m \in Nat /\ m >= 1 /\ n \in Nat /\ n <= K
      BY <1>1, <1>3
    <3>3. QED
      BY <1>3, <2>3, <3>1, <3>2
  <2>5. Before(docs, at(n), i) /\ at(n) \in 1 .. N
    BY <1>4, <2>2, <2>4
  <2>6. docs[at(n)].score >= docs[i].score
    <3>1. docs[at(n)].score \in Nat /\ docs[i].score \in Nat
      BY <1>6, <2>5
    <3>2. docs[at(n)].score > docs[i].score \/ docs[at(n)].score = docs[i].score
      BY <2>5 DEF Before
    <3>3. QED
      BY <3>1, <3>2
  <2>7. context[n].score = docs[at(n)].score /\ docs[i].score = Reciprocal(key)
    BY <1>2, <1>5, <2>1
  <2>8. QED
    BY <2>6, <2>7
<1>13. Len(context) = K /\ K = Min({TopK, Cardinality(Keys)})
  BY <1>2, <1>5 DEF K
<1>14. QED
  BY <1>3, <1>10, <1>11, <1>12, <1>13 DEF RankedBySum

\* They are in the order of their sums, and of their first places.
LEMMA FusedAreOrdered ==
  ASSUME Answered, context = Fused
  PROVE  ArrivalDoesNotMatter
<1> DEFINE docs == AllDocs
           N == Len(docs)
           K == Len(context)
           at(n) == Ranks(docs, n)
<1>1. docs \in Seq(Doc)
  BY AllCollected
<1>2. context \in Seq(Doc) /\ \A n \in 1 .. K : n \in 1 .. N /\ context[n] = docs[at(n)]
  BY FusedDocs
<1>3. DOMAIN context = 1 .. K
  BY <1>2, LenProperties
<1>4. /\ \A n \in 1 .. N : at(n) \in 1 .. N
      /\ \A m, n \in 1 .. N : m < n => Before(docs, at(m), at(n))
  BY <1>1, SortedDocs
<1>5. \A i \in 1 .. N : docs[i].score = Reciprocal(docs[i].key)
  BY AllKeys
<1>6. \A i, j \in 1 .. N : i < j => Earlier(First(docs[i].key), First(docs[j].key))
  BY FirstsInOrder
<1> HIDE DEF docs, N, K, at
<1>7. ASSUME NEW m \in 1 .. K, NEW n \in 1 .. K, m < n
      PROVE  Outranks(context[m].key, context[n].key)
  <2> DEFINE a == docs[at(m)].key
             b == docs[at(n)].key
  <2>1. /\ context[m] = docs[at(m)] /\ at(m) \in 1 .. N
        /\ context[n] = docs[at(n)] /\ at(n) \in 1 .. N
        /\ Before(docs, at(m), at(n))
    BY <1>2, <1>4, <1>7
  <2>2. docs[at(m)].score = Reciprocal(a) /\ docs[at(n)].score = Reciprocal(b)
    BY <1>5, <2>1
  <2>3. \/ Reciprocal(a) > Reciprocal(b)
        \/ Reciprocal(a) = Reciprocal(b) /\ at(m) < at(n)
    BY <2>1, <2>2 DEF Before
  <2>4. at(m) < at(n) => Earlier(First(a), First(b))
    BY <1>6, <2>1
  <2> HIDE DEF a, b
  <2>5. Outranks(a, b)
    BY <2>3, <2>4 DEF Outranks, Earlier
  <2>6. QED
    BY <2>1, <2>5 DEF a, b
<1>8. QED
  BY <1>3, <1>7 DEF ArrivalDoesNotMatter

\* Every article of BM25 has an id.
Identified == \A rank \in 1 .. Len(found["bm25"]) : found["bm25"][rank].id # NoKey

\* A document that BM25 found has the id of the last article with its key.
LEMMA FusedAreCited ==
  ASSUME Answered, Identified, context = Fused
  PROVE  ArticlesAreCited
<1> DEFINE docs == AllDocs
           N == Len(Entries)
           a == Len(found["bm25"])
<1>1. docs \in Seq(Doc) /\ Collected(docs, N)
  BY AllCollected
<1>2. /\ context \in Seq(Doc)
      /\ \A n \in 1 .. Len(context) : n \in 1 .. Len(docs) /\ context[n] = docs[Ranks(docs, n)]
  BY FusedDocs
<1>3. \A n \in DOMAIN context : \E i \in 1 .. Len(docs) : context[n] = docs[i]
  <2>1. \A n \in 1 .. Len(docs) : Ranks(docs, n) \in 1 .. Len(docs)
    BY <1>1, SortedDocs
  <2>2. DOMAIN context = 1 .. Len(context)
    BY <1>2, LenProperties
  <2> HIDE DEF docs
  <2>3. QED
    BY <1>2, <2>1, <2>2
<1>4. DOMAIN found["bm25"] = 1 .. a /\ a \in Nat /\ a <= N
  <2>1. \A s \in Searches : found[s] \in Seq(Hit)
    BY DEF Answered
  <2>2. \A s \in Searches : Len(found[s]) \in Nat /\ DOMAIN found[s] = 1 .. Len(found[s])
    BY <2>1, LenProperties
  <2> DEFINE b == Len(found["knn_kb"])
             c == Len(found["knn_pattern"])
  <2>3. a \in Nat /\ b \in Nat /\ c \in Nat /\ DOMAIN found["bm25"] = 1 .. a
    BY <2>2 DEF Searches
  <2>4. N = a + b + c
    BY EntryAtPlace
  <2> HIDE DEF a, b, c, N
  <2>5. QED
    BY <2>3, <2>4
<1>5. /\ \A m \in 1 .. N : Entries[m].search = "bm25" => m \in 1 .. a
      /\ \A m \in 1 .. N : m <= a =>
           /\ Entries[m].search = "bm25"
           /\ Entries[m].hit = found["bm25"][m]
           /\ Entries[m].key = KeyOf("bm25", found["bm25"][m])
  BY EntryAtPlace
<1> HIDE DEF docs, N, a
<1>6. \A m \in 1 .. a : m \in 1 .. N /\ m <= a
  <2>1. N \in Nat
    BY EntriesCounted DEF N
  <2>2. QED
    BY <1>4, <2>1
<1>7. ASSUME NEW n \in DOMAIN context, NEW rank \in DOMAIN found["bm25"],
             KeyOf("bm25", found["bm25"][rank]) = context[n].key,
             \A other \in DOMAIN found["bm25"] :
               KeyOf("bm25", found["bm25"][other]) = context[n].key => other <= rank
      PROVE  Source(context[n]) = found["bm25"][rank].id
  <2>1. PICK i \in 1 .. Len(docs) : context[n] = docs[i]
    BY <1>3
  <2>2. rank \in 1 .. N /\ rank \in 1 .. a /\ Entries[rank].hit = found["bm25"][rank]
    BY <1>4, <1>5, <1>6
  <2>3. LastArticle(rank, docs[i].key, N)
    <3>1. Entries[rank].search = "bm25" /\ Entries[rank].key = docs[i].key
      BY <1>5, <1>6, <1>7, <2>1, <2>2
    <3>2. ASSUME NEW l \in 1 .. N, Entries[l].search = "bm25", Entries[l].key = docs[i].key
          PROVE  l <= rank
      BY <1>4, <1>5, <1>6, <1>7, <2>1, <3>2
    <3>3. QED
      BY <3>1, <3>2 DEF LastArticle
  <2>4. docs[i].search = "bm25" /\ docs[i].hit = found["bm25"][rank]
    BY <1>1, <2>2, <2>3 DEF Collected, ArticlesKept
  <2>5. docs[i].hit.id # NoKey
    BY <2>2, <2>4 DEF Identified, a
  <2>6. Source(docs[i]) = docs[i].hit.id
    BY <2>4, <2>5 DEF Source, NoKey
  <2>7. QED
    BY <2>1, <2>4, <2>6
<1>8. QED
  BY <1>7 DEF ArticlesAreCited

-----------------------------------------------------------------------------
(***************************************************************************)
(* The invariant.                                                          *)
(***************************************************************************)
\* What the searches have answered is as long as it may be, every article has
\* an id, and the prompts have the fused documents.
FusionInv ==
  /\ Answered
  /\ Identified
  /\ Prompted => context = Fused

\* An answer is kept with ids put in.
LEMMA AnswerKept ==
  ASSUME NEW search \in Searches,
         NEW hits \in Hits[search] \cup (IF search = "bm25" THEN {<< >>} ELSE {})
  PROVE  /\ [i \in DOMAIN hits |-> Named(search, hits[i])] \in Seq(Hit)
         /\ Len([i \in DOMAIN hits |-> Named(search, hits[i])]) = Len(hits)
         /\ search = "bm25" =>
              \A i \in 1 .. Len(hits) :
                [j \in DOMAIN hits |-> Named(search, hits[j])][i].id # NoKey
<1> DEFINE list == [i \in DOMAIN hits |-> Named(search, hits[i])]
<1>1. hits \in Seq(Hit)
  <2>1. CASE hits \in Hits[search]
    BY <2>1, HitsAssumption
  <2>2. CASE hits \notin Hits[search]
    <3>1. hits = << >>
      BY <2>2
    <3>2. QED
      BY <3>1, EmptySeq
  <2>3. QED
    BY <2>1, <2>2
<1>2. /\ Len(hits) \in Nat /\ DOMAIN hits = 1 .. Len(hits)
      /\ \A i \in 1 .. Len(hits) : hits[i] \in Hit
  BY <1>1, LenProperties, ElementOfSeq
<1>3. ASSUME NEW i \in 1 .. Len(hits) PROVE Named(search, hits[i]) \in Hit
  <2> DEFINE hit == hits[i]
  <2>1. hit \in Hit
    BY <1>2
  <2> HIDE DEF hit
  <2>2. [hit EXCEPT !.id = hit.es] \in Hit
    BY <2>1 DEF Hit
  <2>3. Named(search, hit) \in {hit, [hit EXCEPT !.id = hit.es]}
    BY DEF Named
  <2>4. QED
    BY <2>1, <2>2, <2>3 DEF hit
<1>4. list \in [1 .. Len(hits) -> Hit]
  BY <1>2, <1>3
<1>5. list \in Seq(Hit)
  BY <1>2, <1>4, SeqDef
<1>6. Len(list) = Len(hits)
  <2>1. DOMAIN list = 1 .. Len(hits) /\ DOMAIN list = 1 .. Len(list) /\ Len(list) \in Nat
    BY <1>2, <1>5, LenProperties
  <2> HIDE DEF list
  <2>2. QED
    BY <1>2, <2>1
<1>7. ASSUME search = "bm25", NEW i \in 1 .. Len(hits) PROVE list[i].id # NoKey
  <2> DEFINE hit == hits[i]
  <2>1. hits \in Hits["bm25"]
    <3>1. ASSUME hits = << >> PROVE FALSE
      <4>1. Len(hits) = 0
        BY <3>1, EmptySeq
      <4>2. QED
        BY <4>1
    <3>2. QED
      BY <1>7, <3>1
  <2>2. hit.es # NoKey /\ hit \in Hit /\ list[i] = Named(search, hit)
    BY <1>2, <2>1, IdAssumption DEF NoKey
  <2> HIDE DEF hit, list
  <2>3. CASE hit.id = NoKey
    <3>1. list[i] = [hit EXCEPT !.id = hit.es]
      BY <1>7, <2>2, <2>3 DEF Named, NoKey
    <3>2. QED
      BY <2>2, <3>1 DEF Hit
  <2>4. CASE hit.id # NoKey
    <3>1. list[i] = hit
      BY <1>7, <2>2, <2>4 DEF Named, NoKey
    <3>2. QED
      BY <2>4, <3>1
  <2>5. QED
    BY <2>3, <2>4
<1>8. QED
  BY <1>5, <1>6, <1>7

\* The fused documents depend on what the searches found alone.
LEMMA FusedFollowsFound ==
  ASSUME found' = found
  PROVE  Fused' = Fused
BY DEF Fused, Ranked

\* The invariant holds: only Answer changes what was found, only Fuse the context.
LEMMA FusionHolds == Spec => []FusionInv
<1>1. Init => FusionInv
  <2> SUFFICES ASSUME Init PROVE FusionInv
    OBVIOUS
  <2>1. << >> \in Seq(Hit) /\ Len(<< >>) = 0 /\ 0 <= 2 * TopK /\ 1 .. 0 = {}
    BY EmptySeq, TopKAssumption
  <2>2. found \in [Searches -> Seq(Hit)] /\ \A s \in Searches : found[s] = << >>
    BY <2>1 DEF Init
  <2>3. Answered
    BY <2>1, <2>2 DEF Answered
  <2>4. Identified
    BY <2>1, <2>2 DEF Identified, Searches
  <2>5. ~Prompted
    BY DEF Init, Prompted
  <2>6. QED
    BY <2>3, <2>4, <2>5 DEF FusionInv
<1>2. FusionInv /\ [Next]_vars => FusionInv'
  <2> SUFFICES ASSUME FusionInv, [Next]_vars PROVE FusionInv'
    OBVIOUS
  <2>1. ASSUME found' = found PROVE Answered' /\ Identified'
    BY <2>1 DEF FusionInv, Answered, Identified
  <2>2. CASE Embed
    <3>1. ~Prompted' /\ found' = found
      BY <2>2 DEF Embed, Prompted
    <3>2. QED
      BY <2>1, <3>1 DEF FusionInv
  <2>3. CASE Fuse
    <3>1. context' = Fused /\ found' = found
      BY <2>3 DEF Fuse
    <3>2. context' = Fused'
      BY <3>1, FusedFollowsFound
    <3>3. QED
      BY <2>1, <3>1, <3>2 DEF FusionInv
  <2>4. CASE ReplyCause \/ ReplySolutions \/ Raise \/ UNCHANGED vars
    <3>1. context' = context /\ found' = found /\ (Prompted' => Prompted)
      BY <2>4 DEF ReplyCause, ReplySolutions, Raise, vars, Prompted
    <3>2. Fused' = Fused
      BY <3>1, FusedFollowsFound
    <3>3. QED
      BY <2>1, <3>1, <3>2 DEF FusionInv
  <2>5. ASSUME NEW search \in Searches, Answer(search) PROVE FusionInv'
    <3>1. PICK hits \in Hits[search] \cup (IF search = "bm25" THEN {<< >>} ELSE {}) :
            /\ Len(hits) <= 2 * TopK
            /\ found' = [found EXCEPT ![search] = [i \in DOMAIN hits |-> Named(search, hits[i])]]
      BY <2>5 DEF Answer
    <3> DEFINE list == [i \in DOMAIN hits |-> Named(search, hits[i])]
    <3>2. /\ list \in Seq(Hit) /\ Len(list) = Len(hits)
          /\ search = "bm25" => \A i \in 1 .. Len(hits) : list[i].id # NoKey
      BY AnswerKept
    <3>3. found' = [found EXCEPT ![search] = list]
      BY <3>1
    <3> HIDE DEF list
    <3>4. /\ found' \in [Searches -> Seq(Hit)] /\ found'[search] = list
          /\ \A s \in Searches : s # search => found'[s] = found[s]
      BY <3>2, <3>3 DEF FusionInv, Answered
    <3>5. Answered'
      <4>1. ASSUME NEW s \in Searches PROVE Len(found'[s]) <= 2 * TopK
        <5>1. CASE s = search
          BY <3>1, <3>2, <3>4, <5>1
        <5>2. CASE s # search
          BY <3>4, <5>2 DEF FusionInv, Answered
        <5>3. QED
          BY <5>1, <5>2
      <4>2. QED
        BY <3>4, <4>1 DEF Answered
    <3>6. Identified'
      <4>1. CASE search = "bm25"
        BY <3>2, <3>4, <4>1 DEF Identified
      <4>2. CASE search # "bm25"
        <5>1. found'["bm25"] = found["bm25"]
          BY <3>4, <4>2 DEF Searches
        <5>2. QED
          BY <5>1 DEF FusionInv, Identified
      <4>3. QED
        BY <4>1, <4>2
    <3>7. ~Prompted'
      BY <2>5 DEF Answer, Prompted
    <3>8. QED
      BY <3>5, <3>6, <3>7 DEF FusionInv
  <2>6. QED
    BY <2>2, <2>3, <2>4, <2>5 DEF Next
<1>3. QED
  BY <1>1, <1>2, PTL DEF Spec

\* RankedBySum, for any number of documents and any answers of the searches:
\* the prompts get the documents with the greatest sums of reciprocal ranks.
THEOREM FusionRanksBySum == Spec => []RankedBySum
<1>1. FusionInv => RankedBySum
  BY FusedAreBest DEF FusionInv, RankedBySum
<1>2. QED
  BY <1>1, FusionHolds, PTL

\* ArrivalDoesNotMatter, likewise: their order is the order of the sums and of
\* the first places, whichever search answered first.
THEOREM FusionIgnoresArrival == Spec => []ArrivalDoesNotMatter
<1>1. FusionInv => ArrivalDoesNotMatter
  BY FusedAreOrdered DEF FusionInv, ArrivalDoesNotMatter
<1>2. QED
  BY <1>1, FusionHolds, PTL

\* ArticlesAreCited, likewise: a document that BM25 found is cited by the id of
\* the last article BM25 found under its key.
THEOREM FusionCitesArticles == Spec => []ArticlesAreCited
<1>1. FusionInv => ArticlesAreCited
  BY FusedAreCited DEF FusionInv, ArticlesAreCited
<1>2. QED
  BY <1>1, FusionHolds, PTL

\* What analyze() returns has its type.
LEMMA ResultTyped ==
  ASSUME NEW reply \in SolutionReply, NEW first
  PROVE  [confident |-> Confidence(first) >= MIN_CONFIDENCE,
          solutions |-> SolutionsIn(reply)] \in AnalysisResult
<1> DEFINE items == reply.items
           I == [candidate : BOOLEAN, sol : Solution]
           sols == [i \in DOMAIN items |-> items[i].sol]
<1>1. items \in Seq(I)
  BY DEF SolutionReply
<1>2. SolutionsIn(reply) \in {<< >>, sols}
  BY DEF SolutionsIn
<1> HIDE DEF items
<1>3. sols \in Seq(Solution)
  <2> HIDE DEF I
  <2>1. Len(items) \in Nat /\ DOMAIN items = 1 .. Len(items) /\ \A i \in 1 .. Len(items) : items[i] \in I
    BY <1>1, LenProperties, ElementOfSeq
  <2>2. sols \in [1 .. Len(items) -> Solution]
    BY <2>1 DEF I
  <2>3. QED
    BY <2>1, <2>2, SeqDef
<1>4. SolutionsIn(reply) \in Seq(Solution)
  <2>1. << >> \in Seq(Solution)
    BY EmptySeq
  <2> HIDE DEF sols
  <2>2. QED
    BY <1>2, <1>3, <2>1
<1>5. (Confidence(first) >= MIN_CONFIDENCE) \in BOOLEAN
  OBVIOUS
<1>6. QED
  BY <1>4, <1>5 DEF AnalysisResult

\* TypeOK, for any number of documents, any answers and any replies.
THEOREM AnalysisTyped == Spec => []TypeOK
<1>1. Init => TypeOK
  <2> SUFFICES ASSUME Init PROVE TypeOK
    OBVIOUS
  <2>1. /\ << >> \in Seq(Searches) /\ << >> \in Seq(Hit) /\ << >> \in Seq(Doc)
        /\ << >> \in Seq(CauseReply) /\ << >> \in Seq(SolutionReply) /\ << >> \in Seq(Solution)
    BY EmptySeq
  <2>2. NoResult \in AnalysisResult
    BY <2>1 DEF NoResult, AnalysisResult
  <2>3. found \in [Searches -> Seq(Hit)]
    BY <2>1 DEF Init
  <2>4. QED
    BY <2>1, <2>2, <2>3 DEF Init, TypeOK, Phases
<1>2. TypeOK /\ FusionInv /\ [Next]_vars => TypeOK'
  <2> SUFFICES ASSUME TypeOK, FusionInv, [Next]_vars PROVE TypeOK'
    OBVIOUS
  <2>1. CASE Embed
    BY <2>1 DEF Embed, TypeOK, Phases
  <2>2. CASE Fuse
    <3>1. Fused \in Seq(Doc)
      BY FusedDocs DEF FusionInv
    <3>2. QED
      BY <2>2, <3>1 DEF Fuse, TypeOK, Phases
  <2>3. CASE ReplyCause
    <3>1. PICK reply \in CauseReplies :
            cause' = <<reply>> /\ phase' \in {"raised", "solutions"}
      BY <2>3 DEF ReplyCause
    <3>2. cause' \in Seq(CauseReply)
      BY <3>1, RepliesAssumption
    <3>3. QED
      BY <2>3, <3>1, <3>2 DEF ReplyCause, TypeOK, Phases
  <2>4. CASE ReplySolutions
    <3>1. PICK reply \in SolutionReplies :
            /\ answer' = <<reply>>
            /\ \/ phase' = "raised" /\ result' = result
               \/ /\ phase' = "done"
                  /\ result' = [confident |-> Confidence(cause[1]) >= MIN_CONFIDENCE,
                                solutions |-> SolutionsIn(reply)]
      BY <2>4 DEF ReplySolutions
    <3>2. answer' \in Seq(SolutionReply) /\ reply \in SolutionReply
      BY <3>1, RepliesAssumption
    <3>3. result' \in AnalysisResult /\ phase' \in Phases
      BY <3>1, <3>2, ResultTyped DEF TypeOK, Phases
    <3>4. QED
      BY <2>4, <3>2, <3>3 DEF ReplySolutions, TypeOK
  <2>5. CASE Raise
    BY <2>5 DEF Raise, TypeOK, Phases
  <2>6. ASSUME NEW search \in Searches, Answer(search) PROVE TypeOK'
    <3>1. PICK hits \in Hits[search] \cup (IF search = "bm25" THEN {<< >>} ELSE {}) :
            found' = [found EXCEPT ![search] = [i \in DOMAIN hits |-> Named(search, hits[i])]]
      BY <2>6 DEF Answer
    <3> DEFINE list == [i \in DOMAIN hits |-> Named(search, hits[i])]
    <3>2. list \in Seq(Hit)
      BY AnswerKept
    <3>3. found' = [found EXCEPT ![search] = list]
      BY <3>1
    <3> HIDE DEF list
    <3>4. found' \in [Searches -> Seq(Hit)]
      BY <3>2, <3>3 DEF TypeOK
    <3>5. arrived' \in Seq(Searches)
      BY <2>6, AppendProperties DEF Answer, TypeOK
    <3>6. QED
      BY <2>6, <3>4, <3>5 DEF Answer, TypeOK
  <2>7. CASE UNCHANGED vars
    BY <2>7 DEF vars, TypeOK
  <2>8. QED
    BY <2>1, <2>2, <2>3, <2>4, <2>5, <2>6, <2>7 DEF Next
<1>3. QED
  BY <1>1, <1>2, FusionHolds, PTL DEF Spec

=============================================================================
