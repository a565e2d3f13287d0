------------------------------- MODULE Retrieval -------------------------------
(***************************************************************************)
(* What a search finds: vectorstore::FaissVectorStore with threads that    *)
(* add and delete, the search of InMemoryVectorStore over the same         *)
(* documents, and the retrievers of retriever/retriever.cpp on top.        *)
(*                                                                         *)
(* An embedding is a number, the score of two the higher the nearer they   *)
(* are.  It stands for a vector of unit length, as the embedders return,   *)
(* for which FAISS's inner product is the cosine that the score is made of *)
(* in memory.  A document has one tag as metadata.  The index of FAISS     *)
(* (external) is the sequence of the vectors it was given: labels count    *)
(* from 1 here, and it is searched exactly, as with nlist = 0.             *)
(***************************************************************************)
EXTENDS Integers, Sequences, FiniteSetsExt, SequencesExt

CONSTANTS Adders, Embeddings, Tags, Nobody, MaxAdds, MaxDeletes

VARIABLES
  index,      \* the vectors in the FAISS index
  found,      \* docs_: [id, emb, tag]
  count,      \* impl_->count
  adding,     \* per thread the document that is in the index and not in docs_, or Nobody
  adds, deletes,
  drifted     \* history: an id was deleted, or two adds overlapped

vars == <<index, found, count, adding, adds, deletes, drifted>>

\* The elements of s that are in S, in their order.
Only(s, S) ==
  LET only[n \in 0..Len(s)] ==
        IF n = 0 THEN <<>> ELSE IF s[n] \in S THEN Append(only[n - 1], s[n]) ELSE only[n - 1]
  IN  only[Len(s)]

Init ==
  /\ index = <<>> /\ found = <<>> /\ count = 0
  /\ adding = [t \in Adders |-> Nobody]
  /\ adds = 0 /\ deletes = 0 /\ drifted = FALSE

\* add_documents: the index is given the vector under no lock (an add that
\* throws, of the embedder or the index, changes nothing),
IndexAdd(t) ==
  /\ adding[t] = Nobody /\ adds < MaxAdds /\ adds' = adds + 1
  /\ \E e \in Embeddings, g \in Tags :
       /\ index' = Append(index, e)
       /\ adding' = [adding EXCEPT ![t] = [id |-> adds', emb |-> e, tag |-> g]]
  /\ drifted' = (drifted \/ \E u \in Adders : adding[u] # Nobody)
  /\ UNCHANGED <<found, count, deletes>>

\* Mutation: the document is put in front of the others.
DocsAddFirst(t) ==
  /\ adding[t] # Nobody
  /\ found' = <<adding[t]>> \o found /\ count' = count + 1
  /\ adding' = [adding EXCEPT ![t] = Nobody]
  /\ UNCHANGED <<index, adds, deletes, drifted>>

\* and docs_ the document, under mu_.
DocsAdd(t) ==
  /\ adding[t] # Nobody
  /\ found' = Append(found, adding[t]) /\ count' = count + 1
  /\ adding' = [adding EXCEPT ![t] = Nobody]
  /\ UNCHANGED <<index, adds, deletes, drifted>>

\* delete_documents leaves the index alone.
DeleteDocuments(i) ==
  /\ deletes < MaxDeletes /\ deletes' = deletes + 1
  /\ found' = Only(found, {d \in Range(found) : d.id # i}) /\ count' = Len(found')
  /\ drifted' = TRUE
  /\ UNCHANGED <<index, adding, adds>>

Next == (\E t \in Adders : IndexAdd(t) \/ DocsAdd(t)) \/ (\E i \in 1..adds : DeleteDocuments(i))

Spec == Init /\ [][Next]_vars

-----------------------------------------------------------------------------
(* Searches read only.  A filter is a set of tags, at most one, that a     *)
(* document must have all of.                                              *)
score(q, e) == 100 - (IF q > e THEN q - e ELSE e - q)
Matches(d, filter) == filter \subseteq {d.tag}
Hit(d, s) == [doc |-> d, score |-> s]
Scores(hits) == [i \in DOMAIN hits |-> hits[i].score]

\* Which comes first of two with one score is left open.
Ranking(scores) ==
  CHOOSE p \in [DOMAIN scores -> DOMAIN scores] :
    /\ \A i, j \in DOMAIN scores : i # j => p[i] # p[j]
    /\ \A i, j \in DOMAIN scores : i < j => scores[p[i]] >= scores[p[j]]
Sorted(hits) == LET p == Ranking(Scores(hits)) IN [i \in DOMAIN hits |-> hits[p[i]]]
First(s, k) == SubSeq(s, 1, IF k < Len(s) THEN k ELSE Len(s))

SearchInMemory(q, k, filter) ==
  IF k <= 0 THEN <<>>
  ELSE LET matching == Only(found, {d \in Range(found) : Matches(d, filter)})
           scored   == [i \in DOMAIN matching |-> Hit(matching[i], score(q, matching[i].emb))]
       IN  First(Sorted(scored), k)

\* The nearest k labels first; then those of no document, and of none that
\* matches, are dropped.
SearchFaiss(q, k, filter) ==
  LET nearest == First(Sorted([l \in DOMAIN index |-> [label |-> l, score |-> score(q, index[l])]]), k)
      kept == Only(nearest, {n \in Range(nearest) : n.label \in DOMAIN found /\ Matches(found[n.label], filter)})
  IN  IF k <= 0 THEN <<>> ELSE [i \in DOMAIN kept |-> Hit(found[kept[i].label], kept[i].score)]

\* VectorStoreRetriever: k <= 0 is the default.
RetrieveVectors(q, k) == SearchInMemory(q, IF k > 0 THEN k ELSE 2, {})

\* Mutation: the last score, instead of the best.
MergeLast(hits) ==
  LET ids == {hits[i].doc.id : i \in DOMAIN hits}
      last(id) == hits[CHOOSE i \in DOMAIN hits : hits[i].doc.id = id /\ \A j \in DOMAIN hits : hits[j].doc.id = id => j <= i]
  IN  {last(id) : id \in ids}

\* MultiQueryRetriever: the best score of each document over the queries.  (A
\* negative k ends in a throw: it asks for more than a vector can hold.)
Merge(hits) ==
  LET best(h) == \A j \in DOMAIN hits : hits[j].doc.id = h.doc.id => hits[j].score <= h.score
  IN  {h \in Range(hits) : best(h)}
RetrieveMulti(qs, k) ==
  LET merged == Merge(FlattenSeq([i \in DOMAIN qs |-> RetrieveVectors(qs[i], k)]))
  IN  First(Sorted(SetToSeq(merged)), k)

-----------------------------------------------------------------------------
TypeOK ==
  /\ index \in Seq(Embeddings) /\ Len(found) <= Len(index)
  /\ count = Len(found) /\ drifted \in BOOLEAN

Docs(hits)   == {hits[i].doc : i \in DOMAIN hits}
Ranked(hits) ==
  /\ \A i, j \in DOMAIN hits : i < j => hits[i].score >= hits[j].score /\ hits[i].doc.id # hits[j].doc.id
  /\ Docs(hits) \subseteq Range(found)
Honest(q, hits) == \A i \in DOMAIN hits : hits[i].score = score(q, hits[i].doc.emb)

BestOf(q, k, filter) ==
  LET plain == SearchInMemory(q, k, filter)
      match == {d \in Range(found) : Matches(d, filter)}
  IN  /\ Ranked(plain) /\ Honest(q, plain) /\ Docs(plain) \subseteq match
      /\ Len(plain) = (IF k < Cardinality(match) THEN k ELSE Cardinality(match))
      /\ \A d \in match \ Docs(plain), i \in DOMAIN plain : score(q, d.emb) <= plain[i].score

NearestOf(q, k, filter) ==
  LET plain == SearchInMemory(q, k, filter)
      faiss == SearchFaiss(q, k, filter)
      still == \A t \in Adders : adding[t] = Nobody
  IN  /\ Ranked(faiss) /\ Len(faiss) <= k
      /\ Docs(faiss) \subseteq {d \in Range(found) : Matches(d, filter)}
      /\ ~drifted => Honest(q, faiss)
      /\ ~drifted /\ still /\ filter = {} => Scores(faiss) = Scores(plain)

MergedOf(q, r, k) ==
  LET multi == RetrieveMulti(<<q, r>>, k)
      each  == RetrieveVectors(q, k) \o RetrieveVectors(r, k)
  IN  /\ Ranked(multi) /\ Len(multi) <= k
      /\ \A i \in DOMAIN multi :
           /\ multi[i] \in Range(each)
           /\ \A j \in DOMAIN each : each[j].doc = multi[i].doc => each[j].score <= multi[i].score
      /\ \A j \in DOMAIN each : each[j].doc \in Docs(multi) \/ Len(multi) = k

(* A search of the memory store returns the k best of the documents that   *)
(* match, best first, and a search over several queries the best of what   *)
(* each of them finds, each document once under its best score.  FAISS     *)
(* finds as good ones without a filter, and of those k the ones that match *)
(* with one, each under its own score: until a document is deleted or two  *)
(* threads add at once, from when on a label may stand for another         *)
(* document; even then it returns documents that are there and match, no   *)
(* document twice.                                                         *)
SearchesRank ==
  \A q \in Embeddings, k \in 0..3 :
    /\ \A filter \in {{}} \cup {{g} : g \in Tags} : BestOf(q, k, filter) /\ NearestOf(q, k, filter)
    /\ \A r \in Embeddings : MergedOf(q, r, k)
=============================================================================
