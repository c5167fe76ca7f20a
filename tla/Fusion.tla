-------------------------------- MODULE Fusion --------------------------------
(***************************************************************************)
(* What a query computes: the hits of one shard, and how the hits of all   *)
(* shards become one ranked answer, by engine_search (src/unified_shard.c) *)
(* and by the scatter and gather of src/async_search.c.                    *)
(*                                                                         *)
(* A document has the terms of its text, in order, and two scores that     *)
(* stand for BM25F (0 if no field has the term) and for the similarity to  *)
(* the query.  The code's exchange sorts and qsort order equal scores each *)
(* in its own way; here they stay in the order they come in.               *)
(***************************************************************************)
EXTENDS Integers, SequencesExt, TLC

CONSTANT MaxHits        \* MAX_RESULTS_PER_SHARD

ASSUME MaxHitsAssumption == MaxHits \in Nat \ {0}

(* 1 / (RRF_K + rank), in units small enough to tell sums of two apart. *)
RrfUnit   == 1000000000
Rrf(rank) == RrfUnit \div (60 + rank)

ByText(a, b)   == a.text > b.text
ByCosine(a, b) == a.cosine > b.cosine
ByRrf(a, b)    == a.rrf > b.rrf

Hit(doc, text, cosine) == [node |-> doc.node, text |-> text, cosine |-> cosine,
                           text_rank |-> 0, cosine_rank |-> 0, rrf |-> 0]

Cut(hits, max) == SubSeq(hits, 1, IF Len(hits) < max THEN Len(hits) ELSE max)
-----------------------------------------------------------------------------
(***************************************************************************)
(* One shard                                                               *)
(***************************************************************************)

(* The best of all that are found, best first: with max_results taken, a   *)
(* hit replaces the worst one it beats.  The variant cuts before it sorts. *)
FirstHits(hits)         == Cut(hits, MaxHits)
BestTextFirstCome(hits) == SortSeq(FirstHits(hits), ByText)
BestText(hits)          == FirstHits(SortSeq(hits, ByText))
BestCosine(hits)        == FirstHits(SortSeq(hits, ByCosine))

(* shard_search_bm25f over a scan, shard_search_bm25f_indexed over a list. *)
TextHits(docs) ==
    LET scoring == SelectSeq(docs, LAMBDA d : d.text > 0)
    IN  BestText([i \in DOMAIN scoring |-> Hit(scoring[i], scoring[i].text, 0)])

(* shard_search_vector. *)
CosineHits(docs) == BestCosine([i \in DOMAIN docs |-> Hit(docs[i], 0, docs[i].cosine)])

(* The places of the hits for a node; the first hit for each node. *)
PlacesOf(hits, node) == {i \in DOMAIN hits : hits[i].node = node}
NodesIn(hits)        == {hits[i].node : i \in DOMAIN hits}
IsFirstHit(hits, i)  == \A j \in 1..(i - 1) : hits[j].node # hits[i].node
Firsts(hits) ==
    LET places == SelectSeq([i \in DOMAIN hits |-> i], LAMBDA i : IsFirstHit(hits, i))
    IN  [k \in DOMAIN places |-> hits[places[k]]]

(* The hits of one term join those of the terms before it, while there is  *)
(* room: a document has the sum of its hits' scores.  The variant keeps    *)
(* the score of the first.                                                 *)
SumOnce(hits, node)   == hits[Min(PlacesOf(hits, node))].text
SumOfText(hits, node) == MapThenSumSet(LAMBDA i : hits[i].text, PlacesOf(hits, node))

TermsHits(docs, terms) ==
    LET With(t) == SelectSeq(docs, LAMBDA d : t \in ToSet(d.terms))
        found   == FlattenSeq([i \in DOMAIN terms |-> TextHits(With(terms[i]))])
        listed  == FirstHits(Firsts(found))
    IN  [i \in DOMAIN listed |-> [listed[i] EXCEPT !.text = SumOfText(found, listed[i].node)]]

(* What a phrase search finds while posting lists ascend (InvertedIndex). *)
HasPhrase(d, phrase) ==
    \E i \in DOMAIN d.terms : /\ i + Len(phrase) - 1 <= Len(d.terms)
                              /\ SubSeq(d.terms, i, i + Len(phrase) - 1) = phrase

(* Without terms every document is a candidate: all have the term 0. *)
TextSearch(docs, q) ==
    IF q.terms = <<>> THEN TextHits(docs)
    ELSE IF q.is_phrase THEN TextHits(SelectSeq(docs, LAMBDA d : HasPhrase(d, q.terms)))
    ELSE TermsHits(docs, q.terms)

(* Text hits, and behind them the documents that only the vector search    *)
(* found.  The first hit for a document gets its similarity and its rank.  *)
New(text, cosine) == Firsts(SelectSeq(cosine, LAMBDA h : h.node \notin NodesIn(text)))

WithCosine(hit, cosine) ==
    LET places == PlacesOf(cosine, hit.node)
    IN  IF places = {} THEN hit
        ELSE [hit EXCEPT !.cosine = cosine[Max(places)].cosine,
                         !.cosine_rank = cosine[Max(places)].cosine_rank]
Joined(hits, cosine) ==
    [i \in DOMAIN hits |-> IF IsFirstHit(hits, i) THEN WithCosine(hits[i], cosine) ELSE hits[i]]

RankText(hits)   == [i \in DOMAIN hits |-> [hits[i] EXCEPT !.text_rank = i]]
RankCosine(hits) == [i \in DOMAIN hits |-> [hits[i] EXCEPT !.cosine_rank = i]]

(* merge_rrf: within a shard a hit has 1 / (60 + rank) for each list it is *)
(* in, and the best are kept.                                              *)
MergeRrf(text, cosine) ==
    LET all        == Joined(RankText(text) \o New(text, cosine), RankCosine(cosine))
        RrfOf(i)   == (IF i <= Len(text) THEN Rrf(i) ELSE 0)
                      + (IF IsFirstHit(all, i)
                         THEN MapThenSumSet(Rrf, PlacesOf(cosine, all[i].node)) ELSE 0)
    IN  FirstHits(SortSeq([i \in DOMAIN all |-> [all[i] EXCEPT !.rrf = RrfOf(i)]], ByRrf))

(* shard_search_work_cb. *)
ShardHits(docs, q) ==
    LET text   == TextSearch(docs, q)
        cosine == CosineHits(docs)
    IN  IF q.use_text /\ q.use_vector THEN MergeRrf(text, cosine)
        ELSE IF q.use_text THEN [i \in DOMAIN text |-> [text[i] EXCEPT !.rrf = text[i].text]]
        ELSE [i \in DOMAIN cosine |-> [cosine[i] EXCEPT !.rrf = cosine[i].cosine]]
-----------------------------------------------------------------------------
(***************************************************************************)
(* All shards                                                              *)
(***************************************************************************)

(* compute_rrf_fusion: a rank counts where its score is not zero. *)
Fused(hits) ==
    SortSeq([i \in DOMAIN hits |-> [hits[i] EXCEPT !.rrf =
                 (IF hits[i].text > 0 THEN Rrf(hits[i].text_rank) ELSE 0)
               + (IF hits[i].cosine # 0 /\ hits[i].cosine_rank > 0
                  THEN Rrf(hits[i].cosine_rank) ELSE 0)]], ByRrf)

(* The same in both: ranks, the two lists joined, and the final order. *)
Ranked(text, cosine, q) ==
    LET by_text   == RankText(SortSeq(text, ByText))
        by_cosine == RankCosine(SortSeq(cosine, ByCosine))
        joined    == Joined(by_text \o New(by_text, by_cosine), by_cosine)
    IN  IF q.use_text /\ q.use_vector THEN Fused(joined)
        ELSE IF q.use_text THEN SortSeq(joined, ByText)
        ELSE SortSeq(joined, ByCosine)

(* The hits of a shard are text hits if they have a text score, and vector *)
(* hits otherwise.  One variant leaves out similarities of 0 in any query, *)
(* the other takes every hit of a hybrid query for a text hit.             *)
IsTextHit(hit, q) == q.use_text /\ hit.text > 0
IsCosineHitNotZero(hit, q) == ~IsTextHit(hit, q) /\ q.use_vector /\ hit.cosine # 0
IsCosineHitVectorOnly(hit, q) == q.use_vector /\ ~q.use_text
IsCosineHit(hit, q) == /\ ~IsTextHit(hit, q)
                       /\ q.use_vector
                       /\ hit.cosine # 0 \/ ~q.use_text

(* The second half of engine_search_async, over the hits of the shards. *)
Gather(parts, q, max) ==
    LET all == FlattenSeq(parts)
    IN  Cut(Ranked(SelectSeq(all, LAMBDA h : IsTextHit(h, q)),
                   SelectSeq(all, LAMBDA h : IsCosineHit(h, q)), q), max)

(* engine_search: both lists come from the shards as they are, and the     *)
(* terms of the query play no part.                                        *)
EngineSearch(shards, q, max) ==
    LET text   == FlattenSeq([s \in DOMAIN shards |-> TextHits(shards[s])])
        cosine == FlattenSeq([s \in DOMAIN shards |-> CosineHits(shards[s])])
    IN  Cut(Ranked(IF q.use_text THEN text ELSE <<>>,
                   IF q.use_vector THEN cosine ELSE <<>>, q), max)
===============================================================================
