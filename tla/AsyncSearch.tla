----------------------------- MODULE AsyncSearch -----------------------------
(***************************************************************************)
(* engine_search_async (src/async_search.c): a query becomes one work item *)
(* per shard on the libuv thread pool, the caller runs the event loop      *)
(* until it has no more to do, and gathers what the shards found.          *)
(*                                                                         *)
(* There is one caller: the event loop is one of the process and is not    *)
(* made for several threads.  Of libuv the module uses that work waits in  *)
(* a queue for a thread of the pool, that a thread reports finished work   *)
(* to the loop, and that uv_run calls back for each report and returns     *)
(* when no work is outstanding.                                            *)
(***************************************************************************)
EXTENDS Fusion

CONSTANTS NumShards,    \* engine->num_shards
          Threads,      \* threads of the libuv pool
          MaxAnswer,    \* max_results of the caller
          Searches      \* queries, each with the documents in the shards

ASSUME NumShardsAssumption == NumShards \in Nat \ {0}
ASSUME ThreadsAssumption   == Threads \in Nat \ {0}
ASSUME MaxAnswerAssumption == MaxAnswer \in Nat

VARIABLES loop,         \* async_search_loop: is there one?
          phase,        \* where the caller is
          search,       \* the query and the documents in the shards
          work,         \* the work item of each shard
          completed,    \* ctx.completed
          answer        \* what the caller gets

searchVars == <<loop, phase, search, work, completed, answer>>

Shards == 1..NumShards

NoSearch ==
    [query |-> [terms |-> <<>>, is_phrase |-> FALSE, use_text |-> FALSE, use_vector |-> FALSE],
     docs  |-> [s \in Shards |-> <<>>]]

(* What the work items of a search find, and what the caller makes of the  *)
(* items that have their results: tables, for TLC to compute them once.    *)
HitsOf   == [q \in Searches |-> [s \in Shards |-> ShardHits(q.docs[s], q.query)]]
AnswerOf == [q \in Searches |-> [found \in SUBSET Shards |->
                Gather([s \in Shards |-> IF s \in found THEN HitsOf[q][s] ELSE <<>>],
                       q.query, MaxAnswer)]]
SyncAnswerOf == [q \in Searches |-> EngineSearch(q.docs, q.query, MaxAnswer)]

Idle == /\ phase = "idle"
        /\ search = NoSearch
        /\ work = [s \in Shards |-> "none"]
        /\ completed = 0
        /\ answer = <<>>

(* async_search_init, at the latest when the first query comes.  Without a *)
(* loop the search has no results.                                         *)
SearchBegins(q) ==
    /\ phase = "idle"
    /\ phase' = "queueing"
    /\ loop' = TRUE
    /\ search' = q
    /\ UNCHANGED <<work, completed, answer>>

SearchRefused(q) ==
    /\ phase = "idle" /\ ~loop
    /\ phase' = "refused"
    /\ search' = q
    /\ UNCHANGED <<loop, work, completed, answer>>

(* uv_queue_work, shard by shard; a thread may start on the first while    *)
(* the caller queues the second.                                           *)
Queue(s) ==
    /\ phase = "queueing"
    /\ work[s] = "none"
    /\ \A r \in Shards : r < s => work[r] # "none"
    /\ work' = [work EXCEPT ![s] = "queued"]
    /\ phase' = IF s = NumShards THEN "waiting" ELSE phase
    /\ UNCHANGED <<loop, search, completed, answer>>

(* The threads take work in the order it was queued. *)
Running == {s \in Shards : work[s] = "running"}

WorkStarts(s) ==
    /\ work[s] = "queued"
    /\ \A r \in Shards : work[r] = "queued" => s <= r
    /\ Cardinality(Running) < Threads
    /\ work' = [work EXCEPT ![s] = "running"]
    /\ UNCHANGED <<loop, phase, search, completed, answer>>

(* shard_search_work_cb: nobody else uses the shard while it runs, and the *)
(* item has its results, HitsOf, when it ends.                             *)
WorkEnds(s) ==
    /\ work[s] = "running"
    /\ work' = [work EXCEPT ![s] = "reported"]
    /\ UNCHANGED <<loop, phase, search, completed, answer>>

HasResults == {s \in Shards : work[s] \in {"reported", "done"}}

(* shard_search_done_cb, in the caller's thread. *)
CallsBack(s) ==
    /\ phase = "waiting"
    /\ work[s] = "reported"
    /\ work' = [work EXCEPT ![s] = "done"]
    /\ completed' = completed + 1
    /\ UNCHANGED <<loop, phase, search, answer>>

(* UV_RUN_DEFAULT goes on while there is work; the variants return after   *)
(* the first callbacks, as UV_RUN_ONCE does, or wait for one too many.     *)
LoopOnce     == \E s \in Shards : work[s] = "done"
LoopTooLong  == completed > NumShards
LoopHasNoMore == \A s \in Shards : work[s] = "done"

LoopReturns ==
    /\ phase = "waiting"
    /\ LoopHasNoMore
    /\ phase' = "gathering"
    /\ UNCHANGED <<loop, search, work, completed, answer>>

(* The rest of engine_search_async. *)
SearchReturns ==
    /\ phase = "gathering"
    /\ phase' = "returned"
    /\ answer' = AnswerOf[search][HasResults]
    /\ UNCHANGED <<loop, search, work, completed>>

(* The caller goes on; the context was on the stack of the call. *)
Forget == /\ phase \in {"returned", "refused"}
          /\ phase' = "idle"
          /\ search' = NoSearch
          /\ work' = [s \in Shards |-> "none"]
          /\ completed' = 0
          /\ answer' = <<>>
          /\ UNCHANGED loop

CallerStep == \/ \E s \in Shards : Queue(s) \/ CallsBack(s)
              \/ LoopReturns
ThreadStep(s) == WorkStarts(s) \/ WorkEnds(s)
-----------------------------------------------------------------------------
(***************************************************************************)
(* Properties                                                              *)
(***************************************************************************)

InSearch == phase \in {"queueing", "waiting"}

(* The context of a search lies on the caller's stack and its shards belong *)
(* to the caller again when it returns: no work item may be left in the    *)
(* queue, on a thread or unreported, and each has been counted once.       *)
NoWorkOutlivesSearch ==
    ~InSearch => \/ \A s \in Shards : work[s] = "none"
                 \/ /\ \A s \in Shards : work[s] = "done"
                    /\ completed = NumShards

query         == search.query
Docs          == UNION {ToSet(search.docs[s]) : s \in Shards}
NodesUnique   == \A c, d \in Docs : c.node = d.node => c = d
NothingCut    == \A s \in Shards : Len(search.docs[s]) <= MaxHits

(* The scores down the list: documents with equal scores may change places. *)
Scores(hits) == [i \in DOMAIN hits |-> <<hits[i].text, hits[i].cosine>>]

(* "The async replacement for engine_search()" (async_search.h:46) answers *)
(* a query without terms, by text or by vector, as engine_search does,     *)
(* whatever order threads and reports come in.                             *)
AnswersLikeEngineSearch ==
    phase = "returned" /\ query.terms = <<>> /\ ~(query.use_text /\ query.use_vector)
        => /\ Scores(answer) = Scores(SyncAnswerOf[search])
           /\ NothingCut => NodesIn(answer) = NodesIn(SyncAnswerOf[search])

(* Fusing in each shard first and again over all shards loses no document, *)
(* lists none twice and none that engine_search does not, but for a        *)
(* document that scores nothing at all.                                    *)
HybridFindsTheSame ==
    phase = "returned" /\ query.terms = <<>> /\ query.use_text /\ query.use_vector /\ NothingCut
        => /\ NodesIn(answer) = NodesIn(SyncAnswerOf[search])
                                   \ {d.node : d \in {c \in Docs : c.text = 0 /\ c.cosine = 0}}
           /\ NodesUnique => Len(answer) = Cardinality(NodesIn(answer))

(* A query of several words lists the documents with any of them, each     *)
(* once, with the sum of the scores of its words, the best first.          *)
WordQuery == /\ query.use_text /\ ~query.use_vector
             /\ ~query.is_phrase /\ query.terms # <<>>
Score(d)  == d.text * Cardinality({i \in DOMAIN query.terms : query.terms[i] \in ToSet(d.terms)})

WordsFindDocuments ==
    phase = "returned" /\ WordQuery /\ NodesUnique /\ NothingCut
        => /\ NodesIn(answer) = {d.node : d \in {c \in Docs : Score(c) > 0}}
           /\ Len(answer) = Cardinality(NodesIn(answer))
           /\ \A i \in DOMAIN answer : \A d \in Docs :
                 d.node = answer[i].node => answer[i].text = Score(d)
           /\ \A i, j \in DOMAIN answer : i <= j => answer[i].text >= answer[j].text

(* The cut to MaxHits in every shard costs the first MaxHits places of the *)
(* answer nothing: no document left out beats one of them.                 *)
TopHitsAreBest ==
    phase = "returned" /\ query.use_vector # query.use_text /\ NodesUnique
      /\ Len(query.terms) <= 1
        => \A i \in DOMAIN answer : \A d \in Docs :
              LET score  == IF query.use_vector THEN d.cosine
                            ELSE IF query.terms = <<>> THEN d.text ELSE Score(d)
                  listed == IF query.use_vector THEN answer[i].cosine ELSE answer[i].text
              IN  i <= MaxHits /\ d.node \notin NodesIn(answer) => listed >= score

(* uv_run returns from every search, with more shards than threads too. *)
EverySearchEnds == InSearch ~> phase = "gathering"
=============================================================================
