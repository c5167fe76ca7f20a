---------------------------- MODULE InvertedIndex ----------------------------
(***************************************************************************)
(* The inverted index of one shard and the lexicon in front of it: the     *)
(* words of documents become term ids, and documents are added one after   *)
(* another by the owner thread and searched for terms and phrases in       *)
(* between.  What a search finds is a function of the state, so searches   *)
(* are operators, and the properties compare them with the texts added;    *)
(* what a query leaves in the lexicon is an action.                        *)
(*                                                                         *)
(* Document n is the n-th added, its record at location n: the pages that  *)
(* hold records, deletion and failed or late saves are in Shard.           *)
(***************************************************************************)
EXTENDS PostingLists, Lexicon

CONSTANTS Terms,        \* term ids
          Texts,        \* the words of documents
          Queries,      \* the words of queries
          MaxDocs,      \* bound on the documents
          MaxCalls,     \* bound on the queries and restarts
          MaxPages      \* bound on the pages of the file

ASSUME TermsAssumption == /\ Terms \subseteq Nat \ {AllDocs}
                          /\ \A w \in Words : TermHash[w] \in Terms
ASSUME TextsAssumption == Texts \subseteq Seq(Words) /\ Queries \subseteq Seq(Words)
ASSUME BoundsAssumption == /\ MaxDocs \in Nat /\ MaxCalls \in Nat
                           /\ MaxPages \in Nat /\ MaxPages > FirstFree

VARIABLES index,        \* B-tree entries, pages and next_page_id
          lexicon,      \* g_lexicon
          docs,         \* the documents added, in order: words and term ids
          calls         \* queries and restarts so far

vars == <<index, lexicon, docs, calls>>

Init == /\ index = [head  |-> [t \in Terms \cup {AllDocs} |-> NoPage],
                    pages |-> [p \in 0..(MaxPages - 1) |-> ZeroPage],
                    next_page_id |-> FirstFree]
        /\ lexicon = EmptyLexicon
        /\ docs = <<>>
        /\ calls = 0

(* python_insert_document, and the part of shard_insert_document that      *)
(* adds postings.                                                          *)
AddDocument(text) ==
    /\ Len(docs) < MaxDocs
    /\ index.next_page_id + Len(text) + 1 <= MaxPages
    /\ \E ids \in {TermIds(lexicon, text)} :
         /\ docs' = Append(docs, [words |-> text, ids |-> ids])
         /\ index' = AddPostings(index, ids, Len(docs), Len(docs))
    /\ lexicon' = AllInserted(lexicon, text)
    /\ UNCHANGED calls

(* ftsFilter looks its words up by inserting them. *)
Query(text) ==
    /\ calls < MaxCalls
    /\ calls' = calls + 1
    /\ lexicon' = AllInserted(lexicon, text)
    /\ UNCHANGED <<index, docs>>

(* The engine is closed in order, and opened by another process, which has *)
(* a lexicon of its own.                                                   *)
Restart ==
    /\ calls < MaxCalls
    /\ calls' = calls + 1
    /\ lexicon' = EmptyLexicon
    /\ UNCHANGED <<index, docs>>

Next == \/ \E text \in Texts : AddDocument(text)
        \/ \E text \in Queries : Query(text)
        \/ Restart

Spec == Init /\ [][Next]_vars
-----------------------------------------------------------------------------
(***************************************************************************)
(* Properties                                                              *)
(***************************************************************************)

DocIds == 0..(Len(docs) - 1)
Text(d) == docs[d + 1].ids
PositionsIn(d, t) == {i \in DOMAIN Text(d) : Text(d)[i] = t}
Listed(t) == GetPostings(index, t)

(* Every variable stays in its domain. *)
TypeOK ==
    /\ \A d \in DocIds : Text(d) \in Seq(Terms) /\ docs[d + 1].words \in Texts
    /\ \A b \in DOMAIN lexicon : \A i \in DOMAIN lexicon[b] :
         lexicon[b][i].term_id \in Terms /\ lexicon[b][i].document_frequency \in Nat \ {0}
    /\ index.next_page_id \in FirstFree..MaxPages
    /\ index.head \in [Terms \cup {AllDocs} -> (FirstFree..(index.next_page_id - 1)) \cup {NoPage}]
    /\ \A p \in DOMAIN index.pages :
         /\ index.pages[p].kind = "posting" <=> p \in FirstFree..(index.next_page_id - 1)
         /\ index.pages[p].kind = "posting" =>
              /\ Len(index.pages[p].postings) \in 1..MaxPostings
              /\ index.pages[p].next \in (FirstFree..(p - 1)) \cup {NoPage}

(* A search for a term lists every document that has it, once: however     *)
(* often the term repeats in a document, and whichever page the chain has  *)
(* reached.                                                                *)
ListsEachDocumentOnce ==
    \A t \in Terms :
        /\ {Listed(t)[i].doc : i \in DOMAIN Listed(t)} = {d \in DocIds : PositionsIn(d, t) # {}}
        /\ \A i, j \in DOMAIN Listed(t) : Listed(t)[i].doc = Listed(t)[j].doc => i = j

(* The positions kept are the first ones, in order: a position dropped for *)
(* lack of room never leaves a gap.  The n-th of them is the place of the  *)
(* term that n - 1 places come before.                                     *)
Keeps(positions, places) ==
    /\ Len(positions) = IF Cardinality(places) < MaxPositions
                        THEN Cardinality(places) ELSE MaxPositions
    /\ \A n \in DOMAIN positions :
          /\ positions[n] + 1 \in places
          /\ Cardinality({i \in places : i < positions[n] + 1}) = n - 1

PositionsArePrefix ==
    \A t \in Terms : \A i \in DOMAIN Listed(t) :
        Keeps(Listed(t)[i].positions, PositionsIn(Listed(t)[i].doc, t))

DocsWith(word)  == {d \in DocIds : word \in ToSet(docs[d + 1].words)}
Claimed(word)   == \E v \in Words \ {word} : Stored[v] = word
DocsListed(ids) == {d \in DocIds : \E t \in ids : \E i \in DOMAIN Listed(t) : Listed(t)[i].doc = d}

(* A query for a word finds the documents that have it and, at most, those *)
(* that have a word of the same hash, or a word that one of the same hash  *)
(* is cut to: whichever process inserted them, and whatever else is in the *)
(* bucket.  Left out are words another is cut to.                          *)
Stands(v, w) == \E x \in Words : (x = v \/ Stored[x] = v) /\ TermHash[x] = TermHash[w]

WordsFindTheirDocuments ==
    \A w \in Words : ~Claimed(w) =>
        LET found == DocsListed({IdOf(lexicon, w)})
        IN  /\ DocsWith(w) \subseteq found
            /\ \A d \in found : \E v \in ToSet(docs[d + 1].words) : Stands(v, w)

Phrases == {<<s, t>> : s, t \in Terms} \cup {<<r, s, t>> : r, s, t \in Terms}

HasPhrase(d, phrase) == \E s \in 0..(Len(Text(d)) - Len(phrase)) :
    \A i \in DOMAIN phrase : Text(d)[s + i] = phrase[i]

Found(phrase) == {PhrasePostings(index, phrase)[i].doc :
                     i \in DOMAIN PhrasePostings(index, phrase)}

(* A phrase search finds no document without the phrase. *)
PhraseSound == \A phrase \in Phrases : \A d \in Found(phrase) : HasPhrase(d, phrase)

(* No position of these terms was dropped from the document. *)
Untruncated(d, phrase) ==
    \A i \in DOMAIN phrase : \A j \in DOMAIN Listed(phrase[i]) :
        LET p == Listed(phrase[i])[j]
        IN p.doc = d => Len(p.positions) = Cardinality(PositionsIn(d, phrase[i]))

ListAscends(t) == \A i, j \in DOMAIN Listed(t) : i < j => Listed(t)[i].doc < Listed(t)[j].doc

(* It finds every document that has the phrase as long as the lists of its *)
(* terms ascend, which they do up to the first overflow of a page.         *)
PhraseCompleteWhileAscending ==
    \A phrase \in Phrases :
        (\A i \in DOMAIN phrase : ListAscends(phrase[i])) =>
            \A d \in DocIds : HasPhrase(d, phrase) /\ Untruncated(d, phrase) => d \in Found(phrase)

(* todos.md:12 asks for exact phrase matching: every document that has the *)
(* phrase is found, at least when none of its positions was dropped.       *)
PhraseComplete ==
    \A phrase \in Phrases : \A d \in DocIds :
        HasPhrase(d, phrase) /\ Untruncated(d, phrase) => d \in Found(phrase)
==============================================================================
