-------------------------------- MODULE Lexicon --------------------------------
(***************************************************************************)
(* The lexicon (src/lexicon_map.c): chains of entries in hash buckets give *)
(* every word a term id.  There is one, of the process, for all engines;   *)
(* it is never saved.                                                      *)
(***************************************************************************)
EXTENDS Integers, SequencesExt

CONSTANTS Words,        \* what the tokeniser makes of texts and queries
          TermHash,     \* lexicon_term_hash32 of each word
          NumBuckets,   \* LEXICON_BUCKET_COUNT
          Stored        \* each word cut to LEXICON_MAX_TERM_LEN

ASSUME TermHashAssumption   == TermHash \in [Words -> Nat \ {0}]
ASSUME NumBucketsAssumption == NumBuckets \in Nat \ {0}
ASSUME StoredAssumption     == /\ Stored \in [Words -> Words]
                               /\ \A w \in Words : Stored[Stored[w]] = Stored[w]

(* lexicon_hash *)
Bucket(word) == TermHash[word] % NumBuckets

(* lexicon_init; a lexicon is a sequence of entries for each bucket. *)
EmptyLexicon == [b \in 0..(NumBuckets - 1) |-> <<>>]

(* The place of the first entry for a word in its bucket, or 0. *)
EntryFor(lex, word) == SelectInSeq(lex[Bucket(word)], LAMBDA e : e.term = word)

(* The id a new entry gets; the variant counts, as next_term_id would. *)
NewTermIdCounted(lex, word) ==
    1 + FoldLeft(LAMBDA n, b : n + Len(lex[b - 1]), 0, [b \in 1..NumBuckets |-> b])
NewTermId(lex, word) == TermHash[word]

(* lexicon_insert: the lexicon it leaves and the id it returns.  A new     *)
(* entry goes in front of its bucket and is compared by what it stores.    *)
NewEntry(lex, word) == [term               |-> Stored[word],
                        term_id            |-> NewTermId(lex, word),
                        document_frequency |-> 1]
Inserted(lex, word) ==
    LET at == EntryFor(lex, word)
    IN  IF at > 0 THEN [lex EXCEPT ![Bucket(word)][at].document_frequency = @ + 1]
        ELSE [lex EXCEPT ![Bucket(word)] = <<NewEntry(lex, word)>> \o @]
IdOf(lex, word) ==
    LET at == EntryFor(lex, word)
    IN  IF at > 0 THEN lex[Bucket(word)][at].term_id ELSE NewTermId(lex, word)

(* The tokens of a text inserted one after the other. *)
AllInserted(lex, text) ==
    LET after[n \in 0..Len(text)] ==
            IF n = 0 THEN lex ELSE Inserted(after[n - 1], text[n])
    IN  after[Len(text)]
TermIds(lex, text) ==
    [n \in DOMAIN text |-> IdOf(AllInserted(lex, SubSeq(text, 1, n - 1)), text[n])]
================================================================================
