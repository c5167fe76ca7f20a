----------------------------- MODULE PostingLists -----------------------------
(***************************************************************************)
(* The posting lists of one shard (src/inverted_index.c): a B-tree entry   *)
(* per term names a page of postings, which links to the page it follows.  *)
(*                                                                         *)
(* An index is a record of head, the entries of the B-tree (what the tree  *)
(* promises is KeyIndex; no search misses an insert), pages, the pages of  *)
(* the file, and next_page_id, the page allocated next.  A page holds one  *)
(* of several layouts over the same bytes: code that expects postings in a *)
(* page of another kind reads a posting_count of 0, because the bytes it   *)
(* takes for one are zero there.                                           *)
(***************************************************************************)
EXTENDS Integers, SequencesExt

CONSTANTS MaxPostings,  \* MAX_POSTINGS_PER_PAGE
          MaxPositions, \* MAX_POSITIONS_PER_POSTING
          MaxListed     \* max_possible_postings, the most a search lists

ASSUME MaxPostingsAssumption  == MaxPostings \in Nat \ {0}
ASSUME MaxPositionsAssumption == MaxPositions \in Nat \ {0}
ASSUME MaxListedAssumption    == MaxListed \in Nat \ {0}

NoPage    == -1         \* INVALID_PAGE_ID
FirstFree == 3          \* pages 0, 1 and 2 are the tree, tombstones and documents

ZeroPage == [kind |-> "zero"]
PostingPage(postings, next) == [kind |-> "posting", postings |-> postings, next |-> next]

(* A page fetched for its postings. *)
AsPostings(p) == IF p.kind = "posting" THEN p ELSE PostingPage(<<>>, 0)

NewPosting(doc, loc, pos) == [doc |-> doc, loc |-> loc, positions |-> <<pos>>]

(* inverted_index_add_posting: a new position of the document the page     *)
(* ends with, and lost when there is no room for it; a new posting at the  *)
(* end of the page; or a new page in front of the chain.  Variants that    *)
(* put a position in the place of the last, link the new page to no other, *)
(* fill a page beyond its end, and take any last posting for the document. *)
AddPositionOverLast(postings, pos) ==
    [postings EXCEPT ![Len(postings)].positions =
        IF Len(@) < MaxPositions THEN Append(@, pos) ELSE Append(Front(@), pos)]
AddPositionTo(postings, pos) ==
    [postings EXCEPT ![Len(postings)].positions =
        IF Len(@) < MaxPositions THEN Append(@, pos) ELSE @]

NextOfNewPageUnlinked(head) == NoPage
NextOfNewPage(head) == head

HasRoomLate(postings) == Len(postings) <= MaxPostings
HasRoom(postings)     == Len(postings) < MaxPostings

EndsWithAny(postings, doc) == postings # <<>>
EndsWith(postings, doc) == postings # <<>> /\ Last(postings).doc = doc

AddPosting(ix, term, doc, loc, pos) ==
    LET head   == ix.head[term]
        page   == AsPostings(ix.pages[head])
        onHead(postings) == [ix EXCEPT !.pages[head] = PostingPage(postings, page.next)]
        onNew  == [head  |-> [ix.head EXCEPT ![term] = ix.next_page_id],
                   pages |-> [ix.pages EXCEPT ![ix.next_page_id] =
                                 PostingPage(<<NewPosting(doc, loc, pos)>>, NextOfNewPage(head))],
                   next_page_id |-> ix.next_page_id + 1]
    IN IF head = NoPage THEN onNew
       ELSE IF EndsWith(page.postings, doc) THEN onHead(AddPositionTo(page.postings, pos))
       ELSE IF HasRoom(page.postings)
            THEN onHead(Append(page.postings, NewPosting(doc, loc, pos)))
       ELSE onNew

(* shard_insert_document adds the terms of a document at their positions,  *)
(* and every document to term 0.                                           *)
AllDocs == 0
TermToAdd(text, n) == IF n <= Len(text) THEN [term |-> text[n], pos |-> n - 1]
                      ELSE [term |-> AllDocs, pos |-> 0]

AddPostings(ix, text, doc, loc) ==
    LET after[n \in 0..(Len(text) + 1)] ==
            IF n = 0 THEN ix
            ELSE LET t == TermToAdd(text, n)
                 IN  AddPosting(after[n - 1], t.term, doc, loc, t.pos)
    IN  after[Len(text) + 1]

(* inverted_index_get_postings: the pages of the chain, newest first, each *)
(* in the order its postings came.  The walk ends at a page that has no    *)
(* postings, at one of the first three or not allocated, at a page linked  *)
(* to itself, and with the list full, which takes as many pages at most:   *)
(* of longer cycles it knows nothing.                                      *)
GetPostings(ix, term) ==
    LET allocated == FirstFree..(ix.next_page_id - 1)
        from[n \in 0..MaxListed] == [id \in allocated |->
            LET p == AsPostings(ix.pages[id])
            IN  IF n = 0 \/ p.postings = <<>> THEN <<>>
                ELSE p.postings \o IF p.next = id \/ p.next \notin allocated THEN <<>>
                                   ELSE from[n-1][p.next]]
        all == IF ix.head[term] \in allocated THEN from[MaxListed][ix.head[term]] ELSE <<>>
    IN  SubSeq(all, 1, IF Len(all) < MaxListed THEN Len(all) ELSE MaxListed)

(* The merge of shard_search_phrase_indexed: for each posting of the first *)
(* term the cursor of every other moves on to its document or past it; a   *)
(* term without it ends the round.  Variants compare without moving, and   *)
(* take every later term for the second.                                   *)
MovedStuck(list, cursor, doc) == cursor
Moved(list, cursor, doc) ==
    CHOOSE c \in cursor..(Len(list) + 1) :
        /\ c <= Len(list) => list[c].doc >= doc
        /\ \A b \in cursor..(c - 1) : list[b].doc < doc

PositionsMeetNext(postings) ==
    \E s \in ToSet(postings[1].positions) :
        \A i \in 2..Len(postings) : s + 1 \in ToSet(postings[i].positions)
PositionsMeet(postings) ==
    \E s \in ToSet(postings[1].positions) :
        \A i \in 2..Len(postings) : s + i - 1 \in ToSet(postings[i].positions)

PhraseRound(lists, acc, n) ==
    LET doc == lists[1][n].doc
        at  == [i \in DOMAIN lists |-> IF i = 1 THEN n ELSE Moved(lists[i], acc.cursors[i], doc)]
        has(i) == at[i] <= Len(lists[i]) /\ lists[i][at[i]].doc = doc
    IN  [cursors |-> [i \in DOMAIN lists |->
                        IF \A j \in 2..(i - 1) : has(j) THEN at[i] ELSE acc.cursors[i]],
         found   |-> IF /\ \A i \in DOMAIN lists : has(i)
                        /\ PositionsMeet([i \in DOMAIN lists |-> lists[i][at[i]]])
                     THEN Append(acc.found, lists[1][n]) ELSE acc.found]

(* The postings of the first term a phrase search looks up; a phrase of    *)
(* one term is a search for the term.                                      *)
PhrasePostings(ix, phrase) ==
    LET lists == [i \in DOMAIN phrase |-> GetPostings(ix, phrase[i])]
    IN  IF Len(phrase) = 1 THEN lists[1]
        ELSE IF \E i \in DOMAIN lists : lists[i] = <<>> THEN <<>>
        ELSE LET after[n \in 0..Len(lists[1])] ==
                     IF n = 0 THEN [cursors |-> [i \in DOMAIN lists |-> 1], found |-> <<>>]
                     ELSE PhraseRound(lists, after[n - 1], n)
             IN  after[Len(lists[1])].found
===============================================================================
