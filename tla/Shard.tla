-------------------------------- MODULE Shard --------------------------------
(***************************************************************************)
(* One shard (src/unified_shard.c) with its data file, its .meta file      *)
(* (src/shard_meta.c), its tombstones (src/fts_indexer.c) and its posting  *)
(* lists, through inserts, deletions, orderly closing and being killed.    *)
(*                                                                         *)
(* One thread owns a shard, so no two calls overlap, but dirty pages reach *)
(* the file one by one at any time and a kill can come anywhere: an insert *)
(* is a step for the record and one for each posting, and no step changes  *)
(* a page twice.  Of the buffer pool the module uses what PageStore        *)
(* promises, of the B-tree what KeyIndex promises: the root page is a map  *)
(* from terms to posting pages, and of the other leaves it counts that     *)
(* splits take them from next_page_id, their zeros written.  The log is    *)
(* written but not modelled: shard_init does not read it.                  *)
(***************************************************************************)
EXTENDS PostingLists

CONSTANTS Terms,         \* term ids documents have
          Texts,         \* the term sequences of documents
          MaxDocs,       \* bound on the inserts
          MaxPages,      \* bound on the pages of the file
          SlotsPerPage,  \* records that fit in a page
          TombstoneBits, \* TOMBSTONE_BITS_PER_PAGE
          TombstoneRoom, \* the bits between the page header and its end
          LeafEntries,   \* BTREE_MAX_LEAF_ENTRIES
          Saves,         \* whether pages are saved before the shard is closed
          MetaSaves,     \* whether closing may save the .meta file
          MetaFails,     \* whether closing may fail to save it
          Crashes,       \* whether the process may be killed
          WriteFails     \* whether writing the zeros of a new page may fail

ASSUME ShardTermsAssumption == Terms \subseteq Nat \ {AllDocs} /\ Texts \subseteq Seq(Terms)
ASSUME ShardBoundsAssumption == MaxDocs \in Nat /\ MaxPages \in Nat /\ MaxPages > FirstFree
ASSUME SlotsPerPageAssumption == SlotsPerPage \in Nat \ {0}
ASSUME TombstoneAssumption == TombstoneBits \in Nat \ {0} /\ TombstoneRoom \in 0..TombstoneBits
ASSUME LeafEntriesAssumption == LeafEntries \in Nat \ {0}
ASSUME FaultsAssumption == {Saves, MetaSaves, MetaFails, Crashes, WriteFails} \subseteq BOOLEAN

VARIABLES mem,          \* pages as the buffer pool returns them
          disk,         \* pages of the data file
          file_pages,   \* its length
          meta,         \* the .meta file
          shard,        \* counters in memory
          phase,        \* where in its life the shard is
          given,        \* the inserts that placed a record: doc_id and text
          insert,       \* the insert under way: its record, the postings added
          deleted,      \* the documents shard_delete_document returned 0 for
          leaf_full,    \* whether the tree's new entry splits its leaf
          leaves        \* the pages splits of the tree took since a kill

splits == <<leaf_full, leaves>>
vars == <<mem, disk, file_pages, meta, shard, phase, given, insert, deleted, splits>>

Pages      == 0..(MaxPages - 1)
Root       == 0         \* the B-tree
Tombstone  == 1         \* tombstone_page_id
FirstData  == 2
AllTerms   == Terms \cup {AllDocs}

TreePage(head)   == [kind |-> "tree", head |-> head]
TombstonePage(b) == [kind |-> "tombstone", bits |-> b]
LeafPage         == [kind |-> "leaf"]
SlottedPage(kind, slots) == [kind |-> kind, slots |-> slots]
DataPage(slots) == SlottedPage("data", slots)

(* buffer_pool_fetch_page makes a page past the end of the file an empty   *)
(* one of type PAGE_TYPE_ROW.  It has room for a record like a page of     *)
(* records, but no scan looks at it.                                       *)
Slotted(page) == page.kind \in {"data", "row"}
Fetched(p) == IF p >= file_pages /\ mem[p] = ZeroPage THEN SlottedPage("row", <<>>) ELSE mem[p]

NoMeta == [next_page_id |-> 0, next_doc_id |-> 0, total_docs |-> 0]
NoInsert == [loc |-> [page |-> 0, slot |-> 0], added |-> 0]
Fresh  == [next_page_id |-> FirstFree, active_data_page_id |-> FirstData,
           next_doc_id |-> 0, total_docs |-> 0]

Init == /\ disk = [p \in Pages |-> ZeroPage]
        /\ mem = disk
        /\ file_pages = 0
        /\ meta = NoMeta
        /\ shard = Fresh
        /\ phase = "closed"
        /\ given = <<>>
        /\ insert = NoInsert
        /\ deleted = {}
        /\ leaf_full = FALSE
        /\ leaves = {}
-----------------------------------------------------------------------------
(***************************************************************************)
(* shard_init                                                              *)
(***************************************************************************)

(* An empty file gets three pages; btree_init makes the root a leaf. *)
OpenedPages ==
    LET first == IF file_pages > 0 THEN disk
                 ELSE [disk EXCEPT ![Tombstone] = TombstonePage({}),
                                   ![FirstData] = DataPage(<<>>)]
    IN  IF first[Root].kind = "tree" THEN first
        ELSE [first EXCEPT ![Root] = TreePage([t \in AllTerms |-> NoPage])]

(* The counters of the .meta file, whatever the length of the data file;   *)
(* without one the length and zeros.  The variant takes every file for a   *)
(* new one.                                                                *)
CountersOfNewFile == [next_page_id |-> FirstFree, next_doc_id |-> 0, total_docs |-> 0]
CountersFromLength == [next_page_id |-> IF file_pages < FirstFree THEN FirstFree ELSE file_pages,
                       next_doc_id  |-> 0, total_docs |-> 0]
Counters == IF meta # NoMeta THEN meta ELSE CountersFromLength

(* The last page of records before next_page_id, or page 2.  The type of a *)
(* page of postings is read from the low half of its first data_page_id:   *)
(* one that starts with a record on page 7 passes for a page of records.   *)
VectorData == 7         \* PAGE_TYPE_VECTOR_DATA
LooksLikeData(page) == \/ page.kind = "data"
                       \/ page.kind = "posting" /\ page.postings[1].loc.page = VectorData

LastDataPage(pages, next) ==
    LET data == {p \in FirstData..(next - 1) : LooksLikeData(pages[p])}
    IN  IF data = {} THEN FirstData ELSE CHOOSE p \in data : \A q \in data : q <= p

Open == /\ phase = "closed"
        /\ mem' = OpenedPages
        /\ file_pages' = IF file_pages = 0 THEN FirstFree ELSE file_pages
        /\ shard' = [active_data_page_id |-> LastDataPage(OpenedPages, Counters.next_page_id),
                     next_page_id |-> Counters.next_page_id,
                     next_doc_id  |-> Counters.next_doc_id,
                     total_docs   |-> Counters.total_docs]
        /\ phase' = "open"
        /\ UNCHANGED <<disk, meta, given, insert, deleted, splits>>

(* The three pages of a new file are three writes, which may stop short. *)
OpenStops == /\ phase = "closed" /\ file_pages = 0
             /\ Crashes \/ WriteFails
             /\ file_pages' \in 1..(FirstFree - 1)
             /\ UNCHANGED <<mem, disk, meta, shard, phase, given, insert, deleted, splits>>
-----------------------------------------------------------------------------
(***************************************************************************)
(* Inserting and deleting                                                  *)
(***************************************************************************)

(* slotted_page_insert_tuple finds room; the variant never looks.          *)
HasSlotEver(page) == Slotted(page)
HasSlot(page) == Slotted(page) /\ Len(page.slots) < SlotsPerPage

(* The pages after the record of a document is placed in the active page,  *)
(* or in a new one.                                                        *)
Placed(rec) ==
    LET next   == shard.next_page_id
        active == shard.active_data_page_id
        page   == Fetched(active)
        on(at, kind, slots, after) ==
            [at |-> at, slot |-> Len(slots), next |-> after,
             pages |-> [mem EXCEPT ![at] = SlottedPage(kind, slots)]]
    IN  IF HasSlot(page) THEN on(active, page.kind, Append(page.slots, rec), next)
        ELSE on(next, "data", <<rec>>, next + 1)

(* New pages are written as zeros before they are changed in memory. *)
Allocated(next) ==
    LET new == shard.next_page_id..(next - 1)
    IN  /\ disk' = [p \in Pages |-> IF p \in new THEN ZeroPage ELSE disk[p]]
        /\ file_pages' = IF new # {} /\ next > file_pages THEN next ELSE file_pages

(* shard_insert_document up to the loop over the terms. *)
InsertRecord(text) ==
    /\ phase = "open"
    /\ Len(given) < MaxDocs
    /\ shard.next_page_id + Len(text) + 2 <= MaxPages
    /\ LET doc    == shard.next_doc_id
           placed == Placed([node |-> Len(given) + 1, doc |-> doc])
       IN  /\ mem' = placed.pages
           /\ Allocated(placed.next)
           /\ shard' = [next_page_id |-> placed.next, active_data_page_id |-> placed.at,
                        next_doc_id |-> doc + 1, total_docs |-> shard.total_docs + 1]
           /\ given' = Append(given, [doc |-> doc, text |-> text])
           /\ insert' = [loc |-> [page |-> placed.at, slot |-> placed.slot], added |-> 0]
    /\ phase' = "inserting"
    /\ UNCHANGED <<meta, deleted, splits>>

(* The zeros of a new page of records are not written, and the call        *)
(* returns -1; its doc_id is used and the page is the active one.          *)
InsertRefused ==
    /\ WriteFails /\ phase = "open"
    /\ ~HasSlot(Fetched(shard.active_data_page_id))
    /\ shard.next_doc_id < MaxDocs
    /\ shard.next_page_id < MaxPages
    /\ shard' = [shard EXCEPT !.next_page_id = @ + 1,
                             !.active_data_page_id = shard.next_page_id,
                             !.next_doc_id = @ + 1]
    /\ UNCHANGED <<mem, disk, file_pages, meta, phase, given, insert, deleted, splits>>

(* Whether btree_insert may split a leaf for term: it is entered then, and *)
(* with the entries the tree has a leaf can be full.                       *)
Entered(term)       == mem[Root].head[term] = NoPage /\ mem'[Root].head[term] # NoPage
SplitsLeaf(term, to_add) ==
    /\ Entered(term)
    /\ Cardinality({t \in AllTerms : mem[Root].head[t] # NoPage}) >= LeafEntries
    /\ shard'.next_page_id + to_add < MaxPages

(* The rounds of the loop, and after them the posting every document gets, *)
(* with which the call returns 0.                                          *)
(* When the zeros of a posting page are not written the posting is lost,   *)
(* as the result of inverted_index_add_posting is not looked at.  A term   *)
(* new to the tree may find its leaf full; MaxPages bounds how many do.    *)
InsertPosting ==
    /\ phase = "inserting"
    /\ LET rec == Last(given)
           t   == TermToAdd(rec.text, insert.added + 1)
           ix  == AddPosting([head |-> mem[Root].head, pages |-> mem,
                              next_page_id |-> shard.next_page_id],
                             t.term, rec.doc, insert.loc, t.pos)
       IN  /\ \/ /\ mem' = [ix.pages EXCEPT ![Root] = TreePage(ix.head)]
                 /\ Allocated(ix.next_page_id)
              \/ /\ WriteFails /\ ix.next_page_id > shard.next_page_id
                 /\ UNCHANGED <<mem, disk, file_pages>>
           /\ shard' = [shard EXCEPT !.next_page_id = ix.next_page_id]
           /\ leaf_full' \in {FALSE, SplitsLeaf(t.term, Len(rec.text) - insert.added)}
           /\ IF insert.added < Len(rec.text)
              THEN insert' = [insert EXCEPT !.added = @ + 1] /\ phase' = phase
              ELSE insert' = NoInsert /\ phase' = "open"
    /\ UNCHANGED <<meta, given, deleted, leaves>>

(* split_leaf_node, before anything else happens; its zeros are written.   *)
SplitLeaf ==
    /\ leaf_full
    /\ mem' = [mem EXCEPT ![shard.next_page_id] = LeafPage]
    /\ Allocated(shard.next_page_id + 1)
    /\ shard' = [shard EXCEPT !.next_page_id = @ + 1]
    /\ leaves' = leaves \cup {shard.next_page_id}
    /\ leaf_full' = FALSE
    /\ UNCHANGED <<meta, phase, given, insert, deleted>>

(* The bit of a document; one past the end of the page is not stored.  The *)
(* variant sets the bits of a byte instead of adding to them.              *)
Bits(pages) == IF pages[Tombstone].kind = "tombstone" THEN pages[Tombstone].bits ELSE {}
Bit(doc)    == doc % TombstoneBits

MarkedOnly(bits, doc) == {Bit(doc)}
Marked(bits, doc) == IF Bit(doc) < TombstoneRoom THEN bits \cup {Bit(doc)} ELSE bits

IsDeleted(doc) == Bit(doc) \in Bits(mem)

Delete(node) ==
    /\ phase = "open"
    /\ node \in DOMAIN given \ deleted
    /\ mem' = [mem EXCEPT ![Tombstone] = TombstonePage(Marked(Bits(mem), given[node].doc))]
    /\ deleted' = deleted \cup {node}
    /\ UNCHANGED <<disk, file_pages, meta, shard, phase, given, insert, splits>>
-----------------------------------------------------------------------------
(***************************************************************************)
(* Pages, closing and the end of the process                               *)
(***************************************************************************)

Save(p) == /\ Saves /\ phase # "closed"
           /\ disk[p] # mem[p]
           /\ disk' = [disk EXCEPT ![p] = mem[p]]
           /\ file_pages' = IF p < file_pages THEN file_pages ELSE p + 1
           /\ UNCHANGED <<mem, meta, shard, phase, given, insert, deleted, splits>>

(* shard_close_with_path: O_TRUNC empties the .meta file, one write fills  *)
(* it, and the dirty pages follow.  Variants save the page, or the doc_id, *)
(* given last for the one to give next.                                    *)
CloseTruncates == /\ MetaSaves \/ MetaFails
                  /\ phase = "open"
                  /\ meta' = NoMeta
                  /\ phase' = "truncated"
                  /\ UNCHANGED <<mem, disk, file_pages, shard, given, insert, deleted, splits>>

SavedCountersLastPage == [next_page_id |-> shard.next_page_id - 1,
                          next_doc_id  |-> shard.next_doc_id,
                          total_docs   |-> shard.total_docs]
SavedCountersLastDoc  == [next_page_id |-> shard.next_page_id,
                          next_doc_id  |-> shard.next_doc_id - 1,
                          total_docs   |-> shard.total_docs]
SavedCounters == [next_page_id |-> shard.next_page_id,
                  next_doc_id  |-> shard.next_doc_id,
                  total_docs   |-> shard.total_docs]

CloseDescribes == /\ MetaSaves
                  /\ phase = "truncated"
                  /\ meta' = SavedCounters
                  /\ phase' = "described"
                  /\ UNCHANGED <<mem, disk, file_pages, shard, given, insert, deleted, splits>>

(* The open that truncates fails, or the write: closing goes on. *)
CloseFailsToDescribe == /\ MetaFails
                        /\ phase \in {"open", "truncated"}
                        /\ phase' = "described"
                        /\ UNCHANGED <<mem, disk, file_pages, meta, shard, given, insert, deleted, splits>>

CloseFlushes == /\ phase = "described"
                /\ disk' = mem
                /\ file_pages' = Max({file_pages} \cup {p + 1 : p \in {q \in Pages : disk[q] # mem[q]}})
                /\ phase' = "closed"
                /\ UNCHANGED <<mem, meta, shard, given, insert, deleted, splits>>

Crash == /\ Crashes /\ phase # "closed"
         /\ mem' = disk
         /\ shard' = Fresh
         /\ phase' = "closed"
         /\ insert' = NoInsert
         /\ leaves' = {}
         /\ UNCHANGED <<disk, file_pages, meta, given, deleted, leaf_full>>

Step == \/ Open
        \/ OpenStops
        \/ \E text \in Texts : InsertRecord(text)
        \/ InsertRefused
        \/ InsertPosting
        \/ \E node \in 1..MaxDocs : Delete(node)
        \/ \E p \in Pages : Save(p)
        \/ CloseTruncates
        \/ CloseDescribes
        \/ CloseFailsToDescribe
        \/ CloseFlushes
        \/ Crash

Next == SplitLeaf \/ (~leaf_full /\ Step)

Spec == Init /\ [][Next]_vars
-----------------------------------------------------------------------------
(***************************************************************************)
(* Searching                                                               *)
(***************************************************************************)

HasRecord(loc) == Slotted(mem[loc.page]) /\ loc.slot \in DOMAIN mem[loc.page].slots
RecordAt(loc)  == mem[loc.page].slots[loc.slot]

(* shard_search_bm25f_indexed, for documents that score: each posting is   *)
(* followed to the record it names, which may be deleted.  The results are *)
(* sorted by score, so what matters is which postings lead to one.         *)
Index == [head |-> IF mem[Root].kind = "tree" THEN mem[Root].head ELSE [t \in AllTerms |-> NoPage],
          pages |-> mem, next_page_id |-> shard.next_page_id]

Search(t) ==
    LET postings == GetPostings(Index, t)
        found == {i \in DOMAIN postings :
                     /\ HasRecord(postings[i].loc)
                     /\ ~IsDeleted(RecordAt(postings[i].loc).doc)}
    IN  [i \in found |-> RecordAt(postings[i].loc)]

NodesOf(records) == {records[i].node : i \in DOMAIN records}
Listed(t) == NodesOf(Search(t))

(* shard_search_bm25f and shard_search_vector: the records of the pages up *)
(* to and including next_page_id.                                          *)
Scan == UNION {{r.node : r \in {r \in ToSet(mem[p].slots) : ~IsDeleted(r.doc)}} :
                  p \in {q \in FirstData..shard.next_page_id : q \in Pages /\ mem[q].kind = "data"}}
-----------------------------------------------------------------------------
(***************************************************************************)
(* Properties                                                              *)
(***************************************************************************)

Locations == [page : Pages, slot : Nat \ {0}]

PageOk(p) ==
    \/ p \in {ZeroPage, LeafPage}
    \/ p.kind = "tree" /\ p.head \in [AllTerms -> Pages \cup {NoPage}]
    \/ p.kind = "tombstone" /\ p.bits \in SUBSET (0..(TombstoneRoom - 1))
    \/ Slotted(p) /\ Len(p.slots) \in 0..SlotsPerPage
    \/ /\ p.kind = "posting"
       /\ Len(p.postings) \in 1..MaxPostings
       /\ p.next \in Pages \cup {NoPage}
       /\ \A i \in DOMAIN p.postings : p.postings[i].loc \in Locations

(* Every variable stays in its domain. *)
TypeOK ==
    /\ \A p \in Pages : PageOk(mem[p]) /\ PageOk(disk[p])
    /\ file_pages \in 0..MaxPages
    /\ meta \in [next_page_id : 0..MaxPages, next_doc_id : Nat, total_docs : 0..MaxDocs]
    /\ shard \in [next_page_id : FirstFree..MaxPages, active_data_page_id : Pages,
                   next_doc_id : Nat, total_docs : 0..MaxDocs]
    /\ phase \in {"closed", "open", "inserting", "truncated", "described"}
    /\ insert.added \in Nat
    /\ deleted \subseteq DOMAIN given
    /\ leaf_full \in BOOLEAN
    /\ leaves \subseteq Pages

Has(node, t) == t = AllDocs \/ t \in ToSet(given[node].text)
Store == INSTANCE DocStore WITH
    Nodes <- 1..MaxDocs, Terms <- AllTerms,
    TermsOf <- LAMBDA text : ToSet(text) \cup {AllDocs},
    listed <- [t \in AllTerms |-> Listed(t) \ IF phase = "inserting" THEN {Len(given)} ELSE {}]

(* A shard that is not killed implements the document store: what a search *)
(* lists is what was inserted and not deleted, under each of its terms,    *)
(* through overflowing pages, and through closing and opening.  The steps  *)
(* of an insert disturb no other document; its own counts when the call    *)
(* returns.                                                                *)
ImplementsDocStore == Store!Spec

(* A search through the index lists the documents a scan of the records    *)
(* finds, each once: "the fast replacement" of inverted_index.h:52.        *)
IndexAgreesWithScan ==
    phase = "open" => /\ Listed(AllDocs) = Scan
                      /\ \A t \in AllTerms : \A i, j \in DOMAIN Search(t) :
                            Search(t)[i].node = Search(t)[j].node => i = j

(* A page has one use: allocations by the documents, the posting lists and *)
(* the tree, which share next_page_id, never take a page in use, at no     *)
(* point of an insert.                                                     *)
Chain(t) ==
    LET on[n \in 0..MaxPages] ==
          IF n = 0 THEN {Index.head[t]} \ {NoPage}
          ELSE LET so_far == on[n-1]
               IN  so_far \cup ({AsPostings(mem[p]).next : p \in so_far} \ {NoPage})
    IN  on[MaxPages]

PagesHaveOneUse ==
    phase \in {"open", "inserting"} =>
        /\ \A t \in AllTerms : \A p \in Chain(t) :
              mem[p].kind = "posting" /\ p \in FirstFree..(shard.next_page_id - 1)
        /\ \A s, t \in AllTerms : s # t => Chain(s) \cap Chain(t) = {}
        /\ \A p \in leaves : mem[p].kind = "leaf" /\ p \in FirstFree..(shard.next_page_id - 1)

(* No two documents have one doc_id, across closing and opening: deleting  *)
(* one would delete the other.                                             *)
DocIdsUnique == \A m, n \in DOMAIN given : given[m].doc = given[n].doc => m = n

(* A deletion in the file is never undone, whatever is killed and however  *)
(* old the counters are that the shard is opened with.                     *)
SavedDeletionsStay == [][Bits(disk) \subseteq Bits(disk')]_vars

RecordsOn(pages) == UNION {NodesOf(pages[p].slots) : p \in {q \in Pages : Slotted(pages[q])}}

(* A record in the file is never lost again ... *)
SavedRecordsStay == [][RecordsOn(disk) \subseteq RecordsOn(disk')]_vars
=============================================================================
