# Verification of c_fts_uring

TLA+ models of the storage engine under `src/`, checked with TLC on small
instances, and theorems about them checked with TLAPS for every value of the
constants. Paths below are relative to the repository; `src/buffer_pool.c` is
`src/src/buffer_pool.c` in `PROJECT.json`.

## The system

An *engine* is a set of *shards*. A shard is one data file of 4 KB pages, one
write-ahead log, one `.meta` file and one buffer pool. In the data file, page 0
is the root of a B-tree from term ids to posting pages, page 1 the tombstone
bitset, page 2 the first page of records; everything else is allocated from the
counter `next_page_id`. One thread at a time is meant to use a shard. SQLite
reaches the engine through a virtual table, and a query is scattered over the
shards on the libuv thread pool and gathered by the caller.

| Component | State | Operations | Talks to |
|---|---|---|---|
| Buffer pool (`buffer_pool.c`) | frames (page id, pin count, dirty bit, contents), clock hand | fetch, unpin with a hint, flush of a page, flush of all in batches | page I/O, log |
| Page I/O (`fts_vfs.c`) | a ring or a file descriptor | read, write, batch of writes | kernel |
| Log (`wal.c`) | file, current LSN | open, append, flush, close, replay | kernel |
| B-tree (`btree.c`) | leaves chained by `next_leaf_id` | search, insert with leaf splits, update | pool, log |
| Inverted index (`inverted_index.c`) | chains of posting pages, one chain per term | add a posting, list a term, phrase merge, scored searches | B-tree, pool |
| Slotted pages (`slotted_page.c`) | slots and tuples of one page | initialise, insert, get, checksum | |
| Tombstones, length map (`fts_indexer.c`) | bits of a page; quantised lengths | mark, test; set, get | |
| Meta file (`shard_meta.c`) | the counters of the last orderly close | load, save | kernel |
| Shard (`unified_shard.c`) | counters, active record page | open, insert, delete, search by index or scan, close | all of the above |
| Engine (`unified_shard.c`) | shards, global statistics, document map | insert (routed), synchronous hybrid search | shards |
| Asynchronous search (`async_search.c`) | per-query context, pending count | scatter, gather, fuse | shards, libuv |
| Virtual table (`vtab_bridge.c`) | registry of open engines with reference counts, cursors, the engine of the Python binding | connect, filter, next, disconnect, insert | engine, async search |
| Lexicon (`lexicon_map.c`, `lexicon.c`) | term hash table, document frequencies, one for the process | get or insert, look up | virtual table |
| Tabular demonstration (`catalog.c`, `tabular_worker.c`) | ranges per shard, partial aggregates | prune, aggregate | libuv |
| Shared memory (`shm_manager.c`) | a mapping | create, open, close | kernel |

### What is hard, and what makes each part correct

* **Buffer pool.** Frames are found by a linear search by page id, also on
  unpin, so a page in two frames or a pinned frame that is reused would send an
  unpin to the wrong frame. Pages reach the file on eviction, on flush, and in
  batches whose writes succeed or fail one by one. Correct means: a page is in
  one frame at most, a pin keeps its frame, pin counts are exact, no page is
  written before the log record of its last change is durable, a frame called
  clean has nothing to lose, and to its callers the pool is an array of pages.
* **Log.** A record is two writes, the barrier is `fdatasync`, and the LSN
  after opening is the size of the file. Correct means: LSNs never go back
  whatever is cut off, an acknowledged LSN belongs to one record, and replay
  returns what precedes any damage.
* **B-tree.** An insert walks the chain of leaves and may split one; every page
  is fetched anew, so evictions, failed reads and the process being killed come
  in between. Correct means: the chain stays ascending, no leaf overflows its
  array, the chain is a map, and calls return.
* **Inverted index.** A term that repeats, a page that is full and a position
  that does not fit interact; phrase search merges lists whose order changes
  when a page overflows. Correct means: a term search is exact, and a phrase
  search returns no document without the phrase and all that have it.
* **Shard.** Three allocators share one counter; the counters survive in a file
  that is truncated, then written, then followed by the dirty pages; pages are
  saved one by one at any time. Correct means: the shard is a set of live
  documents, index and scan agree, and what has reached the file stays.
* **Asynchronous search.** Work items run on the threads of the pool in any
  order, on memory of the caller's stack and on shards without locks, and what
  the shards found is ranked a second time. Correct means: nothing is running or
  unreported when the search goes on, every search returns, and the answer is
  the one the synchronous search gives, or the one the words of the query ask
  for.
* **Virtual table.** Tables share engines by counting, the registry has 64
  entries, and inserts of the Python binding go to an engine no table names.
  Correct means: an engine is closed when its last table goes and not before,
  nothing uses one that is closed, and a directory is open once.
* **Lexicon.** It is not saved, chains entries by hash, and queries insert into
  it. Correct means: a word has one id in every process and in any order of
  words.

## The modules

| Module | Models | Uses |
|---|---|---|
| `PageStore` | what the pool promises: an array of pages | |
| `BufferPool` | `buffer_pool.c`, the results of `fts_vfs.c` and of `wal_flush` | implements `PageStore` |
| `WriteAheadLog` | `wal.c` | |
| `KeyIndex` | what the B-tree promises: a map, an answer to every search | |
| `BTree` | `btree.c` | implements `KeyIndex`; assumes `PageStore` |
| `PostingLists` | `inverted_index.c`, as operators on an index | assumes `KeyIndex` |
| `Lexicon` | `lexicon_map.c`, as operators on a lexicon | |
| `InvertedIndex` | words of documents looked up and added to one index, queries, restarts; term and phrase searches | `PostingLists`, `Lexicon` |
| `DocStore` | what a shard promises: live documents, each under its terms | |
| `Shard` | `unified_shard.c` (shard part), `shard_meta.c`, tombstones, room in slotted pages | `PostingLists`; implements `DocStore`; assumes `PageStore` |
| `Fusion` | what a query computes: `engine_search`, `shard_search_work_cb`, gathering, as operators | |
| `AsyncSearch` | `engine_search_async`: caller, work items, threads, callbacks | `Fusion` |
| `VtabBridge` | `vtab_bridge.c`: registry, tables, cursors; a program without SQLite as the other host | `AsyncSearch` |
| `BufferPoolProofs`, `InvertedIndexProofs`, `WriteAheadLogProofs`, `BTreeProofs`, `PostingListsProofs`, `ShardProofs`, `VtabBridgeProofs` | theorems and lemmas | the modules they name |
| `LeastElement` | least and greatest elements of sets of naturals, functions defined along them | |
| `MC*` | small instances | the modules they name |

Layers are composed by contract. A module that needs pages uses two arrays,
`mem` and `disk`, which is what `PageStore` says of the pool: a fetch returns
the last contents, and a crash takes every page back to contents it had when it
was saved. `BufferPool` is proved to implement that. `Shard` and
`InvertedIndex` use a map for the B-tree, which `BTree` is proved to implement.
Above them `VtabBridge` composes the registry, the search and its threads in one
state space; what the shards hold is there a parameter of each search, because a
search reads its shards and changes nothing in them.

### BufferPool

`frames`, `clock_hand` are the fields of `BufferPoolManager`. `pins` are the
`Frame` pointers the owner thread holds, each with the page it fetched. A page's
contents is the number of its last change; `logged` and `synced` say which
changes have a log record and which of those are durable. `FetchHit`,
`FetchMiss` (victim, write-back and read), `Unpin`, `FlushPage`, `FlushAll` and
`Modify` are the calls; `Crash` empties the pool. A failed or short read gives
an empty page (`Blank`), a short write tears the page (`Torn`) and counts as
written, as in the code. `faults` says which system calls may fail; it is chosen
once in `Init` from `FaultSets`, so one run has a machine without faults and
machines with them, and a property can be about one of these (`WalBeforeData`
only where `fdatasync` works). `ImplementsPageStore` is about all of them:
`PageStore!Unread` and `PageStore!Replace` are what a failure may cost, which is
the page evicted and the page fetched and no other. The result of `wal_flush`
and of writing a victim is ignored in `FetchMiss`, as at `buffer_pool.c:49` and
`:76`. A fetch that finds no victim returns NULL and changes nothing, so it is no step.

### WriteAheadLog

`file` is a sequence of cells; each cell knows the record and the part of it it
belongs to, so reading a header in the middle of a record is distinguished from
reading one. `AppendRecord` is the call that returns an LSN, `AppendFails` the
one that returns 0 and leaves a prefix of the record behind. `Reopen`, `Kill` and
`PowerLoss` open the file again; a power loss cuts it anywhere behind the last
barrier. `Replay` is `wal_replay_recovery`: bytes that are no header are taken
for one, and what follows is undetermined (`Garbage`).

### BTree

One fetch of a page is one step. `op` is the call in progress: its kind, key,
value and the page it fetches next. `CallAdd` is `inverted_index_add_posting`,
which first looks for the term; `FindReturns` goes on with an update of what was
found or an insert of what was not, as the code does, also when the key is in the
tree on a page that could not be read: it is then in the tree twice. `InsertWalk`,
`InsertSplit`, `InsertPlace` and `InsertRefused` are the branches of `btree_insert`
with `split_leaf_node` inlined; `WalkOn`, `SearchReturns` and `UpdateReturns` are
search and update. `Save` writes any dirty page at any time. Under the `"read"`
fault a page whose frame was clean may come back blank, under `"write"` the zeros
of a new leaf may not be written, which the code does not notice.

`Crash` is the process being killed, or the shard being closed, and opened again.
It takes pages back to what the file has. `next_page_id` becomes that of the `.meta`
file, which may be one of any earlier close, or without one the length of the file
(`file_pages`), so a split may take a page that is in the chain, and even the page
it splits (`SelfLinked`). A root that is no leaf, or that cannot be read, becomes an
empty leaf. Internal nodes are searched for by the code but never built, so none
exist.

### PostingLists, Lexicon and InvertedIndex

`AddPosting` is `inverted_index_add_posting`; `AddPostings` the loop over the
terms in `shard_insert_document`, and term 0, which every document gets.
`GetPostings` walks the chain the way the code does, including where it stops on
pages that are not postings; the list from a page on is a function of the steps
left, `MaxListed` at the start, so a circle ends too. `PhrasePostings` is the merge of
`shard_search_phrase_indexed`, with its cursors.

A lexicon is a sequence of entries for each bucket; `Inserted` and `IdOf` are
what `lexicon_insert` leaves and returns. Words are model values with a hash
(`TermHash`), so two words may share one, and with what `lexicon_insert` stores of
them (`Stored`), so that a word may be too long and be cut to another.
`AddDocument` is the insert of a document's words and postings, `Query` what
`ftsFilter` leaves in the lexicon, `Restart` a new process over the same files.
Searches change nothing else, so they are operators that the properties compare
with the texts added.

### Shard

One thread owns a shard, so no two calls overlap, but dirty pages reach the file
at any time and a kill can come anywhere. An insert is therefore a step for the
record (`InsertRecord`) and one for each posting (`InsertPosting`), with `insert`
saying how far it has come; no step changes a page twice, so a save or a kill
inside a step leaves nothing that one between steps does not. `Open` is
`shard_init` with its choice of counters and its scan for the last record page,
which a posting page can pass for (`LooksLikeData`); `OpenStops` is an opening of an
empty file that ends after the first or second of its three writes. New pages are written as
zeros (`Allocated`), and where `WriteFails` that write may fail: `InsertRefused` is
the call that then returns -1, having used its doc_id and moved the active page
past the end of the file, where the next record finds a page of type
`PAGE_TYPE_ROW` (`Fetched`); the second disjunct of `InsertPosting` is the posting
that is lost while the call returns 0.

The B-tree is the map from terms to heads that `KeyIndex` promises, kept as page 0.
Its leaves matter to the shard because splits take them from `next_page_id`: when a
term is new and there are `LeafEntries` terms or more, the leaf it goes to may be full
(`leaf_full`), and `SplitLeaf` then takes a page before anything else happens. `leaves`
are the pages taken so since the last kill. How many terms a split leaves in
each leaf is `BTree`'s affair; here a full leaf is possible, never certain, and
`MaxPages` bounds how often.

Closing is three actions in the order of `shard_close_with_path`: `CloseTruncates`,
`CloseDescribes`, `CloseFlushes`. `CloseFailsToDescribe` is the open or the write of
`shard_meta_save` that fails: the old file stays, or one cut short, and closing
goes on, as the result is ignored (`unified_shard.c:99`). An `fdatasync` that fails
comes after a write that counts, so it is a save like any other. A page that
cannot be written at closing is lost as in a kill between `described` and `closed`.
`Search` follows postings to records and filters deleted ones; `Scan` is the scan
of the scored searches. To `DocStore` a document exists when its insert returns.

### Fusion, AsyncSearch and VtabBridge

A document is its terms and two scores, one that stands for BM25F and one for
the similarity; documents of equal scores keep their order. `ShardHits` is
`shard_search_work_cb` with its text, word, phrase, vector and hybrid branches,
`Gather` the second half of `engine_search_async`, `EngineSearch` the synchronous
`engine_search`.

In `AsyncSearch`, `phase` is where the caller is in `engine_search_async`, `work`
what has become of the work item of each shard and `completed` the field of the
context on its stack. `Queue` hands one item to the pool, `WorkStarts` and
`WorkEnds` are a thread's, `CallsBack` is `shard_search_done_cb` in the caller's
thread, `LoopReturns` the end of `uv_run`, `SearchReturns` gathering. A thread may
run the first item while the caller queues the second, and a report may come
before the caller waits.

In `VtabBridge`, `entries` is `g_active_engines`; `base_path` says which addresses
hold an open engine and for which directory, `engine_of` which engine a table has,
`g_engine` where inserts of the Python binding go. `ConnectShared` and
`ConnectOpens` are the branches of `ftsConnect`, `DisconnectTracked` and
`DisconnectUntracked` those of `ftsDisconnect`, the second for an engine that found
no free entry. Memory is reused: an engine may be opened at the address of one
that was closed.

## The runs

| Run | Question | Bounds |
|---|---|---|
| `BufferPool_structure` | On a machine without faults, one whose log cannot be synced and one whose page I/O fails or stops short: one frame per page, pins keep their frames, pin counts exact, log before data, clean frames have nothing to lose, and the pool implements `PageStore` | 3 pages, 2 frames, 2 pins, 2 changes |
| `WriteAheadLog_lsn` | LSNs ascending, acknowledged once and naming their record; replay up to damage; exact replay of an undamaged log; under every fault | header of 2 cells, payloads of 0 or 1, 4 appends |
| `WriteAheadLog_torn` | *Violated:* durable records are replayed | 3 appends, power loss only |
| `BTree_index` | `KeyIndex` is implemented, calls return | 4 keys, 2 values, 4 pages of 2 entries |
| `BTree_faults` | No leaf overflows, no page out of order, with kills, failed reads and writes, and page counters set back | 2 keys, 1 value, 3 pages of 2 entries |
| `BTree_crash` | *Violated:* calls return, with kills | 3 keys, 4 pages |
| `InvertedIndex_postings` | Term searches exact, positions the first ones, words find their documents, phrases sound, and complete while lists ascend | 3 documents of up to 3 of 4 words, two with one hash and one cut to another; one query or restart; 2 postings a page, 2 positions a posting |
| `InvertedIndex_phrase` | *Violated:* phrase searches complete | 3 documents of up to 3 of 2 words |
| `Shard_store` | `DocStore` is implemented; index and scan agree; pages and doc_ids have one use; with closing and opening | 3 documents, 2 terms, 2 postings and 2 records a page, 13 pages, splits from the second entry of the tree on |
| `Shard_killed` | Deletions and records in the file stay, killed at any point of any call, closed without saving `.meta`, and with failing extensions of the file | 2 documents of one word, 1 record a page, 9 pages |
| `Shard_reuse` | *Violated:* records in the file stay, with closing as well as kills | 3 documents, 1 record a page |
| `VtabBridge_search` | Counts exact, no closed engine in use, a directory open once, no work item outlives its search, every search ends; answers agree with `engine_search` and with the query | 3 tables, directories and engines, 2 entries of the registry; 3 shards, 2 threads, 2 hits a shard, 7 queries on 7 collections of documents |

The bounds are the smallest at which the cases that matter occur. Two frames and
three pages force eviction with one frame pinned, and the hand to wrap; two pins
give nested pins on one page and pins on two. Two cells of header and payloads
of zero and one cell give records that can be cut in the header, at its end and
in the payload, and four appends put whole records on both sides of the damage.
Leaves of two entries split on the third key; four keys split a leaf that
already has a right neighbour. Posting pages of two entries overflow on the
third document, positions on the third occurrence. In `BTree_faults` two keys fill
a leaf and the next insert, of a key that is there already but was not found, splits
it; three pages give a split that takes a page of the chain and one that takes
its own. Three documents over pages of two records change the active page, two over
pages of one as well; 9
pages leave room for pages lost to failed extensions beside those of records,
postings and splits, and 13 for a posting to name page 7, which
`unified_shard.c:79` takes for a page type. Two entries for three directories give a
full registry and an engine without an entry; three shards on two threads give an item that waits
for a thread while another has been reported; shards of more than two documents
are cut. `MaxListed` is larger than any list that
can arise from undamaged chains. `MaxWrites`, `MaxAppends`, `MaxDocs` and
`MaxPages` only bound the calls made; `InvertedIndex` ends when `MaxDocs` is
reached, which is why its runs do not check for deadlock. `MaxCalls` bounds queries
and restarts, which differ only in what they leave in the lexicon. The answers in
`VtabBridge_search` are functions of the query and the documents, which TLC
computes once each, so the 49 searches cost little beside the interleavings.
Pins are symmetric in `BufferPool_structure`: no action and no property of that
run tells one from another. The refinement among them, `ImplementsPageStore`, is
a safety property of pages, whose mapping has no pins in it. Symmetry is not used
where liveness is checked.

In `BTree_index` no fault is possible, so what the file holds is never read and
`Save` is switched off there; `BTree_faults` has it. `TombstoneRoom` equals
`TombstoneBits` in the runs of `Shard`: see the deviations below.

### Fairness

* `WF_vars(Step)` in `BTree`: the owner thread, once in a call, goes on executing
  it. The code has no lock or wait inside these calls, so a runnable thread is
  all it takes. `CallsReturn` holds with it while nothing fails; `BTree_crash`
  shows a call that takes steps for ever, so no stronger scheduling would end it.
* `WF_vars(SearchSteps)` and `WF_vars(PoolSteps(s))` in `VtabBridge`: the caller goes
  on queueing and running its loop, and the threads of libuv take and finish
  work, which blocks on nothing. Gathering, after the loop, is a computation of
  the caller that ends; `EverySearchEnds` is about reaching it.

No fairness is assumed of saves, of calls being made, of faults or of crashes.

## What the violated runs show

* `WriteAheadLog_torn`: `wal_init` appends behind a torn tail. Replay takes the
  bytes of the following record for the rest of the torn one, and a record that
  was acknowledged and then synced is not delivered.
* `BTree_crash`: the two pages of a split are saved separately. With the left
  one saved and the right one still zeros, a later insert walks into the zero
  page, reads `next_leaf_id` 0, and goes round from the root for ever: only the
  type of the root is checked.
* `InvertedIndex_phrase`: a full posting page gets its successor in front, so a
  list is newest page first; the merge moves cursors only to larger ids and
  passes documents in older pages.
* `Shard_reuse`: the counters of an old `.meta` file override the length of the
  data file, so pages allocated after the last orderly close are allocated and
  zeroed again.

### Other deviations the models contain

They are in the actions, and the properties are stated around them; each is a
hazard in `PROJECT.json`.

* `buffer_pool.c:49`: the result of `wal_flush` is ignored, so `WalBeforeData`
  holds only while `fdatasync` works, and is stated so.
* `buffer_pool.c:76`: a victim whose write failed is replaced all the same. Its
  change is gone; `PageStore!Replace` is the step that says so.
* `buffer_pool.c:112`: a page that cannot be read is an empty page, not an
  error.
* `btree.c:117`: the pages of a split reach the file in any order, and the log
  record of a split does not hold the entries.
* `wal.c:41`: a failed append leaves its bytes in the log, with an LSN the next
  record gets too. `LsnNamesRecord` is therefore about acknowledged records.
* `unified_shard.c:24`: the log is opened and never replayed, so documents that
  were acknowledged and not saved are gone after a kill. Only what reached the
  file can be promised (`SavedRecordsStay`, `SavedDeletionsStay`).
* `btree.c:14`: a root that cannot be read when the shard is opened is made an empty
  leaf, and the index is empty from then on. `inverted_index.c:21`: a term on a page
  that cannot be read is not found and inserted again. `EntriesAscend` therefore
  allows a key twice, and `ImplementsIndex` is about a tree without faults.
* `shard_meta.c:69`: an older `.meta` file sets the page counter back under the tree
  too, and a split then empties a page of the chain. Nothing overflows
  (`NoLeafOverflows`), but terms are lost.
* `unified_shard.c:99`: when the `.meta` file cannot be saved the shard is closed all
  the same. The next opening starts ids at 0 or takes older counters, without any
  kill; `DocIdsUnique`, `PagesHaveOneUse`, `IndexAgreesWithScan` and `ImplementsDocStore`
  are about files that can be saved (`~MetaFails`).
* `unified_shard.c:62`: after a kill without a `.meta` file, ids start at 0
  again; deleting one document then filters another with the same id.
* `inverted_index.c:163`: a posting is followed without comparing the doc_id of
  the record, so after a kill a search can list a document under a term it does
  not have.
* `fts_indexer.c:41`, `:44`: a shard has one tombstone page of 32768 bits behind
  the page header. Deleting document n filters n + 32768, and the bits of
  documents 32576 to 32767 lie past the page and are not stored. The model has
  both (`Bit`, `Marked`); the runs stay below, as nothing says what a shard with
  more documents is to do.
* `unified_shard.c:168`: when the zeros of a new page are not written the counter
  and the active page have moved on. The next record goes to a `PAGE_TYPE_ROW`
  page, which the index finds and no scan looks at; a posting whose page fails
  (`inverted_index.c:49`, `:77`) is lost and the insert returns 0. `IndexAgreesWithScan`
  and `ImplementsDocStore` are therefore checked with a file that can grow.
* `async_search.h:46` calls the asynchronous search the replacement of
  `engine_search`. Without terms, by text or by vector, it answers alike
  (`AnswersLikeEngineSearch`). A hybrid query keeps the cosine ranks of the single
  shards, lists a document found both ways as a text hit only, and drops a
  document that scores nothing, so the order differs and `HybridFindsTheSame`
  compares the sets. `engine_search` ignores the terms of a query; the fused score
  of a plain text query is the BM25F score in one and 0 in the other.
* `async_search.c:107`: the lists of the words of a query share 64 places; when
  they are taken, hits of later words are dropped whatever they score.
  `WordsFindDocuments` is about queries that do not fill them.
* `vtab_bridge.c:110`: the result of `engine_init` is not looked at. Shards that
  could not be opened would be searched all the same; engines always open here.
* `vtab_bridge.c:93`, `unified_shard.c:114`: the directory of an engine is cut to
  255 bytes and compared with one of up to 511, so a longer one never matches and
  its files are opened twice. Directories are model values, as if shorter.
* `vtab_bridge.c:112`: an engine beyond the 64th is opened without an entry. A
  second connection to its directory opens the files again (`OneEnginePerPath` is
  about engines with an entry), and its disconnection leaves inserts without an
  engine although tables remain. When only such tables remain the loop is shut
  down, and made again by the next search.
* Inserts of the Python binding go to the table connected last (`g_engine`),
  whichever table they name.
* `lexicon.h:14`: `document_frequency` counts occurrences, and queries, not
  documents; nothing reads it.
* `lexicon_map.c:67`: a word of more than 255 bytes is stored cut off and never
  found again, and hides the word it is cut to where both share a bucket.
  `WordsFindTheirDocuments` leaves these words out.

## What is proved

For every value of the constants; the assumptions are the named `ASSUME`s beside
them (a pool has a frame, pages are naturals, pins are finite, a header is not
empty, a leaf has room for two entries, keys are integers, tables are finite, an
engine's address is not 0, a directory is not called "none", there is a shard
and a thread, a page has room for a record, a posting for a position).

**`BufferPoolProofs`.** `InductiveInvariant`, `TypeCorrect`, `NoPageCachedTwice`
and `PinsAreSafe`. The argument goes in a circle that only the conjunction
closes (`IInv`): an evicted frame must have no pins, which its `pin_count` of 0
says only if counts are exact; a count stays exact on unpin only if the frame
found by page id is the pinned one; which needs pinned frames to keep their page
and pages to be in one frame; which needs evicted frames to have no pins.
`PinNamesPage` adds that a pin in use names a page, so an empty frame has none.
`WalRule` proves `WalBeforeData` under `"fsync" \notin Faults` from `WInv`, which
adds that changes are numbered up to `version`, so that a new change is on no
page of the file. `CleanFrameCorrect` shows `CleanFrameMatchesDisk` to be
inductive together with `IInv`: the write of one frame touches no page of another
because no page is in two, and the mark of a change passes from the pin to the
dirty bit because unpin finds the frame of the pin.

`PoolIsPageStore` is the refinement: every step of `BufferPool` is a step
of `PageStore` or changes nothing a caller could see, whatever calls fail. What a
caller reads (`View`) is the frame of a page, or else the file; that the frame is
the only one, that contents are numbered up to `version`, that a clean frame agrees
with the file and that blank and torn contents occur only where the call that
makes them fails (`MarksOfFaults`) is the invariant it rests on (`RInv`). An eviction
is then a save of the page that leaves and a stutter for the one that enters, or
one `Replace` after a failure.

**`WriteAheadLogProofs`.** `TypeCorrect` and `LsnsAscend` come from `IInv`, which
adds to `LsnWithinOffset` and `LsnMonotone` that no cell has an LSN above the
next one (`LsnBounded`): a record half written has exactly the next. Opening
with the size of the file cannot go back because a record is at least as long
as its LSN is large. `LsnsNameRecords` holds under every fault: `NInv` adds that
an acknowledged LSN is one `current_lsn` has reached (`AckedKnown`) and that cells
carry the numbers of past calls (`Numbered`). `DamageStaysBehind`
(`IntactPrefixReplayed`) and `WholeLogReplaysExactly` (`ReplayExact`) hold under every fault
as well. `Records` says that the parts of a record lie one behind the other, that
calls lie in their order, and that a call is acknowledged just when its record is
complete. In an intact prefix each record is then followed by the first part of
another (`WholeRecord`), and `wal_replay` goes from one to the next (`WalkStep`), up to
the end of the prefix.

**`BTreeProofs`.** `TypeCorrect`, `LeavesHaveRoom` and `PagesAscend` under every
fault: kills, failed reads and writes, an emptied root, a page counter set back, a
key inserted twice. The hard part is the step from a split to the fetch that follows
it, where the walk goes on with room it has not looked at again: `IInv` says that
the page split and the one it links to have room until then, which a kill ends with
the call. The page taken may be any, in the chain or not: it is a new leaf with half
of the entries, or, when it is the page being split, an empty leaf linked to itself
(`LinkedIsGood`); a root that opening has emptied is one too (`RootIsGood`). A part of
an ascending leaf ascends (`PartAscends`), and an entry goes before the first larger
key, which `LeastElement` provides.

`TreeImplementsIndex` (`ImplementsIndex`) assumes `Faults = {}`: a kill takes pages back
to older contents and a failed read hides a page, keys with them. `CInv` says that some order `c` of the allocated pages, the root first, is the one their links
give, that keys ascend along it and are in it once, and where the call under way
is in it: a search has left no page with its key; the pages an insert has left have
smaller keys only, and after a split its place is the left half or the page next to
it, the rest being larger (`SplitLinks`), so the one page it may still go is enough.
Each step then keeps what is stored or changes one entry (`Kept`, `Changed`), the
walk of `LeavesOf` meets every allocated page (`EveryLeafMet`) and so `Lookup` finds just
what is stored (`LookupFinds`), and a step of the tree is a step of `KeyIndex` or none
(`IndexStep`).

**`ShardProofs`.** `BInv` says that only pages behind the first two hold records and
the tree names none of the first three, in memory and in the file, and keeps the
counters in range. `ShardTypesOk` (`TypeOK`, every fault) adds `TInv`: what pages of
each kind hold, and that the bound on pages leaves room for the rest of the insert
under way. `DeletionsStay` (every fault, any `.meta` file) adds `DInv`: memory
has every bit of the file. `RecordsStay` adds `RInv`: pages past the end of the file
are zeros there and untouched in memory past `next_page_id`, which is not below
that end; the heads of posting lists hold no records, neither in memory nor in
the file; memory has every record of the file. It assumes `~MetaSaves`, closing may
fail to save the file in either way: an old
`.meta` file sets `next_page_id` back below the end of the file, and `Shard_reuse` shows
what happens then.

The other four assume `~Crashes` and `~MetaFails`, that neither a kill nor a closing
that could not save the `.meta` file leaves an old one, or none, beside newer pages. A
split of the tree is one more user of `next_page_id` in all of them: `SplitRoom` says that
it leaves the insert under way its pages, `LeavesIn` that the pages splits took are
leaves still. `DocIdsAreUnique`: `NInv` follows the next doc_id through memory and the `.meta`
file. `PagesAreUsedOnce` (`PagesHaveOneUse`): `UInv` says that a page of postings links
to an older one, so links lead downwards and never in a circle, and that no two
links or heads name the same page; it follows this too through the file of a
closed shard. `SearchAgreesWithScan` (`IndexAgreesWithScan`) also assumes
`~WriteFails` and `MaxDocs <= MaxListed` (`get_postings` stops after 1,000,000,
`inverted_index.c:148`). Its invariant `LInv` gives every posting page the term whose
chain it is on, says that documents on a page ascend, that a posting names the
record of its document and the document has the term, and that a document has a
posting under each of its terms, the last one under the terms its insert has
reached (`AddedIn`). Without `~WriteFails` it does not hold, see the findings above.
`ShardImplementsDocStore` (`ImplementsDocStore`) adds
`MaxDocs <= TombstoneRoom`, the one tombstone page of a shard (`fts_indexer.c:41`), and
`SInv`: the bits set are those of the documents deleted, and the file of a closed
shard is what memory holds. Then what the shard lists is in every state the live
documents under their terms (`StoreIsHeld`), the one being inserted aside, and
each step changes this as a step of `DocStore` does or not at all.

**`PostingListsProofs`** has what `Shard` and `InvertedIndex` need of the operators: that
`GetPostings` returns the postings of a chain, each document once
(`GetPostingsListsEntries`), and that the two ways a posting is added, on the head of
its chain (`HeadChanged`) or on a new page in front of it (`HeadLinked`), keep the chains
and add one entry. `PhraseMerged` is about the merge of a phrase search: whatever it
finds meets the lists, and on ascending lists nothing that does is missed, because
after n postings of the first list a cursor has passed documents smaller than all
that are still to come (`Merged`, kept by `MergedRound`).

**`InvertedIndexProofs`.** `TypeCorrect`, `DocumentsListed`, `PositionsKept`, `WordsFound`,
`PhrasesSound` and `PhrasesComplete` are the six invariants of `InvertedIndex`. A step adds a
whole document there, so the invariant has to be carried through the postings of the
step as well: `StepInv` says what holds after k of them, `AddStep` that the next keeps
it, and `PostingsAreAdds` that `AddPostings` goes through them. It has three parts.
The chains are in order (`ChainsOk`, `Entered`). Under each term there is an entry for
exactly the documents in which the term has been placed (`Placed`), and an entry keeps
the first of these places (`KeptEntry`, with `KeepsOneMore` for a place more): the entry
of the document being added is the last one of the head page, so its next position goes
to it and not to a second posting. And pages are left for the rest of the document. `IInv` is this for
all of the documents' words, with a lexicon in which every entry has an id its word
can get, and documents whose ids agree with their words (`IdsOf`) through whatever
lexicon was there. That is what `WordsFound` needs, since the lexicon of a query need
not be the one of the insert. Phrases follow from the merge: a position kept is a
place of the term (`KeptArePlaces`), and as many positions as places are all of them
(`KeepsAll`). `TypeCorrect` needs no assumption; the others need
`MaxDocs <= MaxListed`, as a list that is full ends early: `inverted_index.c:148` and
`:237` take 1,000,000 postings, and a shard has tombstones for 32768 documents.


**Recursion.** `GetPostings`, `AddPostings`, the lexicon, the phrase merge, `Replay` and the walk
of `LeavesOf` are recursive functions. Their proofs are
inductions over a set of naturals, which `LeastElement` reduces to its least
element: `FromTheStart` and `FromTheEnd` are induction over `0..N`, up and down, and
`WalkExists` and `RepeatExists` say that functions defined that way exist. The
recursion has one argument for that: the walk along a chain counts its
steps.

**`VtabBridgeProofs`.** `TypeCorrect`, `CountsAreExact`, `UsedEnginesAreOpen`,
`PathsAreOpenOnce` need each other (`RInv`): an engine is closed when its count is
used up, so that no table is left behind is a matter of exact counts; a count is
exact only if its engine has one entry; a new engine gets an entry beside the
others because those are open and it was not; and an engine without an entry has
one table because sharing goes through entries. `SearchesAreComplete`
(`NoWorkOutlivesSearch`) says for each phase of the caller what may have become of
the work items, and that `completed` is the number of items called back (`SInv`).

### Model-checked only

* The answers of searches (`AnswersLikeEngineSearch`, `HybridFindsTheSame`,
  `WordsFindDocuments`, `TopHitsAreBest`): they say what `SortSeq`, `SelectSeq` and the
  folds of the community modules compute for every input, which needs an induction
  for each of them that the libraries of theorems do not have.
* `CallsReturn` and `EverySearchEnds`: liveness is beyond the prover.

No module uses a `RECURSIVE` operator.

## What is not modelled, and the plan

The map covers a small share of the lines of the repository because nearly all of
them, some 530,000 of 545,000, are SQLite and its shell: the amalgamation and the
copies `db_engine.c` and `db_shell.c`. They are vendored and no part of the program's
own logic. Of the program's own code the following is left out.

* *Several threads of SQLite.* Connections on different threads share `async_search_loop`,
  `g_active_engines` and the shards without a lock. Nothing in the repository says
  that this is meant to work, and the models have one caller.
* *Frames running out.* A fetch with every frame pinned returns NULL. One
  thread uses a shard and pins a few pages at a time; `Shard` and `BTree` do not
  have a pool created with fewer frames than that.
* *`BTree` under `PostingLists` with failures.* `btree_insert` refuses when it finds no frame
  or a root that is no leaf, and `inverted_index.c:98` drops its result. `Shard` uses the map the
  tree implements while it does not fail, and keeps it after a kill too, when the
  code may have lost terms; no page read fails there, and the zeros of a leaf are
  written. `BTree` has these faults, but of the pages only those of the tree: that records
  and postings take a leaf after the counter was set back is in neither. The
  composition of the two with a failing tree is what is left of the plan, with the
  scan hint over `BufferPool` (`unified_shard.c:260`).
* *The routing of a document to a shard and the document map*
  (`unified_shard.c`): a hash of the node, without state that anything else reads.
  The global statistics of an engine are scores, see below.
* *The byte layout of slotted pages.* `SlotsPerPage` stands for the arithmetic of
  `slotted_page_insert_tuple`, whose tuples all have one size here. Checksums and
  header LSNs are written and never read back.
* *The tokeniser*: it cuts a text at 4095 bytes and 1024 words, a query at 64.
  `lexicon_lookup`, `lexicon_get_doc_freq` and `lexicon_destroy` have no caller.
* *Scores and similarity*: data without control. `Fusion` has their order and what
  it decides, not their values, and leaves the order of equal scores open.
* *`fts_vfs.c` inside*: `BufferPool` has the results a ring or `pread`/`pwrite` returns, not
  the ring or the order of completions inside one batch.
* *Length map, shared memory, tabular and scatter-gather demonstrations*: wrappers
  and pure functions of one page or one range that a demonstration program
  calls once; no state outlives a call.
* *The planner and column callbacks of the virtual table* keep no state.
* *SQLite*, which is vendored.

## Running

    tlc -config BufferPool_structure.cfg MCBufferPool
    tlapm BufferPoolProofs.tla

Each `.cfg` belongs to the `MC` module of the name before the underscore.
`PROJECT.json` lists the runs, the lines each definition models (`map`), and for
every property a fault of the code it detects (`mutants`: the variants of
operators defined beside the originals are used there only).
