-------------------------------- MODULE BTree --------------------------------
(***************************************************************************)
(* The B-tree of one shard (src/btree.c).  The root never splits upwards:  *)
(* what the code builds is a chain of leaves, walked from the root page.   *)
(*                                                                         *)
(* One fetch of a page is one step, so a step sees the page as the buffer  *)
(* pool returns it and evictions come in between.  Of the pool the module  *)
(* uses what PageStore promises: mem is what a fetch sees, disk what is    *)
(* left after a crash.  Of the shard it has the page counter, which splits *)
(* take pages from and opening may set back (src/unified_shard.c), and of  *)
(* the pages those of the tree.  Header LSNs, checksums and the log        *)
(* records of inserts and splits are left out: no code reads them back.    *)
(***************************************************************************)
EXTENDS Integers, Sequences

CONSTANTS Keys,         \* term ids
          Values,       \* locations a key maps to
          NoValue,      \* no location
          MaxPages,     \* bound on the pages of the file
          MaxEntries,   \* BTREE_MAX_LEAF_ENTRIES
          Faults        \* see FaultKinds

FaultKinds == {"crash", \* the process is killed, or closes and opens again
               "read",  \* a page not in the pool cannot be read
               "write"} \* the zeros of a new page cannot be written

ASSUME KeysAssumption       == Keys \subseteq Int
ASSUME ValuesAssumption     == NoValue \notin Values
ASSUME MaxPagesAssumption   == MaxPages \in Nat \ {0}
ASSUME MaxEntriesAssumption == MaxEntries \in Nat /\ MaxEntries >= 2
ASSUME FaultsAssumption     == Faults \subseteq FaultKinds

VARIABLES mem,          \* pages as the buffer pool returns them
          disk,         \* pages in the data file
          file_pages,   \* pages the data file reaches over
          next_page_id, \* *tree->next_page_id
          meta,         \* next_page_id of the .meta file, or NoMeta
          op,           \* the call the owner thread is in
          answer        \* what the last search returned

file == <<disk, file_pages, meta>>
vars == <<mem, file, next_page_id, op, answer>>

Pages == 0..(MaxPages - 1)
Root  == 0                      \* tree->root_page_id
NoPage == -1                    \* INVALID_PAGE_ID
NoMeta == 0                     \* no .meta file, or one cut short
Entry == [key : Keys, val : Values]

(* A page of zeros, or one slotted_page_init made for a page past the end  *)
(* of the file: no leaf, and its next_leaf_id reads as page 0.             *)
BlankPage == [is_leaf |-> FALSE, entries |-> <<>>, next |-> 0]
EmptyLeaf == [is_leaf |-> TRUE, entries |-> <<>>, next |-> NoPage]

Idle == [kind |-> "idle"]

(* btree_init makes a root that is no leaf an empty leaf. *)
InitRoot(pages) ==
    IF pages[Root].is_leaf THEN pages ELSE [pages EXCEPT ![Root] = EmptyLeaf]

Init == /\ disk = [p \in Pages |-> BlankPage]
        /\ mem = InitRoot(disk)
        /\ file_pages = 1
        /\ next_page_id = 1
        /\ meta = NoMeta
        /\ op = Idle
        /\ answer = NoValue

(* The loop condition of btree_insert and its repetition after a split; a  *)
(* variant that misses the end of the chain.                               *)
BelongsRightPastEnd(key, page) == /\ page.entries # <<>>
                                  /\ key > page.entries[Len(page.entries)].key

BelongsRight(key, page) == /\ page.next # NoPage
                           /\ page.entries # <<>>
                           /\ key > page.entries[Len(page.entries)].key

(* Where a key goes in a leaf; a variant without the search. *)
PositionAtEnd(key, entries) == Len(entries) + 1

Position(key, entries) == CHOOSE i \in 1..(Len(entries) + 1) :
    /\ \A j \in 1..(i - 1) : entries[j].key <= key
    /\ i <= Len(entries) => entries[i].key > key

InsertSorted(entries, e) == LET i == Position(e.key, entries) IN
    SubSeq(entries, 1, i - 1) \o <<e>> \o SubSeq(entries, i, Len(entries))

(* BTREE_MAX_LEAF_ENTRIES is the room of a leaf; a variant counts one more. *)
IsFullLate(page) == Len(page.entries) > MaxEntries
IsFull(page)     == Len(page.entries) >= MaxEntries

(* The two halves of a split; variants that do not link the new leaf, and  *)
(* that link the old leaf before its next_leaf_id is copied.               *)
Middle(page) == Len(page.entries) \div 2

LeftHalfUnlinked(page, new) == [page EXCEPT !.entries = SubSeq(@, 1, Middle(page))]
LeftHalf(page, new) == [page EXCEPT !.entries = SubSeq(@, 1, Middle(page)), !.next = new]

RightHalfLinkedLate(page, new) ==
    [is_leaf |-> TRUE, next |-> new,
     entries |-> SubSeq(page.entries, Middle(page) + 1, Len(page.entries))]
RightHalf(page, new) ==
    [is_leaf |-> TRUE, next |-> page.next,
     entries |-> SubSeq(page.entries, Middle(page) + 1, Len(page.entries))]

(* The leaves a walk from the root meets; it stops at a page that is none. *)
LeavesOf(pages) ==
    LET met[n \in 0..MaxPages] ==
          IF n = 0 THEN {Root}
          ELSE LET so_far == met[n-1]
               IN  so_far \cup {pages[p].next : p \in {q \in so_far :
                                    pages[q].is_leaf /\ pages[q].next # NoPage}}
    IN {p \in met[MaxPages] : pages[p].is_leaf}

Larger(a, b) == IF a > b THEN a ELSE b

KeysAt(page) == {page.entries[i].key : i \in DOMAIN page.entries}

Lookup(k) == IF \E p \in LeavesOf(mem) : k \in KeysAt(mem[p])
             THEN LET p == CHOOSE p \in LeavesOf(mem) : k \in KeysAt(mem[p])
                      i == CHOOSE i \in DOMAIN mem[p].entries : mem[p].entries[i].key = k
                  IN mem[p].entries[i].val
             ELSE NoValue
-----------------------------------------------------------------------------
(* The inverted index calls the tree for a search, and to add a posting:   *)
(* inverted_index_add_posting first looks for the term.  Postings are      *)
(* added while the model has a page left for a split.                      *)
Call(kind, k, v) == /\ op = Idle
                    /\ op' = [kind |-> kind, key |-> k, val |-> v, page |-> Root]
                    /\ UNCHANGED <<mem, file, next_page_id, answer>>

CallSearch(k) == Call("search", k, NoValue)
CallAdd(k, v) == next_page_id < MaxPages /\ Call("find", k, v)

(* What the next fetch of the call returns.  A page whose frame was clean  *)
(* may have been evicted, and comes back blank when it cannot be read.     *)
Fetched == {mem[op.page]} \cup
           IF "read" \in Faults /\ mem[op.page] = disk[op.page] THEN {BlankPage} ELSE {}

IsMatch(at, i) == /\ i \in DOMAIN at.entries /\ at.entries[i].key = op.key
                  /\ \A j \in 1..(i - 1) : at.entries[j].key # op.key
IsFound(at)  == at.is_leaf /\ op.key \in KeysAt(at)
WalkEnds(at) == ~at.is_leaf \/ (~IsFound(at) /\ at.next = NoPage)

(* btree_search and btree_update follow next_leaf_id until the key is met. *)
WalkOn(at) == /\ op.kind \in {"search", "find", "update"}
              /\ ~IsFound(at) /\ ~WalkEnds(at)
              /\ op' = [op EXCEPT !.page = at.next]
              /\ UNCHANGED <<mem, file, next_page_id, answer>>

SearchReturns(at) ==
    /\ op.kind = "search"
    /\ \/ at.is_leaf /\ \E i \in DOMAIN at.entries :
            IsMatch(at, i) /\ answer' = at.entries[i].val
       \/ WalkEnds(at) /\ answer' = NoValue
    /\ op' = Idle
    /\ UNCHANGED <<mem, file, next_page_id>>

(* A term that was found is updated, one that was not is inserted, whether *)
(* it is in the tree or on a page that could not be read; or the tree is   *)
(* not called again: the term's posting page has room, or a new one could  *)
(* not be made.                                                            *)
FindReturns(at) ==
    /\ op.kind = "find"
    /\ IsFound(at) \/ WalkEnds(at)
    /\ \/ op' = [op EXCEPT !.kind = IF IsFound(at) THEN "update" ELSE "insert", !.page = Root]
       \/ op' = Idle
    /\ UNCHANGED <<mem, file, next_page_id, answer>>

UpdateReturns(at) ==
    /\ op.kind = "update"
    /\ \/ at.is_leaf /\ \E i \in DOMAIN at.entries :
            /\ IsMatch(at, i)
            /\ mem' = [mem EXCEPT ![op.page] = [at EXCEPT !.entries[i].val = op.val]]
       \/ WalkEnds(at) /\ UNCHANGED mem
    /\ op' = Idle
    /\ UNCHANGED <<file, next_page_id, answer>>

(* btree_insert checks the type of the page it fetches first, the root,    *)
(* and of no other.                                                        *)
InsertRefused(at) == /\ op.kind = "insert" /\ ~at.is_leaf
                     /\ op' = Idle
                     /\ UNCHANGED <<mem, file, next_page_id, answer>>

InsertGoesOn(at) == \/ op.kind = "insert" /\ at.is_leaf
                    \/ op.kind \in {"walk", "split"}

(* Before a split the insert walks on as far as the key belongs, after it  *)
(* one leaf at most.                                                       *)
InsertWalk(at) ==
    /\ InsertGoesOn(at)
    /\ BelongsRight(op.key, at)
    /\ op' = [op EXCEPT !.kind = IF @ = "split" THEN "place" ELSE "walk",
                        !.page = at.next]
    /\ UNCHANGED <<mem, file, next_page_id, answer>>

(* split_leaf_node: the new page is written as zeros first, then the upper *)
(* half of the entries moves to it in memory.  A counter that was set back *)
(* can give the page being split: it is initialised as the new leaf and    *)
(* linked to itself.                                                       *)
SelfLinked(new) == [is_leaf |-> TRUE, entries |-> <<>>, next |-> new]

InsertSplit(at) == LET new == next_page_id IN
    /\ InsertGoesOn(at) /\ op.kind # "split"
    /\ ~BelongsRight(op.key, at)
    /\ IsFull(at)
    /\ \/ disk' = [disk EXCEPT ![new] = BlankPage] /\ file_pages' = Larger(file_pages, new + 1)
       \/ "write" \in Faults /\ UNCHANGED <<disk, file_pages>>
    /\ mem' = IF op.page = new THEN [mem EXCEPT ![new] = SelfLinked(new)]
              ELSE [mem EXCEPT ![op.page] = LeftHalf(at, new), ![new] = RightHalf(at, new)]
    /\ next_page_id' = new + 1
    /\ op' = [op EXCEPT !.kind = "split"]
    /\ UNCHANGED <<meta, answer>>

InsertPlace(at) ==
    /\ \/ op.kind = "place"
       \/ /\ InsertGoesOn(at)
          /\ ~BelongsRight(op.key, at)
          /\ op.kind = "split" \/ ~IsFull(at)
    /\ mem' = [mem EXCEPT ![op.page] = [at EXCEPT !.entries =
                  InsertSorted(@, [key |-> op.key, val |-> op.val])]]
    /\ op' = Idle
    /\ UNCHANGED <<file, next_page_id, answer>>

Step == /\ op # Idle
        /\ \E at \in Fetched : \/ WalkOn(at)
                               \/ SearchReturns(at)
                               \/ FindReturns(at)
                               \/ UpdateReturns(at)
                               \/ InsertRefused(at)
                               \/ InsertWalk(at)
                               \/ InsertSplit(at)
                               \/ InsertPlace(at)

(* The buffer pool evicts or flushes a dirty page, any page in any order.  *)
(* Only a crash or a failed read tells: without them disk is not followed. *)
Save(p) == /\ Faults # {}
           /\ disk[p] # mem[p]
           /\ disk' = [disk EXCEPT ![p] = mem[p]]
           /\ file_pages' = Larger(file_pages, p + 1)
           /\ UNCHANGED <<mem, next_page_id, meta, op, answer>>

(* The process is killed and the shard is opened again, or it is closed    *)
(* and opened again: between calls the close may have cut .meta short or   *)
(* written it, whatever pages it saved.  The page counter is that of .meta *)
(* or, without one, what the length of the file gives.  btree_init makes a *)
(* root that is no leaf an empty one, which is also what it finds when the *)
(* root cannot be read.                                                    *)
Crash ==
    /\ "crash" \in Faults
    /\ meta' \in {meta} \cup IF op = Idle THEN {NoMeta, next_page_id} ELSE {}
    /\ next_page_id' = IF meta' = NoMeta THEN file_pages ELSE meta'
    /\ mem' \in {InitRoot(disk)} \cup
               IF "read" \in Faults THEN {[disk EXCEPT ![Root] = EmptyLeaf]} ELSE {}
    /\ op' = Idle
    /\ UNCHANGED <<disk, file_pages, answer>>

Next == \/ \E k \in Keys : CallSearch(k)
        \/ \E k \in Keys, v \in Values : CallAdd(k, v)
        \/ Step
        \/ \E p \in Pages : Save(p)
        \/ Crash

(* The owner thread runs: a call that can take a step takes it. *)
Spec == Init /\ [][Next]_vars /\ WF_vars(Step)
-----------------------------------------------------------------------------
(***************************************************************************)
(* Properties                                                              *)
(***************************************************************************)

(* Every variable stays in its domain. *)
Page == [is_leaf : BOOLEAN, entries : Seq(Entry), next : Pages \cup {NoPage}]
TypeOK ==
    /\ mem \in [Pages -> Page]
    /\ disk \in [Pages -> Page]
    /\ file_pages \in 1..MaxPages
    /\ next_page_id \in 1..MaxPages
    /\ meta \in 0..MaxPages
    /\ op # Idle =>
         op \in [kind : {"search", "find", "update", "insert", "walk", "split", "place"},
                 key : Keys, val : Values \cup {NoValue}, page : Pages]
    /\ answer \in Values \cup {NoValue}

(* No leaf holds more entries than its array has room for. *)
NoLeafOverflows == \A p \in Pages : Len(mem[p].entries) <= MaxEntries

(* Whatever was killed or could not be read, no page has its entries out   *)
(* of order: the walk of an insert relies on the last key being the        *)
(* largest.  A key may have come in twice.                                 *)
EntriesAscend ==
    \A p \in Pages : \A i, j \in DOMAIN mem[p].entries :
        i < j => mem[p].entries[i].key <= mem[p].entries[j].key

Index == INSTANCE KeyIndex WITH map <- [k \in Keys |-> Lookup(k)]

(* The chain of leaves implements a map: splits and evictions do not show, *)
(* no key is lost or found twice, and a search finds the last value.       *)
ImplementsIndex == Index!Spec

(* A call on the tree returns. *)
CallsReturn == (op # Idle) ~> (op = Idle)
=============================================================================
