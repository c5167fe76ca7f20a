------------------------------ MODULE BTreeProofs ------------------------------
(***************************************************************************)
(* Theorems about the B-tree, for every set of keys and values, every size *)
(* of leaf and every number of pages.  Whatever of BTree's faults come, a  *)
(* page never holds more entries than its array, and never holds them out  *)
(* of order; without faults the tree implements KeyIndex.                  *)
(***************************************************************************)
EXTENDS BTree, SequenceTheorems, LeastElement

(***************************************************************************)
(* Sequences of entries                                                    *)
(***************************************************************************)

Ascends(entries) ==
    \A i, j \in 1..Len(entries) : i < j => entries[i].key <= entries[j].key

LEMMA KeysAreIntegers ==
    ASSUME NEW entries \in Seq(Entry)
    PROVE  /\ Len(entries) \in Nat
           /\ \A i \in 1..Len(entries) : entries[i] \in Entry
           /\ \A i \in 1..Len(entries) : entries[i].key \in Int
<1>1. Len(entries) \in Nat /\ \A i \in 1..Len(entries) : entries[i] \in Entry
  BY LenProperties, ElementOfSeq
<1>2. \A e \in Entry : e.key \in Int
  BY KeysAssumption DEF Entry
<1> QED BY <1>1, <1>2

(* A part of a leaf ascends as the leaf does. *)
LEMMA PartAscends ==
    ASSUME NEW entries \in Seq(Entry), Ascends(entries),
           NEW m \in 1..(Len(entries) + 1), NEW n \in 0..Len(entries), m <= n + 1
    PROVE  /\ SubSeq(entries, m, n) \in Seq(Entry)
           /\ Len(SubSeq(entries, m, n)) = n - m + 1
           /\ \A i \in 1..(n - m + 1) : SubSeq(entries, m, n)[i] = entries[m + i - 1]
           /\ Ascends(SubSeq(entries, m, n))
<1>1. Len(entries) \in Nat /\ \A i \in 1..Len(entries) : entries[i] \in Entry
  BY KeysAreIntegers
<1>2. \A i \in m..n : entries[i] \in Entry
  BY <1>1
<1>3. /\ SubSeq(entries, m, n) \in Seq(Entry)
      /\ Len(SubSeq(entries, m, n)) = n - m + 1
      /\ \A i \in 1..(n - m + 1) : SubSeq(entries, m, n)[i] = entries[m + i - 1]
  <2>1. m \in Int /\ n \in Int
    BY <1>1
  <2>2. /\ SubSeq(entries, m, n) \in Seq(Entry)
        /\ Len(SubSeq(entries, m, n)) = IF m <= n THEN n - m + 1 ELSE 0
        /\ \A i \in 1..(n - m + 1) : SubSeq(entries, m, n)[i] = entries[m + i - 1]
    BY <1>2, <2>1, SubSeqProperties
  <2> QED BY <1>1, <2>2
<1>4. Ascends(SubSeq(entries, m, n))
  <2> SUFFICES ASSUME NEW i \in 1..(n - m + 1), NEW j \in 1..(n - m + 1), i < j
               PROVE  SubSeq(entries, m, n)[i].key <= SubSeq(entries, m, n)[j].key
    BY <1>3 DEF Ascends
  <2>1. /\ m + i - 1 \in 1..Len(entries) /\ m + j - 1 \in 1..Len(entries)
        /\ m + i - 1 < m + j - 1
    BY <1>1
  <2>2. entries[m + i - 1].key <= entries[m + j - 1].key
    BY <2>1 DEF Ascends
  <2> QED BY <1>3, <2>2
<1> QED BY <1>3, <1>4

(* The search of btree_insert finds a place between what is not larger and *)
(* what is.                                                                *)
LEMMA PositionFound ==
    ASSUME NEW key \in Keys, NEW entries \in Seq(Entry), Ascends(entries)
    PROVE  /\ Position(key, entries) \in 1..(Len(entries) + 1)
           /\ \A j \in 1..Len(entries) : j < Position(key, entries) => entries[j].key <= key
           /\ \A j \in 1..Len(entries) : j >= Position(key, entries) => key < entries[j].key
<1>1. Len(entries) \in Nat /\ key \in Int /\ \A i \in 1..Len(entries) : entries[i].key \in Int
  BY KeysAreIntegers, KeysAssumption
<1> DEFINE Place(i) == /\ \A j \in 1..(i - 1) : entries[j].key <= key
                       /\ i <= Len(entries) => entries[i].key > key
<1>2. \E i \in 1..(Len(entries) + 1) : Place(i)
  <2> DEFINE larger == {i \in 1..Len(entries) : entries[i].key > key}
  <2>1. CASE larger = {}
    <3>1. Place(Len(entries) + 1)
      BY <1>1, <2>1
    <3> QED BY <1>1, <3>1
  <2>2. CASE larger # {}
    <3>1. PICK i \in larger : \A j \in larger : i <= j
      <4>1. larger \in SUBSET Nat
        BY <1>1
      <4> QED BY <2>2, <4>1, LeastOne
    <3>2. Place(i)
      BY <1>1, <3>1
    <3> QED BY <1>1, <3>2
  <2> QED BY <2>1, <2>2
<1>3. Position(key, entries) \in 1..(Len(entries) + 1) /\ Place(Position(key, entries))
  BY <1>2 DEF Position
<1> DEFINE p == Position(key, entries)
<1>4. \A j \in 1..Len(entries) : j < p => entries[j].key <= key
  BY <1>1, <1>3
<1>5. ASSUME NEW j \in 1..Len(entries), j >= p PROVE key < entries[j].key
  <2>1. p \in 1..Len(entries) /\ entries[p].key > key
    BY <1>1, <1>3, <1>5
  <2>2. entries[p].key <= entries[j].key
    BY <1>1, <1>5, <2>1 DEF Ascends
  <2> HIDE DEF p
  <2> QED BY <1>1, <2>1, <2>2
<1> QED BY <1>3, <1>4, <1>5

(* An entry more, in its place. *)
LEMMA InsertedAscends ==
    ASSUME NEW e \in Entry, NEW entries \in Seq(Entry), Ascends(entries)
    PROVE  /\ InsertSorted(entries, e) \in Seq(Entry)
           /\ Len(InsertSorted(entries, e)) = Len(entries) + 1
           /\ Ascends(InsertSorted(entries, e))
           /\ \E i \in 1..(Len(entries) + 1) : \A j \in 1..(Len(entries) + 1) :
                InsertSorted(entries, e)[j] =
                  IF j < i THEN entries[j] ELSE IF j = i THEN e ELSE entries[j - 1]
<1> DEFINE i == Position(e.key, entries)
           left  == SubSeq(entries, 1, i - 1)
           right == SubSeq(entries, i, Len(entries))
<1>1. /\ i \in 1..(Len(entries) + 1) /\ e.key \in Int
      /\ \A j \in 1..Len(entries) : j < i => entries[j].key <= e.key
      /\ \A j \in 1..Len(entries) : j >= i => e.key < entries[j].key
  BY PositionFound, KeysAssumption DEF Entry
<1>2. Len(entries) \in Nat /\ \A j \in 1..Len(entries) : entries[j].key \in Int
  BY KeysAreIntegers
<1> HIDE DEF i
<1>3. /\ left \in Seq(Entry) /\ Len(left) = i - 1
      /\ \A j \in 1..(i - 1) : left[j] = entries[j]
  <2>1. /\ left \in Seq(Entry) /\ Len(left) = i - 1 - 1 + 1
        /\ \A j \in 1..(i - 1 - 1 + 1) : left[j] = entries[1 + j - 1]
    <3>1. 1 \in 1..(Len(entries) + 1) /\ i - 1 \in 0..Len(entries) /\ 1 <= i - 1 + 1
      BY <1>1, <1>2
    <3> QED BY <3>1, PartAscends
  <2> QED BY <1>1, <2>1
<1>4. /\ right \in Seq(Entry) /\ Len(right) = Len(entries) - i + 1
      /\ \A j \in 1..(Len(entries) - i + 1) : right[j] = entries[i + j - 1]
  <2>1. Len(entries) \in 0..Len(entries) /\ i <= Len(entries) + 1
    BY <1>1, <1>2
  <2> QED BY <1>1, <2>1, PartAscends
<1> DEFINE front == left \o <<e>>
           all   == front \o right
<1>5. <<e>> \in Seq(Entry) /\ Len(<<e>>) = 1 /\ <<e>>[1] = e
  OBVIOUS
<1> HIDE DEF left, right
<1>6. /\ front \in Seq(Entry) /\ Len(front) = i
      /\ \A j \in 1..i : front[j] = IF j < i THEN entries[j] ELSE e
  <2>1. /\ front \in Seq(Entry) /\ Len(front) = Len(left) + Len(<<e>>)
        /\ \A j \in 1..(Len(left) + Len(<<e>>)) :
             front[j] = IF j <= Len(left) THEN left[j] ELSE <<e>>[j - Len(left)]
    BY <1>3, <1>5, ConcatProperties
  <2> QED BY <1>1, <1>2, <1>3, <1>5, <2>1
<1> HIDE DEF front
<1>7. /\ all \in Seq(Entry) /\ Len(all) = Len(entries) + 1
      /\ \A j \in 1..(Len(entries) + 1) :
           all[j] = IF j < i THEN entries[j] ELSE IF j = i THEN e ELSE entries[j - 1]
  <2>1. /\ all \in Seq(Entry) /\ Len(all) = Len(front) + Len(right)
        /\ \A j \in 1..(Len(front) + Len(right)) :
             all[j] = IF j <= Len(front) THEN front[j] ELSE right[j - Len(front)]
    BY <1>4, <1>6, ConcatProperties
  <2>2. \A j \in 1..(Len(entries) + 1) : j > i =>
            j - i \in 1..(Len(entries) - i + 1) /\ i + (j - i) - 1 = j - 1
    BY <1>1, <1>2
  <2> QED BY <1>1, <1>2, <1>4, <1>6, <2>1, <2>2
<1>8. InsertSorted(entries, e) = all
  BY DEF InsertSorted, i, front, left, right
<1> HIDE DEF all
<1>9. Ascends(all)
  <2> SUFFICES ASSUME NEW j \in 1..(Len(entries) + 1), NEW k \in 1..(Len(entries) + 1), j < k
               PROVE  all[j].key <= all[k].key
    BY <1>7 DEF Ascends
  <2>1. CASE k < i
    <3>1. all[j] = entries[j] /\ all[k] = entries[k]
      BY <1>1, <1>7, <2>1
    <3>2. j \in 1..Len(entries) /\ k \in 1..Len(entries)
      BY <1>1, <1>2, <2>1
    <3> QED BY <3>1, <3>2 DEF Ascends
  <2>2. CASE k = i
    BY <1>1, <1>2, <1>7, <2>2
  <2>3. CASE k > i /\ j < i
    <3>1. k - 1 \in 1..Len(entries) /\ j \in 1..Len(entries) /\ j < k - 1
      BY <1>1, <1>2, <2>3
    <3>2. all[j] = entries[j] /\ all[k] = entries[k - 1]
      BY <1>1, <1>7, <2>3
    <3> QED BY <3>1, <3>2 DEF Ascends
  <2>4. CASE j = i
    <3>1. k - 1 \in 1..Len(entries) /\ k - 1 >= i
      BY <1>1, <1>2, <2>4
    <3>2. all[j] = e /\ all[k] = entries[k - 1]
      BY <1>1, <1>2, <1>7, <2>4
    <3>3. e.key <= entries[k - 1].key
      BY <1>1, <1>2, <3>1
    <3> QED BY <3>2, <3>3
  <2>5. CASE j > i
    <3>1. k - 1 \in 1..Len(entries) /\ j - 1 \in 1..Len(entries) /\ j - 1 < k - 1
      BY <1>1, <1>2, <2>5
    <3>2. all[j] = entries[j - 1] /\ all[k] = entries[k - 1]
      BY <1>1, <1>7, <2>5
    <3> QED BY <3>1, <3>2 DEF Ascends
  <2> QED BY <1>1, <2>1, <2>2, <2>3, <2>4, <2>5
<1> QED BY <1>1, <1>7, <1>8, <1>9
-----------------------------------------------------------------------------
(***************************************************************************)
(* The invariant                                                           *)
(***************************************************************************)

GoodPage(page) ==
    /\ page \in Page
    /\ Len(page.entries) <= MaxEntries
    /\ Ascends(page.entries)

HasRoom(page) == Len(page.entries) < MaxEntries

Kinds == {"search", "find", "update", "insert", "walk", "split", "place"}

(* A call that may split has a page to take; and between a split and the   *)
(* fetch that follows it both halves have the room the split was for, also *)
(* when the page taken is in the chain, or the one that was split.         *)
IInv ==
    /\ next_page_id \in 1..MaxPages /\ file_pages \in 1..MaxPages /\ meta \in 0..MaxPages
    /\ answer \in Values \cup {NoValue}
    /\ mem \in [Pages -> Page] /\ disk \in [Pages -> Page]
    /\ \A p \in Pages : GoodPage(mem[p]) /\ GoodPage(disk[p])
    /\ op # Idle => /\ op \in [kind : Kinds, key : Keys, val : Values \cup {NoValue}, page : Pages]
                    /\ op.kind # "search" => op.val \in Values
    /\ op.kind \in {"find", "insert", "walk"} => next_page_id < MaxPages
    /\ op.kind = "split" =>
         /\ HasRoom(mem[op.page])
         /\ mem[op.page].next # NoPage => HasRoom(mem[mem[op.page].next])
    /\ op.kind = "place" => HasRoom(mem[op.page])

LEMMA BlankIsGood == GoodPage(BlankPage) /\ GoodPage(EmptyLeaf)
<1>1. <<>> \in Seq(Entry) /\ Len(<<>>) = 0 /\ Ascends(<<>>)
  BY DEF Ascends
<1>2. 0 \in Pages /\ MaxEntries \in Nat
  BY MaxPagesAssumption, MaxEntriesAssumption DEF Pages
<1> QED BY <1>1, <1>2 DEF GoodPage, BlankPage, EmptyLeaf, Page

LEMMA LinkedIsGood ==
    ASSUME NEW new \in Pages
    PROVE  GoodPage(SelfLinked(new)) /\ HasRoom(SelfLinked(new)) /\ SelfLinked(new).next = new
<1>1. <<>> \in Seq(Entry) /\ Len(<<>>) = 0 /\ Ascends(<<>>)
  BY DEF Ascends
<1> QED BY <1>1, MaxEntriesAssumption DEF GoodPage, HasRoom, SelfLinked, Page

(* The root as btree_init leaves it, read or not. *)
LEMMA RootIsGood ==
    ASSUME NEW pages \in [Pages -> Page], \A p \in Pages : GoodPage(pages[p]),
           NEW found \in {InitRoot(pages), [pages EXCEPT ![Root] = EmptyLeaf]}
    PROVE  found \in [Pages -> Page] /\ \A p \in Pages : GoodPage(found[p])
<1>1. EmptyLeaf \in Page /\ GoodPage(EmptyLeaf)
  BY BlankIsGood DEF GoodPage
<1> QED BY <1>1 DEF InitRoot

(* The length of the file is that of some page. *)
LEMMA FileGrows ==
    ASSUME NEW p \in Pages, file_pages \in 1..MaxPages
    PROVE  Larger(file_pages, p + 1) \in 1..MaxPages
BY MaxPagesAssumption DEF Larger, Pages

LEMMA InvariantInit == Init => IInv
<1> SUFFICES ASSUME Init PROVE IInv
  OBVIOUS
<1>1. disk \in [Pages -> Page] /\ \A p \in Pages : GoodPage(disk[p])
  BY BlankIsGood DEF Init, GoodPage
<1>2. mem \in [Pages -> Page] /\ \A p \in Pages : GoodPage(mem[p])
  BY <1>1, RootIsGood DEF Init
<1> QED BY <1>1, <1>2, MaxPagesAssumption DEF Init, IInv, Idle, NoMeta

LEMMA CallKeeps ==
    ASSUME IInv, NEW kind \in Kinds \ {"walk", "split", "place"}, NEW k \in Keys,
           NEW v \in Values \cup {NoValue}, Call(kind, k, v),
           kind # "search" => v \in Values,
           kind \in {"find", "insert"} => next_page_id < MaxPages
    PROVE  IInv'
<1>1. Root \in Pages
  BY MaxPagesAssumption DEF Root, Pages, IInv
<1>2. op' = [kind |-> kind, key |-> k, val |-> v, page |-> Root]
  BY DEF Call
<1>3. UNCHANGED <<mem, file, next_page_id, answer>>
  BY DEF Call
<1>4. \A p \in Pages : GoodPage(mem'[p]) /\ GoodPage(disk'[p])
  BY <1>3 DEF IInv, file
<1> QED BY <1>1, <1>2, <1>3, <1>4 DEF IInv, Kinds, file

(* What a fetch returns is a page as good as those of the pool. *)
LEMMA FetchedIsGood ==
    ASSUME IInv, op # Idle, NEW at \in Fetched
    PROVE  /\ GoodPage(at)
           /\ op.kind \in {"split", "place"} => HasRoom(at)
           /\ at.entries # <<>> => at = mem[op.page]
<1>1. at = mem[op.page] \/ at = BlankPage
  BY DEF Fetched
<1>2. op.page \in Pages /\ next_page_id \in Nat \ {0}
  BY DEF IInv
<1>3. BlankPage.entries = <<>> /\ HasRoom(BlankPage)
  BY MaxEntriesAssumption DEF BlankPage, HasRoom
<1>4. GoodPage(at)
  BY <1>1, <1>2, BlankIsGood DEF IInv
<1>5. op.kind \in {"split", "place"} => HasRoom(at)
  BY <1>1, <1>3 DEF IInv
<1> QED BY <1>1, <1>3, <1>4, <1>5

(* A call that returns: it may have changed the page it is on. *)
LEMMA ReturnKeeps ==
    ASSUME IInv, op # Idle, op' = Idle, NEW page, GoodPage(page),
           mem' \in {mem, [mem EXCEPT ![op.page] = page]}, UNCHANGED <<file, next_page_id>>,
           answer' \in Values \cup {NoValue}
    PROVE  IInv'
<1>1. op.page \in Pages /\ page \in Page
  BY DEF IInv, GoodPage
<1>2. mem' \in [Pages -> Page]
  BY <1>1 DEF IInv
<1>3. \A p \in Pages : GoodPage(mem'[p])
  BY <1>1 DEF IInv
<1> QED BY <1>2, <1>3 DEF IInv, Idle, file

LEMMA WalkKeeps ==
    ASSUME IInv, NEW at \in Fetched, WalkOn(at)
    PROVE  IInv'
<1>1. /\ op.kind \in {"search", "find", "update"} /\ at.next # NoPage /\ op # Idle
      /\ op' = [op EXCEPT !.page = at.next]
      /\ UNCHANGED <<mem, file, next_page_id, answer>>
  BY DEF WalkOn, WalkEnds, IsFound, Idle
<1>2. at.next \in Pages
  BY <1>1, FetchedIsGood DEF GoodPage, Page
<1>3. \A p \in Pages : GoodPage(mem'[p]) /\ GoodPage(disk'[p])
  BY <1>1 DEF IInv, file
<1> QED BY <1>1, <1>2, <1>3 DEF IInv, file

LEMMA SearchKeeps ==
    ASSUME IInv, op # Idle, NEW at \in Fetched, SearchReturns(at)
    PROVE  IInv'
<1>1. GoodPage(at)
  BY FetchedIsGood
<1>2. /\ op' = Idle /\ UNCHANGED <<mem, file, next_page_id>>
      /\ \/ answer' = NoValue
         \/ \E i \in DOMAIN at.entries : answer' = at.entries[i].val
  BY DEF SearchReturns
<1>3. \A i \in DOMAIN at.entries : at.entries[i].val \in Values
  <2>1. at.entries \in Seq(Entry)
    BY <1>1 DEF GoodPage, Page
  <2>2. \A i \in DOMAIN at.entries : at.entries[i] \in Entry
    BY <2>1, LenProperties, ElementOfSeq
  <2> QED BY <2>2 DEF Entry
<1> QED BY <1>1, <1>2, <1>3, ReturnKeeps

(* The search before a posting is added: the tree is called again, or not. *)
LEMMA FindKeeps ==
    ASSUME IInv, op # Idle, NEW at \in Fetched, FindReturns(at)
    PROVE  IInv'
<1>1. UNCHANGED <<mem, file, next_page_id, answer>> /\ op.kind = "find"
  BY DEF FindReturns
<1>2. CASE op' = Idle
  BY <1>1, <1>2, FetchedIsGood, ReturnKeeps DEF IInv
<1>3. CASE op' # Idle
  <2>1. PICK kind \in {"update", "insert"} : op' = [op EXCEPT !.kind = kind, !.page = Root]
    BY <1>3 DEF FindReturns
  <2>2. op' = [kind |-> kind, key |-> op.key, val |-> op.val, page |-> Root]
    BY <2>1 DEF IInv
  <2>3. op.key \in Keys /\ op.val \in Values /\ next_page_id < MaxPages
    BY <1>1 DEF IInv
  <2>4. Root \in Pages
    BY MaxPagesAssumption DEF Root, Pages
  <2>5. \A p \in Pages : GoodPage(mem'[p]) /\ GoodPage(disk'[p])
    BY <1>1 DEF IInv, file
  <2> QED BY <1>1, <2>2, <2>3, <2>4, <2>5 DEF IInv, file, Kinds
<1> QED BY <1>2, <1>3

LEMMA UpdateKeeps ==
    ASSUME IInv, op # Idle, NEW at \in Fetched, UpdateReturns(at)
    PROVE  IInv'
<1>1. GoodPage(at)
  BY FetchedIsGood
<1>2. op' = Idle /\ UNCHANGED <<file, next_page_id, answer>> /\ answer \in Values \cup {NoValue}
  BY DEF UpdateReturns, IInv
<1>3. CASE mem' = mem
  BY <1>1, <1>2, <1>3, ReturnKeeps
<1>4. ASSUME NEW i \in DOMAIN at.entries,
             mem' = [mem EXCEPT ![op.page] = [at EXCEPT !.entries[i].val = op.val]]
      PROVE  IInv'
  <2> DEFINE entry   == [at.entries[i] EXCEPT !.val = op.val]
             entries == [at.entries EXCEPT ![i] = entry]
  <2>1. at.entries \in Seq(Entry) /\ op.val \in Values
    BY <1>1 DEF GoodPage, Page, UpdateReturns, IInv
  <2>2. /\ Len(at.entries) \in Nat /\ DOMAIN at.entries = 1..Len(at.entries)
        /\ \A j \in 1..Len(at.entries) : at.entries[j] \in Entry
    BY <2>1, LenProperties, ElementOfSeq
  <2>3. entry \in Entry /\ entry.key = at.entries[i].key
    BY <2>1, <2>2 DEF Entry
  <2> HIDE DEF entry
  <2>4. entries \in Seq(Entry) /\ Len(entries) = Len(at.entries)
    BY <2>1, <2>2, <2>3
  <2>5. \A j \in 1..Len(entries) : entries[j].key = at.entries[j].key
    BY <2>2, <2>3, <2>4
  <2>6. Ascends(entries)
    BY <1>1, <2>4, <2>5 DEF GoodPage, Ascends
  <2> HIDE DEF entries
  <2> DEFINE page == [at EXCEPT !.entries = entries]
  <2>7. GoodPage(page)
    BY <1>1, <2>4, <2>6 DEF GoodPage, Page
  <2>8. mem' = [mem EXCEPT ![op.page] = page]
    BY <1>4, Zenon DEF entries, entry
  <2> QED BY <1>2, <2>7, <2>8, ReturnKeeps
<1> QED BY <1>3, <1>4 DEF UpdateReturns

LEMMA InsertWalkKeeps ==
    ASSUME IInv, NEW at \in Fetched, InsertWalk(at)
    PROVE  IInv'
<1>1. /\ op.kind \in {"insert", "walk", "split"} /\ op # Idle
      /\ at.next # NoPage /\ at.entries # <<>>
      /\ op' = [op EXCEPT !.kind = IF @ = "split" THEN "place" ELSE "walk", !.page = at.next]
      /\ UNCHANGED <<mem, file, next_page_id, answer>>
  BY DEF InsertWalk, InsertGoesOn, BelongsRight, Idle
<1>2. at.next \in Pages /\ at = mem[op.page]
  BY <1>1, FetchedIsGood DEF GoodPage, Page
<1>3. \A p \in Pages : GoodPage(mem'[p]) /\ GoodPage(disk'[p])
  BY <1>1 DEF IInv, file
<1>4. op \in [kind : Kinds, key : Keys, val : Values \cup {NoValue}, page : Pages] /\ op.val \in Values
  BY <1>1 DEF IInv
<1>5. op' = [kind |-> IF op.kind = "split" THEN "place" ELSE "walk",
             key |-> op.key, val |-> op.val, page |-> at.next]
  BY <1>1, <1>4
<1>6. op.kind = "split" => HasRoom(mem[at.next])
  BY <1>1, <1>2 DEF IInv
<1> QED BY <1>1, <1>2, <1>3, <1>4, <1>5, <1>6 DEF IInv, Kinds, file

(* Both halves of a full leaf of two entries or more have room. *)
LEMMA HalvesAreGood ==
    ASSUME NEW at, NEW new \in Pages, GoodPage(at), IsFull(at)
    PROVE  /\ GoodPage(LeftHalf(at, new)) /\ HasRoom(LeftHalf(at, new))
           /\ GoodPage(RightHalf(at, new)) /\ HasRoom(RightHalf(at, new))
           /\ LeftHalf(at, new).next = new
<1> DEFINE n == Len(at.entries)
<1>1. at \in Page /\ at.entries \in Seq(Entry) /\ Ascends(at.entries)
  BY DEF GoodPage, Page
<1>2. n \in Nat /\ n = MaxEntries /\ n >= 2
  <2>1. n \in Nat
    BY <1>1, KeysAreIntegers
  <2> QED BY <2>1, MaxEntriesAssumption DEF GoodPage, IsFull
<1> DEFINE half == n \div 2
<1>3. half \in 1..(n - 1)
  BY <1>2
<1> HIDE DEF half
<1> DEFINE left  == SubSeq(at.entries, 1, half)
           right == SubSeq(at.entries, half + 1, n)
<1>4. left \in Seq(Entry) /\ Len(left) = half /\ Ascends(left)
  <2>1. 1 \in 1..(n + 1) /\ half \in 0..n /\ 1 <= half + 1
    BY <1>2, <1>3
  <2>2. left \in Seq(Entry) /\ Len(left) = half - 1 + 1 /\ Ascends(left)
    BY <1>1, <2>1, PartAscends
  <2> QED BY <1>3, <2>2
<1>5. right \in Seq(Entry) /\ Len(right) = n - half /\ Ascends(right)
  <2>1. half + 1 \in 1..(n + 1) /\ n \in 0..n /\ half + 1 <= n + 1
    BY <1>2, <1>3
  <2>2. right \in Seq(Entry) /\ Len(right) = n - (half + 1) + 1 /\ Ascends(right)
    BY <1>1, <2>1, PartAscends
  <2> QED BY <1>2, <1>3, <2>2
<1>6. /\ LeftHalf(at, new) = [at EXCEPT !.entries = left, !.next = new]
      /\ RightHalf(at, new) = [is_leaf |-> TRUE, next |-> at.next, entries |-> right]
  BY DEF LeftHalf, RightHalf, Middle, half
<1> HIDE DEF left, right
<1> DEFINE l == [at EXCEPT !.entries = left, !.next = new]
<1>7. l \in Page /\ l.entries = left /\ l.next = new
  <2>1. new \in Pages \cup {NoPage} /\ left \in Seq(Entry)
    BY <1>4
  <2>2. l.entries = left /\ l.next = new
    BY <1>1 DEF Page
  <2>3. l \in Page
    BY <1>1, <2>1 DEF Page
  <2> QED BY <2>2, <2>3
<1> HIDE DEF l
<1>8. at.is_leaf \in BOOLEAN /\ at.next \in Pages \cup {NoPage}
  BY <1>1 DEF Page
<1>9. GoodPage(LeftHalf(at, new)) /\ HasRoom(LeftHalf(at, new))
  BY <1>2, <1>3, <1>4, <1>6, <1>7, <1>8 DEF GoodPage, HasRoom, l
<1>10. GoodPage(RightHalf(at, new)) /\ HasRoom(RightHalf(at, new))
  BY <1>2, <1>3, <1>5, <1>6, <1>8 DEF GoodPage, HasRoom, Page
<1> QED BY <1>6, <1>7, <1>9, <1>10

(* A counter that was set back may give any page: one of the chain is      *)
(* overwritten, and the page being split comes out empty.                  *)
LEMMA SplitKeeps ==
    ASSUME IInv, NEW at \in Fetched, InsertSplit(at)
    PROVE  IInv'
<1> DEFINE new  == next_page_id
           l == LeftHalf(at, new)
           r == RightHalf(at, new)
           s == SelfLinked(new)
<1>1. /\ op.kind \in {"insert", "walk"} /\ op # Idle /\ IsFull(at)
      /\ mem' = IF op.page = new THEN [mem EXCEPT ![new] = s]
                 ELSE [mem EXCEPT ![op.page] = l, ![new] = r]
      /\ \/ disk' = [disk EXCEPT ![new] = BlankPage] /\ file_pages' = Larger(file_pages, new + 1)
         \/ disk' = disk /\ file_pages' = file_pages
      /\ next_page_id' = new + 1
      /\ op' = [op EXCEPT !.kind = "split"]
      /\ answer' = answer /\ meta' = meta
  BY DEF InsertSplit, InsertGoesOn, Idle
<1>2. /\ op \in [kind : Kinds, key : Keys, val : Values \cup {NoValue}, page : Pages]
      /\ op.val \in Values /\ op.page \in Pages
  BY <1>1 DEF IInv
<1>3. new \in Pages /\ new + 1 \in 1..MaxPages
  BY <1>1, MaxPagesAssumption DEF IInv, Pages
<1>4. /\ GoodPage(l) /\ HasRoom(l) /\ GoodPage(r) /\ HasRoom(r) /\ l.next = new
  BY <1>1, <1>2, <1>3, FetchedIsGood, HalvesAreGood
<1>5. GoodPage(BlankPage) /\ GoodPage(s) /\ HasRoom(s) /\ s.next = new
  BY <1>3, BlankIsGood, LinkedIsGood
<1> HIDE DEF l, r, s
<1>6. mem' \in [Pages -> Page] /\ \A p \in Pages : GoodPage(mem'[p])
  BY <1>1, <1>2, <1>3, <1>4, <1>5 DEF IInv, GoodPage
<1>7. disk' \in [Pages -> Page] /\ \A p \in Pages : GoodPage(disk'[p])
  <2>1. /\ disk \in [Pages -> Page] /\ \A p \in Pages : GoodPage(disk[p])
        /\ disk' \in {disk, [disk EXCEPT ![new] = BlankPage]} /\ BlankPage \in Page
    BY <1>1, <1>5 DEF IInv, GoodPage
  <2> QED BY <1>3, <1>5, <2>1
<1>8. file_pages' \in 1..MaxPages /\ meta' \in 0..MaxPages
  <2>1. file_pages \in 1..MaxPages /\ meta \in 0..MaxPages
    BY DEF IInv
  <2>2. Larger(file_pages, new + 1) \in 1..MaxPages
    BY <1>3, <2>1, FileGrows
  <2> QED BY <1>1, <2>1, <2>2
<1>9. op' = [kind |-> "split", key |-> op.key, val |-> op.val, page |-> op.page]
  BY <1>1, <1>2
<1>10. HasRoom(mem'[op'.page]) /\ HasRoom(mem'[mem'[op'.page].next])
  <2>1. CASE op.page = new
    <3>1. mem'[new] = s
      BY <1>1, <1>3, <2>1 DEF IInv
    <3> QED BY <1>5, <1>9, <2>1, <3>1
  <2>2. CASE op.page # new
    <3>1. mem'[op.page] = l /\ mem'[new] = r
      BY <1>1, <1>2, <1>3, <2>2 DEF IInv
    <3> QED BY <1>4, <1>9, <3>1
  <2> QED BY <2>1, <2>2
<1>11. answer' \in Values \cup {NoValue}
  BY <1>1 DEF IInv
<1> QED BY <1>1, <1>2, <1>3, <1>6, <1>7, <1>8, <1>9, <1>10, <1>11 DEF IInv, Kinds

LEMMA PlaceKeeps ==
    ASSUME IInv, op # Idle, NEW at \in Fetched, InsertPlace(at)
    PROVE  IInv'
<1> DEFINE e    == [key |-> op.key, val |-> op.val]
           more == InsertSorted(at.entries, e)
           page == [at EXCEPT !.entries = more]
<1>1. /\ op' = Idle /\ UNCHANGED <<file, next_page_id, answer>>
      /\ op.kind \in {"insert", "walk", "split", "place"}
      /\ op.kind \in {"insert", "walk"} => ~IsFull(at)
      /\ mem' = [mem EXCEPT ![op.page] = page]
  BY DEF InsertPlace, InsertGoesOn
<1>2. e \in Entry
  BY <1>1 DEF IInv, Entry
<1>3. /\ GoodPage(at) /\ at \in Page /\ at.entries \in Seq(Entry)
      /\ Ascends(at.entries) /\ Len(at.entries) \in Nat
  <2>1. GoodPage(at)
    BY FetchedIsGood
  <2>2. at \in Page /\ Ascends(at.entries)
    BY <2>1 DEF GoodPage
  <2>3. at.entries \in Seq(Entry)
    BY <2>2 DEF Page
  <2>4. Len(at.entries) \in Nat
    BY <2>3
  <2> QED BY <2>1, <2>2, <2>3, <2>4
<1>4. Len(at.entries) < MaxEntries
  BY <1>1, <1>3, FetchedIsGood, MaxEntriesAssumption DEF HasRoom, IsFull
<1> HIDE DEF e
<1>5. more \in Seq(Entry) /\ Len(more) = Len(at.entries) + 1 /\ Ascends(more)
  BY <1>2, <1>3, InsertedAscends
<1> HIDE DEF more
<1>6. GoodPage(page)
  <2>1. page \in Page /\ page.entries = more
    BY <1>3, <1>5 DEF Page
  <2>2. Len(more) <= MaxEntries
    BY <1>3, <1>4, <1>5, MaxEntriesAssumption
  <2> QED BY <1>5, <2>1, <2>2 DEF GoodPage
<1>7. answer' \in Values \cup {NoValue}
  BY <1>1 DEF IInv
<1> HIDE DEF page
<1> QED BY <1>1, <1>6, <1>7, ReturnKeeps

LEMMA RefusedKeeps ==
    ASSUME IInv, op # Idle, NEW at \in Fetched, InsertRefused(at)
    PROVE  IInv'
BY FetchedIsGood, ReturnKeeps DEF InsertRefused, IInv

LEMMA SaveKeeps ==
    ASSUME IInv, NEW p \in Pages, Save(p)
    PROVE  IInv'
<1>1. /\ disk' = [disk EXCEPT ![p] = mem[p]] /\ file_pages' = Larger(file_pages, p + 1)
      /\ UNCHANGED <<mem, next_page_id, meta, op, answer>>
  BY DEF Save
<1>2. disk' \in [Pages -> Page] /\ \A q \in Pages : GoodPage(disk'[q])
  BY <1>1 DEF IInv
<1>3. file_pages' \in 1..MaxPages
  BY <1>1, FileGrows DEF IInv
<1> QED BY <1>1, <1>2, <1>3 DEF IInv

(* The page counter an opening finds may be any that was saved. *)
LEMMA CrashKeeps == ASSUME IInv, Crash PROVE IInv'
<1>1. /\ meta' \in {meta, NoMeta, next_page_id}
      /\ next_page_id' = IF meta' = NoMeta THEN file_pages ELSE meta'
      /\ mem' \in {InitRoot(disk), [disk EXCEPT ![Root] = EmptyLeaf]}
      /\ op' = Idle /\ UNCHANGED <<disk, file_pages, answer>>
  BY DEF Crash
<1>2. mem' \in [Pages -> Page] /\ \A p \in Pages : GoodPage(mem'[p])
  BY <1>1, RootIsGood DEF IInv
<1>3. meta' \in 0..MaxPages /\ next_page_id' \in 1..MaxPages
  BY <1>1, MaxPagesAssumption DEF IInv, NoMeta
<1> QED BY <1>1, <1>2, <1>3 DEF IInv, Idle

LEMMA InvariantKept == IInv /\ [Next]_vars => IInv'
<1> SUFFICES ASSUME IInv, [Next]_vars PROVE IInv'
  OBVIOUS
<1>1. ASSUME NEW k \in Keys, CallSearch(k) PROVE IInv'
  BY <1>1, CallKeeps DEF CallSearch, Kinds
<1>2. ASSUME NEW k \in Keys, NEW v \in Values, CallAdd(k, v) PROVE IInv'
  BY <1>2, CallKeeps DEF CallAdd, Kinds
<1>3. CASE Step
  BY <1>3, WalkKeeps, SearchKeeps, FindKeeps, UpdateKeeps, RefusedKeeps, InsertWalkKeeps, SplitKeeps,
     PlaceKeeps DEF Step
<1>4. CASE \E p \in Pages : Save(p)
  BY <1>4, SaveKeeps
<1>5. CASE Crash
  BY <1>5, CrashKeeps
<1>6. CASE UNCHANGED vars
  BY <1>6 DEF vars, file, IInv
<1> QED BY <1>1, <1>2, <1>3, <1>4, <1>5, <1>6 DEF Next

LEMMA InductiveInvariant == Spec => []IInv
BY InvariantInit, InvariantKept, PTL DEF Spec

(* Every variable stays in its domain, with kills, closings and openings   *)
(* that set the page counter back to an older .meta or to the length of    *)
(* the file, roots and leaves that cannot be read, and lost zeros.         *)
THEOREM TypeCorrect == Spec => []TypeOK
<1>1. IInv => TypeOK
  BY DEF IInv, TypeOK, Kinds
<1> QED BY <1>1, InductiveInvariant, PTL

(* btree_insert writes no entry past the end of a leaf (btree.c:177), with *)
(* kills and failed reads between any two of its fetches, a root that      *)
(* btree_init has emptied (btree.c:14-23), splits that take pages already  *)
(* in the chain because the counter was set back (shard_meta.c:69), and    *)
(* terms inserted again after a search that failed                         *)
(* (inverted_index.c:77-98).                                               *)
THEOREM LeavesHaveRoom == Spec => []NoLeafOverflows
<1>1. IInv => NoLeafOverflows
  BY DEF IInv, GoodPage, NoLeafOverflows
<1> QED BY <1>1, InductiveInvariant, PTL

(* The entries of a page are in the order btree_insert relies on to stop   *)
(* its walk (btree.c:167), under the same faults.                          *)
THEOREM PagesAscend == Spec => []EntriesAscend
<1>1. IInv => EntriesAscend
  <2> SUFFICES ASSUME IInv, NEW p \in Pages,
                      NEW i \in DOMAIN mem[p].entries, NEW j \in DOMAIN mem[p].entries, i < j
               PROVE  mem[p].entries[i].key <= mem[p].entries[j].key
    BY DEF EntriesAscend
  <2>1. mem[p].entries \in Seq(Entry) /\ Ascends(mem[p].entries)
    BY DEF IInv, GoodPage, Page
  <2>2. DOMAIN mem[p].entries = 1..Len(mem[p].entries)
    BY <2>1, LenProperties
  <2> QED BY <2>1, <2>2 DEF Ascends
<1> QED BY <1>1, InductiveInvariant, PTL

-----------------------------------------------------------------------------
(***************************************************************************)
(* The map a tree without faults implements                                *)
(***************************************************************************)

(* The entries of a page, and of all pages allocated. *)
EntriesOf(page) == {page.entries[i] : i \in DOMAIN page.entries}
Stored(m, n)    == {e \in Entry : \E p \in 0..(n - 1) : e \in EntriesOf(m[p])}

(* The allocated pages in the order of the walk: the root is first, and    *)
(* every page once.                                                        *)
Chain(m, n, c) ==
    /\ c[1] = Root
    /\ \A i \in 1..n : c[i] \in 0..(n - 1)
    /\ \A p \in 0..(n - 1) : \E i \in 1..n : c[i] = p
    /\ \A i, j \in 1..n : c[i] = c[j] => i = j
    /\ \A i \in 1..n : m[c[i]].next = IF i = n THEN NoPage ELSE c[i + 1]

(* Keys ascend along the walk, no key is on a page twice, and only a root  *)
(* that was never split is empty.                                          *)
Ordered(m, n, c) ==
    \A i, j \in 1..n : i < j =>
        \A x \in EntriesOf(m[c[i]]) : \A y \in EntriesOf(m[c[j]]) : x.key < y.key

DistinctKeys(page) ==
    \A i, j \in DOMAIN page.entries : page.entries[i].key = page.entries[j].key => i = j

Leaves(m, n) == \A p \in 0..(n - 1) : /\ m[p].is_leaf /\ DistinctKeys(m[p])
                                      /\ n > 1 => m[p].entries # <<>>

Linked(m, n, c) == Chain(m, n, c) /\ Ordered(m, n, c) /\ Leaves(m, n)

(* Every key on the first pages is below k, or from a page on above it.    *)
Below(m, c, i, k)    == \A j \in 1..i : \A x \in EntriesOf(m[c[j]]) : x.key < k
Above(m, n, c, i, k) == \A j \in i..n : \A x \in EntriesOf(m[c[j]]) : k < x.key

(* How far a call has come: the key is on no page a search has left, and   *)
(* an insert is where its key belongs or before it, after a split one page *)
(* before it at most.                                                      *)
At(m, n, c, i, o) ==
    /\ o.page = c[i]
    /\ o.kind \in {"search", "find"} => \A j \in 1..(i - 1) : \A x \in EntriesOf(m[c[j]]) : x.key # o.key
    /\ o.kind \in {"insert", "walk", "split", "place"} =>
          /\ \A x \in Stored(m, n) : x.key # o.key
          /\ Below(m, c, i - 1, o.key)
    /\ o.kind = "split" => i < n /\ Above(m, n, c, i + 2, o.key)
    /\ o.kind = "place" => Above(m, n, c, i + 1, o.key)

CInv == \E c : /\ Linked(mem, next_page_id, c)
               /\ op # Idle => \E i \in 1..next_page_id : At(mem, next_page_id, c, i, op)
-----------------------------------------------------------------------------
(* The walk of LeavesOf: the pages met after each round.                   *)
Met(m, f) ==
    f = [n \in 0..MaxPages |->
           IF n = 0 THEN {Root}
           ELSE LET so_far == f[n-1]
                IN  so_far \cup {m[p].next : p \in {q \in so_far :
                                     m[q].is_leaf /\ m[q].next # NoPage}}]

(* There is such a walk. *)
LEMMA MetExists ==
    ASSUME NEW m \in [Pages -> Page]
    PROVE  \E f : Met(m, f)
<1> DEFINE More(S) == S \cup {m[p].next : p \in {q \in S : m[q].is_leaf /\ m[q].next # NoPage}}
           F == [S \in SUBSET Pages |-> More(S)]
<1>1. \A S \in SUBSET Pages : F[S] = More(S) /\ More(S) \in SUBSET Pages
  BY DEF Page
<1>2. {Root} \in SUBSET Pages /\ MaxPages \in Nat
  BY MaxPagesAssumption DEF Root, Pages
<1> HIDE DEF F
<1>3. PICK f : Repeats(MaxPages, {Root}, F, f)
  BY <1>2, RepeatExists
<1>4. \A n \in 0..MaxPages : f[n] \in SUBSET Pages
  <2>1. \A S \in SUBSET Pages : F[S] \in SUBSET Pages
    BY <1>1
  <2> HIDE DEF More
  <2> QED BY <1>2, <1>3, <2>1, RepeatTyped
<1>5. \A n \in 0..MaxPages : n # 0 => n - 1 \in 0..MaxPages
  BY <1>2
<1>6. \A n \in 0..MaxPages : n # 0 => F[f[n-1]] = More(f[n-1])
  <2> HIDE DEF More
  <2> QED BY <1>1, <1>4, <1>5
<1>7. f = [n \in 0..MaxPages |-> IF n = 0 THEN {Root} ELSE F[f[n-1]]]
  BY <1>3 DEF Repeats
<1>8. [n \in 0..MaxPages |-> IF n = 0 THEN {Root} ELSE F[f[n-1]]]
      = [n \in 0..MaxPages |-> IF n = 0 THEN {Root} ELSE More(f[n-1])]
  <2> HIDE DEF More
  <2> QED BY <1>6
<1>9. f = [n \in 0..MaxPages |-> IF n = 0 THEN {Root} ELSE More(f[n-1])]
  <2> HIDE DEF More
  <2> QED BY <1>7, <1>8
<1>10. Met(m, f)
  BY <1>9, Zenon DEF Met
<1> QED BY <1>10

(* Round by round. *)
LEMMA MetNext ==
    ASSUME NEW m, NEW f, Met(m, f)
    PROVE  /\ f[0] = {Root}
           /\ \A n \in 1..MaxPages :
                 /\ f[n-1] \subseteq f[n]
                 /\ \A p \in f[n-1] : m[p].is_leaf /\ m[p].next # NoPage => m[p].next \in f[n]
                 /\ \A p \in f[n] : \/ p \in f[n-1]
                                    \/ \E q \in f[n-1] : m[q].next # NoPage /\ p = m[q].next
<1>1. \A n \in 0..MaxPages : f[n] =
         IF n = 0 THEN {Root}
         ELSE f[n-1] \cup {m[p].next : p \in {q \in f[n-1] : m[q].is_leaf /\ m[q].next # NoPage}}
  BY DEF Met
<1>2. 0 \in 0..MaxPages /\ \A n \in 1..MaxPages : n \in 0..MaxPages /\ n # 0
  BY MaxPagesAssumption
<1>3. f[0] = {Root}
  BY <1>1, <1>2
<1>4. \A n \in 1..MaxPages :
        f[n] = f[n-1] \cup {m[p].next : p \in {q \in f[n-1] : m[q].is_leaf /\ m[q].next # NoPage}}
  BY <1>1, <1>2
<1> QED BY <1>3, <1>4

(* LeavesOf in these terms. *)
LEMMA LeavesAreMet ==
    ASSUME NEW m
    PROVE  LeavesOf(m) = {p \in (CHOOSE f : Met(m, f))[MaxPages] : m[p].is_leaf}
BY Zenon DEF LeavesOf, Met

(* The walk from the root meets every allocated page. *)
LEMMA EveryLeafMet ==
    ASSUME NEW m \in [Pages -> Page], NEW n \in 1..MaxPages, NEW c,
           Chain(m, n, c), Leaves(m, n)
    PROVE  LeavesOf(m) = 0..(n - 1)
<1> DEFINE f == CHOOSE f : Met(m, f)
<1>0. n \in Nat /\ n >= 1 /\ MaxPages \in Nat /\ n <= MaxPages /\ NoPage = -1
  BY MaxPagesAssumption DEF NoPage
<1>1. Met(m, f)
  <2>1. \E g : Met(m, g)
    BY MetExists
  <2> QED BY <2>1
<1> HIDE DEF f
<1> DEFINE G == {k \in 0..MaxPages : f[k] \subseteq 0..(n - 1)}
           H == {k \in 0..MaxPages : \A i \in 1..n : i <= k + 1 => c[i] \in f[k]}
<1>2. \A k \in 0..MaxPages : k \in G
  <2>1. 0 \in G
    BY <1>0, <1>1, MetNext DEF Root
  <2>2. ASSUME NEW k \in 1..MaxPages, k - 1 \in G PROVE k \in G
    <3>1. ASSUME NEW p \in f[k - 1], m[p].next # NoPage PROVE m[p].next \in 0..(n - 1)
      <4>1. p \in 0..(n - 1)
        BY <2>2, <3>1
      <4>2. PICK i \in 1..n : c[i] = p
        BY <4>1 DEF Chain
      <4>3. i # n /\ m[p].next = c[i + 1]
        BY <3>1, <4>2 DEF Chain
      <4>4. i + 1 \in 1..n
        BY <1>0, <4>3
      <4> QED BY <4>3, <4>4 DEF Chain
    <3>2. \A p \in f[k] : p \in f[k - 1] \/ \E q \in f[k - 1] : m[q].next # NoPage /\ p = m[q].next
      BY <1>1, MetNext
    <3>3. k \in 0..MaxPages
      OBVIOUS
    <3> QED BY <2>2, <3>1, <3>2, <3>3
  <2> HIDE DEF G
  <2> QED BY <1>0, <2>1, <2>2, FromTheStart
<1>3. \A k \in 0..MaxPages : k \in H
  <2>1. 0 \in H
    <3>1. c[1] = Root /\ f[0] = {Root}
      BY <1>1, MetNext DEF Chain
    <3>2. \A i \in 1..n : i <= 0 + 1 => i = 1
      OBVIOUS
    <3> QED BY <1>0, <3>1, <3>2
  <2>2. ASSUME NEW k \in 1..MaxPages, k - 1 \in H PROVE k \in H
    <3>1. ASSUME NEW i \in 1..n, i <= k + 1 PROVE c[i] \in f[k]
      <4>1. CASE i <= k
        <5>1. c[i] \in f[k - 1]
          BY <2>2, <4>1
        <5> QED BY <1>1, <5>1, MetNext
      <4>2. CASE ~(i <= k)
        <5>1. i = k + 1 /\ k \in 1..n /\ k # n /\ k <= (k - 1) + 1
          BY <1>0, <3>1, <4>2
        <5>2. c[k] \in f[k - 1]
          BY <2>2, <5>1
        <5>3. m[c[k]].next = c[i] /\ c[k] \in 0..(n - 1) /\ c[i] \in 0..(n - 1)
          BY <5>1 DEF Chain
        <5>4. m[c[k]].is_leaf /\ m[c[k]].next # NoPage
          BY <1>0, <5>3 DEF Leaves
        <5> QED BY <1>1, <5>2, <5>3, <5>4, MetNext
      <4> QED BY <4>1, <4>2
    <3>2. k \in 0..MaxPages
      OBVIOUS
    <3> QED BY <3>1, <3>2
  <2> HIDE DEF H
  <2> QED BY <1>0, <2>1, <2>2, FromTheStart
<1>4. f[MaxPages] = 0..(n - 1)
  <2>1. MaxPages \in G /\ MaxPages \in H /\ MaxPages \in 0..MaxPages
    BY <1>0, <1>2, <1>3
  <2>2. ASSUME NEW p \in 0..(n - 1) PROVE p \in f[MaxPages]
    <3>1. PICK i \in 1..n : c[i] = p
      BY DEF Chain
    <3>2. i <= MaxPages + 1
      BY <1>0
    <3> QED BY <2>1, <3>1, <3>2
  <2> QED BY <2>1, <2>2
<1>5. \A p \in 0..(n - 1) : m[p].is_leaf
  BY DEF Leaves
<1>6. LeavesOf(m) = {p \in f[MaxPages] : m[p].is_leaf}
  BY LeavesAreMet DEF f
<1> QED BY <1>4, <1>5, <1>6

(* What pages hold, with types. *)
LEMMA EntryTypes ==
    ASSUME NEW page \in Page
    PROVE  /\ \A x \in EntriesOf(page) : x \in Entry /\ x.key \in Int
           /\ \A k : k \in KeysAt(page) <=> \E x \in EntriesOf(page) : x.key = k
           /\ page.entries # <<>> => EntriesOf(page) # {}
<1>1. page.entries \in Seq(Entry)
  BY DEF Page
<1>2. \A i \in DOMAIN page.entries : page.entries[i] \in Entry
  BY <1>1, LenProperties, ElementOfSeq
<1>3. \A x \in Entry : x.key \in Int
  BY KeysAssumption DEF Entry
<1>4. page.entries # <<>> => DOMAIN page.entries # {}
  <2>1. page.entries # <<>> => Len(page.entries) # 0
    BY <1>1, EmptySeq
  <2>2. Len(page.entries) \in Nat /\ DOMAIN page.entries = 1..Len(page.entries)
    BY <1>1, LenProperties
  <2>3. page.entries # <<>> => 1 \in DOMAIN page.entries
    BY <2>1, <2>2
  <2> QED BY <2>3
<1> QED BY <1>2, <1>3, <1>4 DEF EntriesOf, KeysAt

(* What is stored is on some page of the walk. *)
LEMMA StoredOn ==
    ASSUME NEW m \in [Pages -> Page], NEW n \in 1..MaxPages, NEW c, Chain(m, n, c)
    PROVE  /\ \A i \in 1..n : \A x \in EntriesOf(m[c[i]]) : x \in Stored(m, n)
           /\ \A x \in Stored(m, n) : \E i \in 1..n : x \in EntriesOf(m[c[i]])
           /\ \A p \in 0..(n - 1) : p \in Pages
           /\ \A i \in 1..n : c[i] \in Pages
<1>1. \A p \in 0..(n - 1) : p \in Pages
  BY MaxPagesAssumption DEF Pages
<1>2. \A i \in 1..n : c[i] \in 0..(n - 1)
  BY DEF Chain
<1>3. \A i \in 1..n : \A x \in EntriesOf(m[c[i]]) : x \in Entry
  BY <1>1, <1>2, EntryTypes
<1>4. \A x \in Stored(m, n) : \E i \in 1..n : x \in EntriesOf(m[c[i]])
  BY DEF Stored, Chain
<1> QED BY <1>1, <1>2, <1>3, <1>4 DEF Stored

(* No key is stored twice, and none with two values. *)
LEMMA KeysAreUnique ==
    ASSUME NEW m \in [Pages -> Page], NEW n \in 1..MaxPages, NEW c, Linked(m, n, c)
    PROVE  /\ \A x \in Stored(m, n) : \A y \in Stored(m, n) : x.key = y.key => x = y
           /\ \A i, j \in 1..n : \A x \in EntriesOf(m[c[i]]) : \A y \in EntriesOf(m[c[j]]) :
                 x.key = y.key => i = j /\ x = y
<1> USE DEF Linked
<1>1. ASSUME NEW i \in 1..n, NEW j \in 1..n, NEW x \in EntriesOf(m[c[i]]),
             NEW y \in EntriesOf(m[c[j]]), x.key = y.key
      PROVE  i = j /\ x = y
  <2>1. x.key \in Int /\ y.key \in Int
    BY StoredOn, EntryTypes
  <2>2. ~(i < j) /\ ~(j < i)
    BY <1>1, <2>1 DEF Ordered
  <2>3. i = j
    BY <2>2
  <2>4. c[i] \in 0..(n - 1)
    BY DEF Chain
  <2>5. DistinctKeys(m[c[i]])
    BY <2>4 DEF Leaves
  <2>6. x = y
    BY <1>1, <2>3, <2>5 DEF DistinctKeys, EntriesOf
  <2> QED BY <2>3, <2>6
<1>2. ASSUME NEW x \in Stored(m, n), NEW y \in Stored(m, n), x.key = y.key
      PROVE  x = y
  <2>1. PICK i \in 1..n : x \in EntriesOf(m[c[i]])
    BY StoredOn
  <2>2. PICK j \in 1..n : y \in EntriesOf(m[c[j]])
    BY StoredOn
  <2> QED BY <1>1, <1>2, <2>1, <2>2
<1> QED BY <1>1, <1>2

(* A search of the map finds what is stored.                               *)
MapHolds ==
    /\ \A x \in Stored(mem, next_page_id) : Lookup(x.key) = x.val
    /\ \A k : (\A x \in Stored(mem, next_page_id) : x.key # k) => Lookup(k) = NoValue
    /\ \A x \in Stored(mem, next_page_id) : x.val \in Values /\ x.key \in Keys

(* It does in a tree whose leaves are linked. *)
LEMMA LookupFinds ==
    ASSUME mem \in [Pages -> Page], next_page_id \in 1..MaxPages,
           NEW c, Linked(mem, next_page_id, c)
    PROVE  MapHolds
<1> DEFINE n == next_page_id
<1>1. LeavesOf(mem) = 0..(n - 1)
  BY EveryLeafMet DEF Linked
<1>2. \A p \in 0..(n - 1) : mem[p] \in Page
  BY StoredOn DEF Linked
<1>3. \A p \in 0..(n - 1) : \A x \in EntriesOf(mem[p]) : x \in Stored(mem, n)
  BY <1>2, EntryTypes DEF Stored
<1>4. \A x \in Stored(mem, n) : \E p \in 0..(n - 1) : x \in EntriesOf(mem[p])
  BY DEF Stored
<1>5. \A k : (\E p \in LeavesOf(mem) : k \in KeysAt(mem[p]))
             <=> \E x \in Stored(mem, n) : x.key = k
  <2>1. \A k : \A p \in 0..(n - 1) :
           k \in KeysAt(mem[p]) <=> \E x \in EntriesOf(mem[p]) : x.key = k
    BY <1>2, EntryTypes
  <2> QED BY <1>1, <1>3, <1>4, <2>1
<1>6. \A k : (\A x \in Stored(mem, n) : x.key # k) => Lookup(k) = NoValue
  BY <1>5 DEF Lookup
<1>7. ASSUME NEW x \in Stored(mem, n) PROVE Lookup(x.key) = x.val
  <2> DEFINE k == x.key
             p == CHOOSE p \in LeavesOf(mem) : k \in KeysAt(mem[p])
             i == CHOOSE i \in DOMAIN mem[p].entries : mem[p].entries[i].key = k
  <2>1. \E q \in LeavesOf(mem) : k \in KeysAt(mem[q])
    BY <1>5
  <2>2. p \in LeavesOf(mem) /\ k \in KeysAt(mem[p])
    BY <2>1
  <2>3. Lookup(k) = mem[p].entries[i].val
    BY <2>1 DEF Lookup
  <2> HIDE DEF p
  <2>4. \E j \in DOMAIN mem[p].entries : mem[p].entries[j].key = k
    BY <2>2 DEF KeysAt
  <2>5. i \in DOMAIN mem[p].entries /\ mem[p].entries[i].key = k
    BY <2>4
  <2> HIDE DEF i
  <2>6. mem[p].entries[i] \in EntriesOf(mem[p])
    BY <2>5 DEF EntriesOf
  <2>7. mem[p].entries[i] \in Stored(mem, n)
    BY <1>1, <1>3, <2>2, <2>6
  <2>8. mem[p].entries[i] = x
    BY <2>5, <2>7, KeysAreUnique
  <2> QED BY <2>3, <2>8
<1>8. \A x \in Stored(mem, n) : x.val \in Values /\ x.key \in Keys
  BY DEF Stored, Entry
<1> QED BY <1>6, <1>7, <1>8 DEF MapHolds

(* Pages that agree with those of a chain but for one. *)
OneChanged(m, m2, n, at, page) ==
    /\ m2[at] = page
    /\ \A p \in 0..(n - 1) : p # at => m2[p] = m[p]

(* A page on the walk is changed, its keys staying between its neighbours. *)
LEMMA ChangedStaysLinked ==
    ASSUME NEW m \in [Pages -> Page], NEW n \in 1..MaxPages, NEW c, Linked(m, n, c),
           NEW i \in 1..n, NEW page, page.is_leaf, page.next = m[c[i]].next,
           DistinctKeys(page), page.entries # <<>>,
           \A x \in EntriesOf(page) : Below(m, c, i - 1, x.key) /\ Above(m, n, c, i + 1, x.key),
           NEW m2, OneChanged(m, m2, n, c[i], page)
    PROVE  Linked(m2, n, c)
<1> USE DEF Linked
<1>0. n \in Nat /\ i \in Nat
  BY MaxPagesAssumption
<1>1. \A j \in 1..n : c[j] \in 0..(n - 1) /\ (c[j] = c[i] => j = i)
  BY DEF Chain
<1>2. m2[c[i]] = page /\ \A j \in 1..n : j # i => m2[c[j]] = m[c[j]]
  BY <1>1 DEF OneChanged
<1>3. Chain(m2, n, c)
  <2>1. \A j \in 1..n : m2[c[j]].next = m[c[j]].next
    BY <1>2
  <2> QED BY <2>1 DEF Chain
<1>4. Leaves(m2, n)
  BY DEF Leaves, OneChanged
<1>5. Ordered(m2, n, c)
  <2> SUFFICES ASSUME NEW a \in 1..n, NEW b \in 1..n, a < b,
                      NEW x \in EntriesOf(m2[c[a]]), NEW y \in EntriesOf(m2[c[b]])
               PROVE  x.key < y.key
    BY DEF Ordered
  <2>1. CASE a = i
    <3>1. x \in EntriesOf(page) /\ b \in (i + 1)..n /\ y \in EntriesOf(m[c[b]])
      BY <1>0, <1>2, <2>1
    <3> QED BY <3>1 DEF Above
  <2>2. CASE b = i
    <3>1. y \in EntriesOf(page) /\ a \in 1..(i - 1) /\ x \in EntriesOf(m[c[a]])
      BY <1>0, <1>2, <2>2
    <3> QED BY <3>1 DEF Below
  <2>3. CASE a # i /\ b # i
    <3>1. x \in EntriesOf(m[c[a]]) /\ y \in EntriesOf(m[c[b]])
      BY <1>2, <2>3
    <3> QED BY <3>1 DEF Ordered
  <2> QED BY <2>1, <2>2, <2>3
<1> QED BY <1>3, <1>4, <1>5

(* What is stored then. *)
LEMMA ChangedStores ==
    ASSUME NEW m \in [Pages -> Page], NEW m2 \in [Pages -> Page], NEW n \in 1..MaxPages,
           NEW c, Linked(m, n, c), NEW i \in 1..n, NEW page,
           OneChanged(m, m2, n, c[i], page)
    PROVE  \A x : x \in Stored(m2, n) <=> \/ x \in EntriesOf(page)
                                          \/ x \in Stored(m, n) /\ x \notin EntriesOf(m[c[i]])
<1>0. c[i] \in 0..(n - 1) /\ Chain(m, n, c)
  BY DEF Linked, Chain
<1>1. \A p \in 0..(n - 1) : m2[p] \in Page /\ m[p] \in Page
  BY <1>0, StoredOn
<1>2. \A p \in 0..(n - 1) : /\ \A x \in EntriesOf(m2[p]) : x \in Entry
                            /\ \A x \in EntriesOf(m[p]) : x \in Entry
  BY <1>1, EntryTypes
<1>3. ASSUME NEW x \in Stored(m, n), x \notin EntriesOf(m[c[i]]) PROVE x \in Stored(m2, n)
  BY <1>3 DEF Stored, OneChanged
<1>4. ASSUME NEW x \in EntriesOf(page) PROVE x \in Stored(m2, n)
  BY <1>0, <1>2, <1>4 DEF Stored, OneChanged
<1>5. ASSUME NEW x \in Stored(m2, n), x \notin EntriesOf(page)
      PROVE  x \in Stored(m, n) /\ x \notin EntriesOf(m[c[i]])
  <2>1. PICK p \in 0..(n - 1) : x \in EntriesOf(m2[p])
    BY DEF Stored
  <2>2. p # c[i] /\ x \in EntriesOf(m[p])
    BY <1>5, <2>1 DEF OneChanged
  <2>3. PICK j \in 1..n : c[j] = p
    BY DEF Linked, Chain
  <2>4. x \notin EntriesOf(m[c[i]])
    BY <2>2, <2>3, KeysAreUnique
  <2> QED BY <1>2, <2>2, <2>4 DEF Stored
<1> QED BY <1>3, <1>4, <1>5

(* The two halves of a full leaf: what one holds the other does not, and   *)
(* the keys of the left one are smaller.                                   *)
Halved(page, l, r) ==
    /\ DistinctKeys(l) /\ DistinctKeys(r) /\ l.entries # <<>> /\ r.entries # <<>>
    /\ EntriesOf(page) = EntriesOf(l) \cup EntriesOf(r)
    /\ \A x \in EntriesOf(l) : \A y \in EntriesOf(r) : x.key < y.key

(* A split halves a leaf. *)
LEMMA SplitHalves ==
    ASSUME NEW page, NEW new \in Pages, GoodPage(page), IsFull(page), DistinctKeys(page)
    PROVE  /\ Halved(page, LeftHalf(page, new), RightHalf(page, new))
           /\ LeftHalf(page, new).is_leaf = page.is_leaf /\ RightHalf(page, new).is_leaf
           /\ LeftHalf(page, new).next = new /\ RightHalf(page, new).next = page.next
<1> DEFINE s == page.entries
           n == Len(s)
           half == n \div 2
           left  == SubSeq(s, 1, half)
           right == SubSeq(s, half + 1, n)
           l == LeftHalf(page, new)
           r == RightHalf(page, new)
<1>1. page \in Page /\ s \in Seq(Entry) /\ Ascends(s)
  BY DEF GoodPage, Page
<1>2. n \in Nat /\ n >= 2 /\ DOMAIN s = 1..n /\ \A i \in 1..n : s[i].key \in Int
  <2>1. n \in Nat /\ DOMAIN s = 1..n /\ \A i \in 1..n : s[i].key \in Int
    BY <1>1, KeysAreIntegers, LenProperties
  <2> QED BY <2>1, MaxEntriesAssumption DEF IsFull
<1>3. half \in 1..(n - 1)
  <2>1. \A k \in Nat : k >= 2 => k \div 2 \in 1..(k - 1)
    OBVIOUS
  <2> QED BY <1>2, <2>1
<1>4. /\ l.entries = left /\ r.entries = right /\ l.is_leaf = page.is_leaf /\ r.is_leaf
      /\ l.next = new /\ r.next = page.next
  <2>1. page = [is_leaf |-> page.is_leaf, entries |-> page.entries, next |-> page.next]
    BY <1>1 DEF Page
  <2> HIDE DEF s, n
  <2> QED BY <2>1 DEF LeftHalf, RightHalf, Middle, s, n
<1> HIDE DEF half, l, r
<1>5. left \in Seq(Entry) /\ Len(left) = half /\ \A i \in 1..half : left[i] = s[i]
  <2>1. 1 \in 1..(n + 1) /\ half \in 0..n /\ 1 <= half + 1
    BY <1>2, <1>3
  <2>2. left \in Seq(Entry) /\ Len(left) = half - 1 + 1
        /\ \A i \in 1..(half - 1 + 1) : left[i] = s[1 + i - 1]
    BY <1>1, <2>1, PartAscends
  <2> QED BY <1>3, <2>2
<1>6. /\ right \in Seq(Entry) /\ Len(right) = n - half
      /\ \A i \in 1..(n - half) : right[i] = s[half + i]
  <2>1. half + 1 \in 1..(n + 1) /\ n \in 0..n /\ half + 1 <= n + 1
    BY <1>2, <1>3
  <2>2. right \in Seq(Entry) /\ Len(right) = n - (half + 1) + 1
        /\ \A i \in 1..(n - (half + 1) + 1) : right[i] = s[half + 1 + i - 1]
    BY <1>1, <2>1, PartAscends
  <2>3. n - (half + 1) + 1 = n - half /\ \A i \in 1..(n - half) : half + 1 + i - 1 = half + i
    BY <1>2, <1>3
  <2> QED BY <2>2, <2>3
<1> HIDE DEF left, right
<1>7. DOMAIN left = 1..half /\ DOMAIN right = 1..(n - half)
  BY <1>5, <1>6, LenProperties
<1> HIDE DEF n
<1>8. \A i, j \in 1..n : s[i].key = s[j].key => i = j
  BY <1>2 DEF DistinctKeys
<1>9. DistinctKeys(l) /\ DistinctKeys(r)
  <2>1. \A i, j \in 1..half : left[i].key = left[j].key => i = j
    <3>1. \A i \in 1..half : i \in 1..n
      BY <1>2, <1>3
    <3> QED BY <1>5, <1>8, <3>1
  <2>2. ASSUME NEW i \in 1..(n - half), NEW j \in 1..(n - half), right[i].key = right[j].key
        PROVE  i = j
    <3>1. half + i \in 1..n /\ half + j \in 1..n
      BY <1>2, <1>3
    <3>2. half + i = half + j
      BY <1>6, <1>8, <2>2, <3>1
    <3> QED BY <1>3, <3>2
  <2> QED BY <1>4, <1>7, <2>1, <2>2 DEF DistinctKeys
<1>10. l.entries # <<>> /\ r.entries # <<>>
  <2>1. Len(<<>>) = 0 /\ half # 0 /\ n - half # 0
    BY <1>2, <1>3
  <2> QED BY <1>4, <1>5, <1>6, <2>1
<1>11. EntriesOf(page) = EntriesOf(l) \cup EntriesOf(r)
  <2>1. ASSUME NEW i \in 1..n PROVE s[i] \in EntriesOf(l) \cup EntriesOf(r)
    <3>1. CASE i <= half
      BY <1>3, <1>4, <1>5, <1>7, <3>1 DEF EntriesOf
    <3>2. CASE ~(i <= half)
      <4>1. i - half \in 1..(n - half) /\ half + (i - half) = i
        BY <1>2, <1>3, <3>2
      <4>2. right[i - half] = s[i]
        BY <1>6, <4>1
      <4> QED BY <1>4, <1>7, <4>1, <4>2 DEF EntriesOf
    <3> QED BY <3>1, <3>2
  <2>2. \A i \in 1..half : left[i] \in EntriesOf(page)
    <3>1. \A i \in 1..half : i \in 1..n
      BY <1>2, <1>3
    <3> QED BY <1>2, <1>5, <3>1 DEF EntriesOf
  <2>3. \A i \in 1..(n - half) : right[i] \in EntriesOf(page)
    <3>1. \A i \in 1..(n - half) : half + i \in 1..n
      BY <1>2, <1>3
    <3> QED BY <1>2, <1>6, <3>1 DEF EntriesOf
  <2>4. \A x \in EntriesOf(page) : x \in EntriesOf(l) \cup EntriesOf(r)
    BY <1>2, <2>1 DEF EntriesOf
  <2>5. \A x \in EntriesOf(l) : x \in EntriesOf(page)
    BY <1>4, <1>7, <2>2 DEF EntriesOf
  <2>6. \A x \in EntriesOf(r) : x \in EntriesOf(page)
    BY <1>4, <1>7, <2>3 DEF EntriesOf
  <2> QED BY <2>4, <2>5, <2>6
<1>12. ASSUME NEW x \in EntriesOf(l), NEW y \in EntriesOf(r) PROVE x.key < y.key
  <2>1. PICK i \in 1..half : x = left[i]
    BY <1>4, <1>7 DEF EntriesOf
  <2>2. PICK j \in 1..(n - half) : y = right[j]
    BY <1>4, <1>7 DEF EntriesOf
  <2>3. i \in 1..n /\ half + j \in 1..n /\ i < half + j
    BY <1>2, <1>3
  <2>4. x = s[i] /\ y = s[half + j]
    BY <1>5, <1>6, <2>1, <2>2
  <2>5. s[i].key <= s[half + j].key
    BY <1>1, <2>3 DEF Ascends, n
  <2>6. s[i].key # s[half + j].key
    BY <1>8, <2>3
  <2>7. s[i].key \in Int /\ s[half + j].key \in Int
    BY <1>2, <2>3
  <2> QED BY <2>4, <2>5, <2>6, <2>7
<1>13. Halved(page, l, r)
  BY <1>9, <1>10, <1>11, <1>12 DEF Halved
<1> QED BY <1>4, <1>13 DEF l, r

(* The chain with a page more, behind the one at i.                        *)
Longer(c, n, i) ==
    [j \in 1..(n + 1) |-> IF j <= i THEN c[j] ELSE IF j = i + 1 THEN n ELSE c[j - 1]]

SplitAt(m, m2, n, at, l, r) ==
    /\ m2[at] = l /\ m2[n] = r
    /\ \A p \in 0..(n - 1) : p # at => m2[p] = m[p]
    /\ l.is_leaf /\ l.next = n /\ r.is_leaf /\ r.next = m[at].next
    /\ Halved(m[at], l, r)

(* The chain d after a split of the page at i in the chain c. *)
ChainAfterSplit(m, m2, n, c, i, d) ==
    /\ Linked(m2, n + 1, d)
    /\ d[i] = c[i]
    /\ \A j \in 1..(i - 1) : m2[d[j]] = m[c[j]]
    /\ \A j \in (i + 2)..(n + 1) : m2[d[j]] = m[c[j - 1]]

(* A split makes the chain longer, and what the others hold stays. *)
LEMMA SplitStaysLinked ==
    ASSUME NEW m \in [Pages -> Page], NEW n \in 1..MaxPages, NEW c, Linked(m, n, c),
           NEW i \in 1..n, NEW m2, NEW l, NEW r, SplitAt(m, m2, n, c[i], l, r)
    PROVE  ChainAfterSplit(m, m2, n, c, i, Longer(c, n, i))
<1> USE DEF Linked
<1> DEFINE d == Longer(c, n, i)
<1>0. n \in Nat /\ i \in Nat /\ n >= 1 /\ i >= 1 /\ i <= n /\ NoPage = -1
  BY MaxPagesAssumption DEF NoPage
<1>1. \A j \in 1..n : c[j] \in 0..(n - 1) /\ (c[j] = c[i] => j = i)
  BY DEF Chain
<1>2. /\ \A j \in 1..i : d[j] = c[j]
      /\ d[i + 1] = n
      /\ \A j \in (i + 2)..(n + 1) : d[j] = c[j - 1]
  BY <1>0 DEF Longer
<1> HIDE DEF d
<1>3. /\ \A j \in 1..(i - 1) : j \in 1..n /\ j \in 1..i /\ j # i /\ d[j] = c[j]
      /\ i \in 1..n /\ i \in 1..i /\ i + 1 \in 1..(n + 1)
      /\ \A j \in (i + 2)..(n + 1) : j - 1 \in 1..n /\ j - 1 # i /\ j - 1 > i
      /\ \A j \in 1..(n + 1) : j \in 1..(i - 1) \/ j = i \/ j = i + 1 \/ j \in (i + 2)..(n + 1)
  BY <1>0, <1>2
<1>4. /\ \A j \in 1..(i - 1) : m2[d[j]] = m[c[j]]
      /\ m2[d[i]] = l /\ m2[d[i + 1]] = r
      /\ \A j \in (i + 2)..(n + 1) : m2[d[j]] = m[c[j - 1]]
  BY <1>1, <1>2, <1>3 DEF SplitAt
<1>5. Chain(m2, n + 1, d)
  <2>1. d[1] = Root
    BY <1>0, <1>2 DEF Chain
  <2>2. \A j \in 1..(n + 1) : d[j] \in 0..n
    <3>1. \A j \in 1..n : c[j] \in 0..n
      BY <1>0, <1>1
    <3>2. n \in 0..n
      BY <1>0
    <3> QED BY <1>2, <1>3, <3>1, <3>2
  <2>3. ASSUME NEW p \in 0..n PROVE \E j \in 1..(n + 1) : d[j] = p
    <3>1. CASE p = n
      BY <1>2, <1>3, <3>1
    <3>2. CASE p # n
      <4>1. p \in 0..(n - 1)
        BY <1>0, <3>2
      <4>2. PICK j \in 1..n : c[j] = p
        BY <4>1 DEF Chain
      <4>3. CASE j <= i
        <5>1. j \in 1..i /\ j \in 1..(n + 1)
          BY <1>0, <4>3
        <5> QED BY <1>2, <4>2, <5>1
      <4>4. CASE ~(j <= i)
        <5>1. j + 1 \in (i + 2)..(n + 1) /\ j + 1 \in 1..(n + 1) /\ (j + 1) - 1 = j
          BY <1>0, <4>4
        <5> QED BY <1>2, <4>2, <5>1
      <4> QED BY <4>3, <4>4
    <3> QED BY <3>1, <3>2
  <2>4. ASSUME NEW a \in 1..(n + 1), NEW b \in 1..(n + 1), d[a] = d[b] PROVE a = b
    <3> DEFINE back(j) == IF j <= i THEN j ELSE j - 1
    <3>1. \A j \in 1..(n + 1) : IF j = i + 1 THEN d[j] = n
                                ELSE /\ d[j] = c[back(j)] /\ back(j) \in 1..n
                                     /\ d[j] # n
      <4>1. \A j \in 1..n : c[j] # n
        BY <1>0, <1>1
      <4> TAKE j \in 1..(n + 1)
      <4>2. CASE j <= i
        <5>1. j \in 1..i /\ j \in 1..n /\ j # i + 1
          BY <1>0, <4>2
        <5> QED BY <1>2, <4>1, <4>2, <5>1
      <4>3. CASE j = i + 1
        BY <1>2, <4>3
      <4>4. CASE ~(j <= i) /\ j # i + 1
        <5>1. j \in (i + 2)..(n + 1)
          BY <1>0, <4>4
        <5> QED BY <1>2, <1>3, <4>1, <4>4, <5>1
      <4> QED BY <4>2, <4>3, <4>4
    <3>2. CASE a = i + 1 \/ b = i + 1
      BY <2>4, <3>1, <3>2
    <3>3. CASE a # i + 1 /\ b # i + 1
      <4>1. back(a) = back(b)
        <5>1. c[back(a)] = c[back(b)] /\ back(a) \in 1..n /\ back(b) \in 1..n
          BY <2>4, <3>1, <3>3
        <5> HIDE DEF back
        <5> QED BY <5>1 DEF Chain
      <4> QED BY <1>0, <3>3, <4>1
    <3> QED BY <3>2, <3>3
  <2>5. \A j \in 1..(n + 1) : m2[d[j]].next = IF j = n + 1 THEN NoPage ELSE d[j + 1]
    <3>0. \A j \in 1..n : m[c[j]].next = IF j = n THEN NoPage ELSE c[j + 1]
      BY DEF Chain
    <3> TAKE j \in 1..(n + 1)
    <3>1. CASE j \in 1..(i - 1)
      <4>1. j # n /\ j # n + 1 /\ j + 1 \in 1..i /\ j \in 1..n
        BY <1>0, <3>1
      <4> QED BY <1>2, <1>4, <3>0, <3>1, <4>1
    <3>2. CASE j = i
      <4>1. l.next = n /\ j # n + 1
        BY <1>0, <3>2 DEF SplitAt
      <4> QED BY <1>2, <1>4, <3>2, <4>1
    <3>3. CASE j = i + 1
      <4>1. r.next = m[c[i]].next /\ m[c[i]].next = IF i = n THEN NoPage ELSE c[i + 1]
        BY <3>0 DEF SplitAt
      <4>2. CASE i = n
        BY <1>4, <3>3, <4>1, <4>2
      <4>3. CASE i # n
        <5>1. j + 1 \in (i + 2)..(n + 1) /\ (j + 1) - 1 = i + 1 /\ j # n + 1
          BY <1>0, <3>3, <4>3
        <5> QED BY <1>2, <1>4, <3>3, <4>1, <4>3, <5>1
      <4> QED BY <4>2, <4>3
    <3>4. CASE j \in (i + 2)..(n + 1)
      <4>1. m2[d[j]].next = IF j - 1 = n THEN NoPage ELSE c[(j - 1) + 1]
        BY <1>3, <1>4, <3>0, <3>4
      <4>2. CASE j = n + 1
        <5>1. j - 1 = n
          BY <1>0, <4>2
        <5> QED BY <4>1, <4>2, <5>1
      <4>3. CASE j # n + 1
        <5>1. j + 1 \in (i + 2)..(n + 1) /\ (j + 1) - 1 = (j - 1) + 1 /\ j - 1 # n
          BY <1>0, <3>4, <4>3
        <5> QED BY <1>2, <4>1, <4>3, <5>1
      <4> QED BY <4>2, <4>3
    <3> QED BY <1>3, <3>1, <3>2, <3>3, <3>4
  <2>6. (n + 1) - 1 = n
    BY <1>0
  <2> QED BY <2>1, <2>2, <2>3, <2>4, <2>5, <2>6 DEF Chain
<1>6. Leaves(m2, n + 1)
  <2>1. \A p \in 0..(n - 1) : p # c[i] => m[p].entries # <<>>
    <3>1. n = 1 => \A p \in 0..(n - 1) : p = 0 /\ c[i] \in 0..(n - 1) /\ c[i] = 0
      BY <1>1
    <3>2. n # 1 => n > 1
      BY <1>0
    <3> QED BY <3>1, <3>2 DEF Leaves
  <2>2. \A p \in 0..n : p = n \/ p \in 0..(n - 1)
    BY <1>0
  <2>3. \A p \in 0..n : m2[p].is_leaf /\ DistinctKeys(m2[p]) /\ m2[p].entries # <<>>
    <3>1. l.is_leaf /\ DistinctKeys(l) /\ l.entries # <<>>
      BY DEF SplitAt, Halved
    <3>2. r.is_leaf /\ DistinctKeys(r) /\ r.entries # <<>>
      BY DEF SplitAt, Halved
    <3>3. \A p \in 0..(n - 1) : m[p].is_leaf /\ DistinctKeys(m[p])
      BY DEF Leaves
    <3> QED BY <2>1, <2>2, <3>1, <3>2, <3>3 DEF SplitAt
  <2>4. (n + 1) - 1 = n
    BY <1>0
  <2> QED BY <2>3, <2>4 DEF Leaves
<1>7. Ordered(m2, n + 1, d)
  <2> DEFINE back(j) == IF j <= i THEN j ELSE j - 1
  <2>0. /\ \A x \in EntriesOf(l) : x \in EntriesOf(m[c[i]])
        /\ \A x \in EntriesOf(r) : x \in EntriesOf(m[c[i]])
        /\ \A x \in EntriesOf(l) : \A y \in EntriesOf(r) : x.key < y.key
    BY DEF SplitAt, Halved
  <2>1. \A j \in 1..(n + 1) : /\ back(j) \in 1..n
                              /\ \A x \in EntriesOf(m2[d[j]]) : x \in EntriesOf(m[c[back(j)]])
    <3> TAKE j \in 1..(n + 1)
    <3>1. CASE j \in 1..(i - 1)
      <4>1. back(j) = j /\ j \in 1..n
        BY <1>3, <3>1
      <4> QED BY <1>4, <3>1, <4>1
    <3>2. CASE j = i
      BY <1>4, <2>0, <3>2
    <3>3. CASE j = i + 1
      <4>1. back(j) = i
        BY <1>0, <3>3
      <4> QED BY <1>4, <2>0, <3>3, <4>1
    <3>4. CASE j \in (i + 2)..(n + 1)
      <4>1. back(j) = j - 1 /\ j - 1 \in 1..n
        BY <1>0, <3>4
      <4> QED BY <1>4, <3>4, <4>1
    <3> QED BY <1>3, <3>1, <3>2, <3>3, <3>4
  <2> SUFFICES ASSUME NEW a \in 1..(n + 1), NEW b \in 1..(n + 1), a < b,
                      NEW x \in EntriesOf(m2[d[a]]), NEW y \in EntriesOf(m2[d[b]])
               PROVE  x.key < y.key
    BY DEF Ordered
  <2>2. CASE a = i /\ b = i + 1
    BY <1>4, <2>0, <2>2
  <2>3. CASE ~(a = i /\ b = i + 1)
    <3>1. back(a) < back(b)
      BY <1>0, <2>3
    <3>2. back(a) \in 1..n /\ back(b) \in 1..n
          /\ x \in EntriesOf(m[c[back(a)]]) /\ y \in EntriesOf(m[c[back(b)]])
      BY <2>1
    <3> HIDE DEF back
    <3> QED BY <3>1, <3>2 DEF Ordered
  <2> QED BY <2>2, <2>3
<1>8. Linked(m2, n + 1, d)
  BY <1>5, <1>6, <1>7
<1>9. d[i] = c[i]
  BY <1>2, <1>3
<1> QED BY <1>4, <1>8, <1>9 DEF d, ChainAfterSplit

(* A split stores what was stored. *)
LEMMA SplitStores ==
    ASSUME NEW m \in [Pages -> Page], NEW m2 \in [Pages -> Page], NEW n \in 1..MaxPages,
           NEW at \in 0..(n - 1), NEW l, NEW r, SplitAt(m, m2, n, at, l, r)
    PROVE  Stored(m2, n + 1) = Stored(m, n)
<1>0. n \in Nat /\ (n + 1) - 1 = n /\ \A p \in 0..n : p = n \/ p \in 0..(n - 1)
  BY MaxPagesAssumption
<1>1. \A x \in Entry : (\E p \in 0..n : x \in EntriesOf(m2[p]))
                       <=> \E p \in 0..(n - 1) : x \in EntriesOf(m[p])
  <2> TAKE x \in Entry
  <2>1. EntriesOf(m[at]) = EntriesOf(l) \cup EntriesOf(r)
    BY DEF SplitAt, Halved
  <2>2. ASSUME NEW p \in 0..n, x \in EntriesOf(m2[p])
        PROVE  \E q \in 0..(n - 1) : x \in EntriesOf(m[q])
    <3>1. p = n \/ p = at \/ (p \in 0..(n - 1) /\ p # at)
      BY <1>0
    <3> QED BY <2>1, <2>2, <3>1 DEF SplitAt
  <2>3. ASSUME NEW q \in 0..(n - 1), x \in EntriesOf(m[q])
        PROVE  \E p \in 0..n : x \in EntriesOf(m2[p])
    <3>1. q \in 0..n /\ n \in 0..n /\ at \in 0..n
      BY <1>0
    <3>2. CASE q = at
      <4>1. x \in EntriesOf(m2[at]) \/ x \in EntriesOf(m2[n])
        BY <2>1, <2>3, <3>2 DEF SplitAt
      <4> QED BY <3>1, <4>1
    <3>3. CASE q # at
      BY <2>3, <3>1, <3>3 DEF SplitAt
    <3> QED BY <3>2, <3>3
  <2> QED BY <2>2, <2>3
<1> QED BY <1>0, <1>1 DEF Stored

(* A leaf after InsertPlace, and after UpdateReturns.                      *)
WithEntry(page, e)    == [page EXCEPT !.entries = InsertSorted(@, e)]
WithValue(page, i, v) == [page EXCEPT !.entries[i].val = v]

(* An entry more in a leaf: what it holds, each key once. *)
LEMMA InsertedHolds ==
    ASSUME NEW e \in Entry, NEW page \in Page, Ascends(page.entries), DistinctKeys(page),
           \A x \in EntriesOf(page) : x.key # e.key,
           NEW more, more = WithEntry(page, e)
    PROVE  /\ more.is_leaf = page.is_leaf /\ more.next = page.next
           /\ more.entries # <<>> /\ DistinctKeys(more)
           /\ EntriesOf(more) = EntriesOf(page) \cup {e}
<1> DEFINE s == page.entries
           n == Len(s)
           t == InsertSorted(s, e)
<1>1. s \in Seq(Entry) /\ n \in Nat /\ DOMAIN s = 1..n
  BY KeysAreIntegers, LenProperties DEF Page
<1>2. more.is_leaf = page.is_leaf /\ more.next = page.next /\ more.entries = t
  <2>1. page = [is_leaf |-> page.is_leaf, entries |-> page.entries, next |-> page.next]
    BY DEF Page
  <2> QED BY <2>1 DEF WithEntry
<1>3. t \in Seq(Entry) /\ Len(t) = n + 1
      /\ \E i \in 1..(n + 1) : \A j \in 1..(n + 1) :
           t[j] = IF j < i THEN s[j] ELSE IF j = i THEN e ELSE s[j - 1]
  BY <1>1, InsertedAscends
<1>4. PICK i \in 1..(n + 1) : \A j \in 1..(n + 1) :
         t[j] = IF j < i THEN s[j] ELSE IF j = i THEN e ELSE s[j - 1]
  BY <1>3
<1>5. DOMAIN t = 1..(n + 1)
  BY <1>3, LenProperties
<1> HIDE DEF t, n
<1>6. t # <<>>
  <2>1. Len(<<>>) = 0 /\ n + 1 # 0
    BY <1>1
  <2> QED BY <1>3, <2>1
<1> DEFINE back(j) == IF j < i THEN j ELSE j - 1
<1>7. \A j \in 1..(n + 1) : j # i => back(j) \in 1..n /\ t[j] = s[back(j)]
  BY <1>1, <1>4
<1>8. \A j \in 1..n : s[j].key # e.key
  BY <1>1 DEF EntriesOf
<1>9. ASSUME NEW a \in 1..(n + 1), NEW b \in 1..(n + 1), t[a].key = t[b].key
      PROVE  a = b
  <2>1. t[i] = e
    BY <1>4
  <2>2. CASE a = i \/ b = i
    BY <1>7, <1>8, <1>9, <2>1, <2>2
  <2>3. CASE a # i /\ b # i
    <3>1. back(a) \in 1..n /\ back(b) \in 1..n /\ s[back(a)].key = s[back(b)].key
      BY <1>7, <1>9, <2>3
    <3>2. back(a) = back(b)
      <4> HIDE DEF back
      <4> QED BY <1>1, <3>1 DEF DistinctKeys
    <3> QED BY <1>1, <2>3, <3>2
  <2> QED BY <2>2, <2>3
<1>10. DistinctKeys(more)
  BY <1>2, <1>5, <1>9 DEF DistinctKeys
<1>11. ASSUME NEW x \in EntriesOf(page) PROVE x \in EntriesOf(more)
  <2>1. PICK j \in 1..n : x = s[j]
    BY <1>1 DEF EntriesOf
  <2>2. CASE j < i
    <3>1. j \in 1..(n + 1)
      BY <1>1
    <3> QED BY <1>2, <1>4, <1>5, <2>1, <2>2, <3>1 DEF EntriesOf
  <2>3. CASE ~(j < i)
    <3>1. j + 1 \in 1..(n + 1) /\ ~(j + 1 < i) /\ j + 1 # i /\ (j + 1) - 1 = j
      BY <1>1, <2>3
    <3>2. t[j + 1] = s[j]
      BY <1>4, <3>1
    <3> QED BY <1>2, <1>5, <2>1, <3>1, <3>2 DEF EntriesOf
  <2> QED BY <2>2, <2>3
<1>12. e \in EntriesOf(more)
  BY <1>2, <1>4, <1>5 DEF EntriesOf
<1>13. ASSUME NEW x \in EntriesOf(more) PROVE x \in EntriesOf(page) \cup {e}
  <2>1. PICK j \in 1..(n + 1) : x = t[j]
    BY <1>2, <1>5 DEF EntriesOf
  <2>2. CASE j = i
    BY <1>4, <2>1, <2>2
  <2>3. CASE j # i
    <3>1. back(j) \in 1..n /\ x = s[back(j)]
      BY <1>7, <2>1, <2>3
    <3> HIDE DEF back
    <3> QED BY <1>1, <3>1 DEF EntriesOf
  <2> QED BY <2>2, <2>3
<1>14. EntriesOf(more) = EntriesOf(page) \cup {e}
  BY <1>11, <1>12, <1>13
<1> QED BY <1>2, <1>6, <1>10, <1>14

(* An entry with another value: what the leaf holds, each key once. *)
LEMMA UpdatedHolds ==
    ASSUME NEW page \in Page, NEW i \in DOMAIN page.entries, NEW v, DistinctKeys(page),
           NEW new, new = WithValue(page, i, v)
    PROVE  \E old, e : /\ old \in EntriesOf(page)
                       /\ e = [key |-> old.key, val |-> v] /\ old.key = page.entries[i].key
                       /\ new.is_leaf = page.is_leaf /\ new.next = page.next
                       /\ new.entries # <<>> /\ DistinctKeys(new)
                       /\ EntriesOf(new) = (EntriesOf(page) \ {old}) \cup {e}
<1> DEFINE s   == page.entries
           old == s[i]
           e   == [old EXCEPT !.val = v]
           t   == [s EXCEPT ![i] = e]
<1>1. s \in Seq(Entry) /\ \A j \in DOMAIN s : s[j] \in Entry
  BY LenProperties, ElementOfSeq DEF Page
<1>2. e = [key |-> old.key, val |-> v]
  <2>1. old = [key |-> old.key, val |-> old.val]
    BY <1>1 DEF Entry
  <2> QED BY <2>1
<1>3. new.is_leaf = page.is_leaf /\ new.next = page.next /\ new.entries = t
  <2>1. page = [is_leaf |-> page.is_leaf, entries |-> page.entries, next |-> page.next]
    BY DEF Page
  <2>2. new = [page EXCEPT !.entries = t]
    BY Zenon DEF WithValue
  <2> HIDE DEF t
  <2> QED BY <2>1, <2>2
<1>4. /\ DOMAIN t = DOMAIN s /\ t[i] = e /\ \A j \in DOMAIN s : j # i => t[j] = s[j]
      /\ e.key = s[i].key
  <2>1. e.key = s[i].key
    BY <1>2
  <2> HIDE DEF e
  <2> QED BY <2>1
<1> HIDE DEF t, e
<1>5. \A j, k \in DOMAIN s : s[j].key = s[k].key => j = k
  BY DEF DistinctKeys
<1>6. DistinctKeys(new)
  <2>1. \A j \in DOMAIN s : t[j].key = s[j].key
    BY <1>4
  <2> QED BY <1>3, <1>4, <1>5, <2>1 DEF DistinctKeys
<1>7. new.entries # <<>>
  BY <1>3, <1>4
<1>8. EntriesOf(new) = (EntriesOf(page) \ {old}) \cup {e}
  <2>1. \A j \in DOMAIN s : j # i => s[j] # s[i]
    BY <1>5
  <2> QED BY <1>3, <1>4, <2>1 DEF EntriesOf
<1>9. old \in EntriesOf(page)
  BY DEF EntriesOf
<1> QED BY <1>2, <1>3, <1>6, <1>7, <1>8, <1>9

InsertKinds == {"insert", "walk", "split", "place"}

(* CInv with its chain and the place of the call, in terms of the state.   *)
Here(m, n, c, i, o) == Linked(m, n, c) /\ i \in 1..n /\ At(m, n, c, i, o)

(* Without a failed read a fetch returns the page. *)
LEMMA FetchedIsPage ==
    ASSUME Faults = {}, NEW at \in Fetched
    PROVE  at = mem[op.page]
BY DEF Fetched

(* CInv holds at the start. *)
LEMMA CInit == Init => CInv
<1> SUFFICES ASSUME Init PROVE CInv
  OBVIOUS
<1>1. next_page_id = 1 /\ op = Idle /\ mem = InitRoot(disk) /\ disk = [p \in Pages |-> BlankPage]
  BY DEF Init
<1>2. Root = 0 /\ Root \in Pages
  BY MaxPagesAssumption DEF Root, Pages
<1>3. mem[Root] = EmptyLeaf
  BY <1>1, <1>2 DEF InitRoot, BlankPage
<1>4. EmptyLeaf.is_leaf /\ EmptyLeaf.entries = <<>> /\ EmptyLeaf.next = NoPage
  BY DEF EmptyLeaf
<1>5. EntriesOf(EmptyLeaf) = {} /\ DistinctKeys(EmptyLeaf)
  BY <1>4 DEF EntriesOf, DistinctKeys
<1> DEFINE c == [i \in 1..1 |-> 0]
<1>6. c[1] = 0 /\ 1..1 = {1} /\ 0..(1 - 1) = {0}
  OBVIOUS
<1> HIDE DEF c
<1>7. Chain(mem, 1, c) /\ Ordered(mem, 1, c) /\ Leaves(mem, 1)
  <2>1. Chain(mem, 1, c)
    BY <1>2, <1>3, <1>4, <1>6 DEF Chain
  <2>2. Ordered(mem, 1, c)
    BY DEF Ordered
  <2>3. Leaves(mem, 1)
    BY <1>2, <1>3, <1>4, <1>5, <1>6 DEF Leaves
  <2> QED BY <2>1, <2>2, <2>3
<1> QED BY <1>1, <1>7 DEF CInv, Linked

(* A call starts at the root; the key of an insert is not in the tree. *)
LEMMA CallPlaced ==
    ASSUME IInv, NEW c, Linked(mem, next_page_id, c), NEW k \in Keys, NEW v, NEW kind,
           kind = "insert" => \A x \in Stored(mem, next_page_id) : x.key # k,
           kind \in {"search", "find", "insert", "update"}
    PROVE  Here(mem, next_page_id, c, 1, [kind |-> kind, key |-> k, val |-> v, page |-> Root])
<1> DEFINE o == [kind |-> kind, key |-> k, val |-> v, page |-> Root]
           n == next_page_id
<1>1. o.kind = kind /\ o.key = k /\ o.page = Root
  OBVIOUS
<1> HIDE DEF o
<1>2. n \in Nat /\ 1 \in 1..n
  BY MaxPagesAssumption DEF IInv
<1>3. c[1] = Root
  BY DEF Linked, Chain
<1>4. 1..(1 - 1) = {}
  OBVIOUS
<1>5. At(mem, n, c, 1, o)
  BY <1>1, <1>3, <1>4 DEF At, Below
<1> QED BY <1>2, <1>5 DEF Here, o

(* The next page of the walk. *)
LEMMA NextOnWalk ==
    ASSUME NEW m, NEW n \in Nat, NEW c, Chain(m, n, c), NEW i \in 1..n, m[c[i]].next # NoPage
    PROVE  i + 1 \in 1..n /\ c[i + 1] = m[c[i]].next /\ i < n
<1>1. i # n /\ c[i + 1] = m[c[i]].next
  BY DEF Chain
<1> QED BY <1>1

(* A search goes on: the key is not on the page it leaves.                 *)
LEMMA WalkPlaced ==
    ASSUME NEW m \in [Pages -> Page], NEW n \in 1..MaxPages, NEW c, NEW i, NEW o,
           Here(m, n, c, i, o), o.kind \in {"search", "find", "update"},
           NEW at, at = m[c[i]], at.next # NoPage, o.key \notin KeysAt(at),
           NEW o2, o2.kind = o.kind, o2.key = o.key, o2.page = at.next
    PROVE  Here(m, n, c, i + 1, o2)
<1>0. n \in Nat /\ i \in 1..n /\ Chain(m, n, c) /\ Linked(m, n, c) /\ At(m, n, c, i, o)
  BY MaxPagesAssumption DEF Here, Linked
<1>1. i + 1 \in 1..n /\ c[i + 1] = at.next
  BY <1>0, NextOnWalk
<1>2. \A x \in EntriesOf(at) : x.key # o.key
  <2>1. at \in Page
    BY <1>0, StoredOn
  <2> QED BY <2>1, EntryTypes
<1>3. \A j \in 1..((i + 1) - 1) : j = i \/ j \in 1..(i - 1)
  BY <1>0
<1>4. At(m, n, c, i + 1, o2)
  BY <1>0, <1>1, <1>2, <1>3 DEF At
<1> QED BY <1>0, <1>1, <1>4 DEF Here

(* The last key of a leaf is the largest. *)
LEMMA LastIsLargest ==
    ASSUME NEW page \in Page, Ascends(page.entries), page.entries # <<>>
    PROVE  /\ page.entries[Len(page.entries)] \in EntriesOf(page)
           /\ \A x \in EntriesOf(page) : x.key <= page.entries[Len(page.entries)].key
<1> DEFINE s == page.entries
           n == Len(s)
<1>1. s \in Seq(Entry) /\ n \in Nat /\ DOMAIN s = 1..n /\ \A j \in 1..n : s[j].key \in Int
  BY KeysAreIntegers, LenProperties DEF Page
<1>2. n # 0
  BY <1>1, EmptySeq
<1>3. n \in 1..n
  BY <1>1, <1>2
<1>4. \A j \in 1..n : s[j].key <= s[n].key
  <2> TAKE j \in 1..n
  <2>1. CASE j = n
    BY <1>1, <2>1
  <2>2. CASE j # n
    <3>1. j < n
      BY <1>1, <2>2
    <3> QED BY <1>3, <3>1 DEF Ascends
  <2> QED BY <2>1, <2>2
<1> HIDE DEF n
<1> QED BY <1>1, <1>3, <1>4 DEF EntriesOf, n

(* An insert walks on: the keys of the page it leaves are smaller.         *)
LEMMA InsertWalkPlaced ==
    ASSUME NEW m \in [Pages -> Page], NEW n \in 1..MaxPages, NEW c, NEW i, NEW o,
           Here(m, n, c, i, o), o.kind \in InsertKinds, o.key \in Keys,
           NEW at, at = m[c[i]], Ascends(at.entries), BelongsRight(o.key, at),
           NEW o2, o2.kind = IF o.kind = "split" THEN "place" ELSE "walk",
           o2.key = o.key, o2.page = at.next
    PROVE  Here(m, n, c, i + 1, o2)
<1>0. n \in Nat /\ i \in 1..n /\ Chain(m, n, c) /\ Linked(m, n, c) /\ At(m, n, c, i, o)
      /\ o.key \in Int
  <2>1. o.key \in Int
    BY KeysAssumption
  <2>2. n \in Nat
    BY MaxPagesAssumption
  <2> QED BY <2>1, <2>2 DEF Here, Linked
<1>1. at.next # NoPage /\ at.entries # <<>> /\ o.key > at.entries[Len(at.entries)].key
  BY DEF BelongsRight
<1>2. i + 1 \in 1..n /\ c[i + 1] = at.next
  BY <1>0, <1>1, NextOnWalk
<1>3. at \in Page
  BY <1>0, StoredOn
<1>4. \A x \in EntriesOf(at) : x.key < o.key
  <2> TAKE x \in EntriesOf(at)
  <2>1. PICK last : last = at.entries[Len(at.entries)]
    OBVIOUS
  <2>2. x.key <= last.key /\ last.key \in Int /\ x.key \in Int
    BY <1>1, <1>3, <2>1, LastIsLargest, EntryTypes
  <2> QED BY <1>0, <1>1, <2>1, <2>2
<1>5. \A j \in 1..((i + 1) - 1) : j = i \/ j \in 1..(i - 1)
  BY <1>0
<1>6. /\ \A x \in Stored(m, n) : x.key # o.key
      /\ Below(m, c, i - 1, o.key)
      /\ o.kind = "split" => Above(m, n, c, i + 2, o.key)
  BY <1>0 DEF At, InsertKinds
<1>7. Below(m, c, (i + 1) - 1, o.key)
  BY <1>4, <1>5, <1>6 DEF Below
<1>8. (i + 1) + 1 = i + 2
  BY <1>0
<1>9. At(m, n, c, i + 1, o2)
  BY <1>2, <1>6, <1>7, <1>8 DEF At
<1> QED BY <1>0, <1>2, <1>9 DEF Here

(* Where a key is not to go further, all later keys are larger.            *)
LEMMA LaterAreLarger ==
    ASSUME NEW m \in [Pages -> Page], NEW n \in 1..MaxPages, NEW c, NEW i, NEW o,
           Here(m, n, c, i, o), o.kind \in InsertKinds, o.key \in Keys,
           NEW at, at = m[c[i]], Ascends(at.entries), ~BelongsRight(o.key, at)
    PROVE  Above(m, n, c, i + 1, o.key)
<1>0. /\ n \in Nat /\ i \in 1..n /\ Chain(m, n, c) /\ Leaves(m, n) /\ Ordered(m, n, c)
      /\ At(m, n, c, i, o) /\ o.key \in Int
  <2>1. o.key \in Int
    BY KeysAssumption
  <2>2. n \in Nat
    BY MaxPagesAssumption
  <2> QED BY <2>1, <2>2 DEF Here, Linked
<1>1. CASE i = n
  <2>1. (i + 1)..n = {}
    BY <1>0, <1>1
  <2> QED BY <2>1 DEF Above
<1>2. CASE i # n
  <2>1. at.next = c[i + 1] /\ i + 1 \in 1..n /\ n > 1 /\ NoPage = -1
    BY <1>0, <1>2 DEF Chain, NoPage
  <2>2. at.next # NoPage
    <3>1. c[i + 1] \in 0..(n - 1)
      BY <1>0, <2>1 DEF Chain
    <3> QED BY <2>1, <3>1
  <2>3. at.entries # <<>> /\ at \in Page
    <3>1. c[i] \in 0..(n - 1)
      BY <1>0 DEF Chain
    <3> QED BY <1>0, <2>1, <3>1, StoredOn DEF Leaves
  <2>4. PICK last \in EntriesOf(at) : ~(o.key > last.key)
    BY <2>2, <2>3, LastIsLargest DEF BelongsRight
  <2>5. last.key \in Int /\ last \in Stored(m, n)
    BY <1>0, <2>3, EntryTypes, StoredOn
  <2>6. o.key # last.key
    BY <1>0, <2>5 DEF At, InsertKinds
  <2>7. o.key < last.key
    BY <1>0, <2>4, <2>5, <2>6
  <2> SUFFICES ASSUME NEW j \in (i + 1)..n, NEW x \in EntriesOf(m[c[j]])
               PROVE  o.key < x.key
    BY DEF Above
  <2>8. j \in 1..n /\ i < j
    BY <1>0
  <2>9. last.key < x.key
    BY <1>0, <2>8 DEF Ordered
  <2>10. x.key \in Int
    BY <1>0, <2>8, StoredOn, EntryTypes
  <2> QED BY <1>0, <2>5, <2>7, <2>9, <2>10
<1> QED BY <1>1, <1>2

(* The page a call is at, and its chain. *)
LEMMA CallIsHere ==
    ASSUME CInv, op # Idle
    PROVE  \E c, i : Here(mem, next_page_id, c, i, op)
BY DEF CInv, Here

(* What the invariants say of them. *)
LEMMA LeafThere ==
    ASSUME IInv, NEW c, NEW i, Here(mem, next_page_id, c, i, op), op # Idle
    PROVE  /\ op.page = c[i] /\ c[i] \in Pages /\ c[i] \in 0..(next_page_id - 1)
           /\ i \in 1..next_page_id /\ i \in Nat
           /\ mem \in [Pages -> Page] /\ next_page_id \in 1..MaxPages
           /\ mem[c[i]] \in Page /\ Ascends(mem[c[i]].entries)
           /\ DistinctKeys(mem[c[i]]) /\ mem[c[i]].is_leaf
           /\ Linked(mem, next_page_id, c) /\ Chain(mem, next_page_id, c)
           /\ Ordered(mem, next_page_id, c)
           /\ op.kind \in Kinds /\ op.key \in Keys
<1>1. /\ i \in 1..next_page_id /\ Linked(mem, next_page_id, c) /\ op.page = c[i]
      /\ Chain(mem, next_page_id, c) /\ Leaves(mem, next_page_id)
      /\ Ordered(mem, next_page_id, c)
  BY DEF Here, Linked, At
<1>2. mem \in [Pages -> Page] /\ next_page_id \in 1..MaxPages
  BY DEF IInv
<1>3. op.kind \in Kinds /\ op.key \in Keys
  BY DEF IInv
<1>4. i \in Nat
  BY <1>1, <1>2, MaxPagesAssumption
<1>5. c[i] \in Pages /\ c[i] \in 0..(next_page_id - 1)
  BY <1>1, <1>2, StoredOn DEF Chain
<1>6. Ascends(mem[c[i]].entries)
  BY <1>5 DEF IInv, GoodPage
<1>7. DistinctKeys(mem[c[i]]) /\ mem[c[i]].is_leaf
  BY <1>1, <1>5 DEF Leaves
<1> QED BY <1>1, <1>2, <1>3, <1>4, <1>5, <1>6, <1>7

(* The keys of a page are between those of the others. *)
LEMMA KeysBetween ==
    ASSUME NEW m, NEW n \in Nat, NEW c, Ordered(m, n, c), NEW i \in 1..n,
           NEW x \in EntriesOf(m[c[i]])
    PROVE  Below(m, c, i - 1, x.key) /\ Above(m, n, c, i + 1, x.key)
<1>1. \A j \in 1..(i - 1) : j \in 1..n /\ j < i
  OBVIOUS
<1>2. \A j \in (i + 1)..n : j \in 1..n /\ i < j
  OBVIOUS
<1>3. Below(m, c, i - 1, x.key)
  BY <1>1 DEF Ordered, Below
<1>4. Above(m, n, c, i + 1, x.key)
  BY <1>2 DEF Ordered, Above
<1> QED BY <1>3, <1>4

(* A call that returns leaves the pages linked. *)
LEMMA ReturnLinks ==
    ASSUME NEW c, Linked(mem', next_page_id', c), op' = Idle
    PROVE  CInv'
BY DEF CInv

(* A call that goes on is somewhere. *)
LEMMA GoesOnLinks ==
    ASSUME NEW c, NEW i, Here(mem', next_page_id', c, i, op')
    PROVE  CInv'
BY DEF CInv, Here

(* What a step of a call does to what is stored: nothing, or it stores an  *)
(* entry under a key without one, or in place of another.                  *)
Kept       == Stored(mem', next_page_id') = Stored(mem, next_page_id)
Changed(e) == /\ e \in Stored(mem', next_page_id')
              /\ \A x : x.key # e.key => ( x \in Stored(mem', next_page_id')
                                           <=> x \in Stored(mem, next_page_id) )

(* A search or an update goes on. *)
LEMMA WalkLinks ==
    ASSUME Faults = {}, IInv, CInv, op # Idle, NEW at \in Fetched, WalkOn(at)
    PROVE  CInv' /\ Kept
<1>1. PICK c, i : Here(mem, next_page_id, c, i, op)
  BY CallIsHere
<1>2. at = mem[c[i]] /\ at.is_leaf /\ mem \in [Pages -> Page] /\ next_page_id \in 1..MaxPages
      /\ op \in [kind : Kinds, key : Keys, val : Values \cup {NoValue}, page : Pages]
  BY <1>1, LeafThere, FetchedIsPage DEF IInv
<1>3. /\ op.kind \in {"search", "find", "update"} /\ op.key \notin KeysAt(at) /\ at.next # NoPage
      /\ op' = [op EXCEPT !.page = at.next] /\ mem' = mem /\ next_page_id' = next_page_id
  BY <1>2 DEF WalkOn, IsFound, WalkEnds
<1>4. op'.kind = op.kind /\ op'.key = op.key /\ op'.page = at.next
  BY <1>2, <1>3
<1>5. Here(mem, next_page_id, c, i + 1, op')
  <2>1. PICK o2 : o2 = op'
    OBVIOUS
  <2>2. Here(mem, next_page_id, c, i + 1, o2)
    BY <1>1, <1>2, <1>3, <1>4, <2>1, WalkPlaced
  <2> QED BY <2>1, <2>2
<1>6. Here(mem', next_page_id', c, i + 1, op')
  BY <1>3, <1>5
<1> QED BY <1>3, <1>6, GoesOnLinks DEF Kept

(* A search returns. *)
LEMMA SearchLinks ==
    ASSUME Faults = {}, IInv, CInv, op # Idle, NEW at \in Fetched, SearchReturns(at)
    PROVE  CInv' /\ Kept
<1>1. PICK c, i : Here(mem, next_page_id, c, i, op)
  BY CallIsHere
<1>2. op' = Idle /\ mem' = mem /\ next_page_id' = next_page_id
  BY DEF SearchReturns
<1>3. Linked(mem', next_page_id', c)
  BY <1>1, <1>2 DEF Here
<1> QED BY <1>2, <1>3, ReturnLinks DEF Kept

(* A search that ends without its key has left every page behind. *)
LEMMA NothingFound ==
    ASSUME Faults = {}, IInv, NEW c, NEW i, Here(mem, next_page_id, c, i, op), op # Idle,
           op.kind \in {"search", "find"}, NEW at \in Fetched, WalkEnds(at)
    PROVE  \A x \in Stored(mem, next_page_id) : x.key # op.key
<1> DEFINE n == next_page_id
<1>1. /\ at = mem[c[i]] /\ at \in Page /\ at.is_leaf /\ i \in 1..n /\ i \in Nat
      /\ mem \in [Pages -> Page] /\ n \in 1..MaxPages /\ n \in Nat /\ Chain(mem, n, c)
  <2>1. n \in 1..MaxPages => n \in Nat
    BY MaxPagesAssumption
  <2> QED BY <2>1, LeafThere, FetchedIsPage
<1>2. at.next = NoPage /\ op.key \notin KeysAt(at)
  BY <1>1 DEF WalkEnds, IsFound
<1>3. i = n
  <2>1. \A j \in 1..n : c[j] # NoPage
    <3>1. NoPage \notin 0..(n - 1)
      BY DEF NoPage
    <3> QED BY <1>1, <3>1 DEF Chain
  <2>2. i # n => i + 1 \in 1..n
    BY <1>1
  <2> QED BY <1>1, <1>2, <2>1, <2>2 DEF Chain
<1>4. \A j \in 1..(i - 1) : \A x \in EntriesOf(mem[c[j]]) : x.key # op.key
  BY DEF Here, At
<1>5. \A x \in EntriesOf(at) : x.key # op.key
  BY <1>1, <1>2, EntryTypes
<1>6. \A j \in 1..n : j = i \/ j \in 1..(i - 1)
  BY <1>1, <1>3
<1> QED BY <1>1, <1>4, <1>5, <1>6, StoredOn

(* The search before a posting is added: an insert follows when the key is *)
(* in no page.                                                             *)
LEMMA FindLinks ==
    ASSUME Faults = {}, IInv, CInv, op # Idle, NEW at \in Fetched, FindReturns(at)
    PROVE  CInv' /\ Kept
<1>1. PICK c, i : Here(mem, next_page_id, c, i, op)
  BY CallIsHere
<1>2. mem' = mem /\ next_page_id' = next_page_id /\ op.kind = "find"
  BY DEF FindReturns
<1>3. Linked(mem, next_page_id, c)
  BY <1>1 DEF Here
<1>4. CASE op' = Idle
  BY <1>2, <1>3, <1>4, ReturnLinks DEF Kept
<1>5. CASE op' # Idle
  <2>1. PICK kind \in {"update", "insert"} :
          /\ op' = [op EXCEPT !.kind = kind, !.page = Root]
          /\ kind = "insert" => WalkEnds(at)
    BY <1>5 DEF FindReturns
  <2>2. op.key \in Keys /\ op' = [kind |-> kind, key |-> op.key, val |-> op.val, page |-> Root]
    BY <2>1 DEF IInv
  <2>3. kind = "insert" => \A x \in Stored(mem, next_page_id) : x.key # op.key
    BY <1>1, <1>2, <2>1, NothingFound
  <2>4. PICK k, v : k = op.key /\ v = op.val
    OBVIOUS
  <2>5. Here(mem, next_page_id, c, 1, [kind |-> kind, key |-> k, val |-> v, page |-> Root])
    BY <1>3, <2>2, <2>3, <2>4, CallPlaced
  <2>6. Here(mem', next_page_id', c, 1, op')
    BY <1>2, <2>2, <2>4, <2>5
  <2> QED BY <1>2, <2>6, GoesOnLinks DEF Kept
<1> QED BY <1>4, <1>5

(* An update changes the value it finds, or nothing. *)
LEMMA UpdateLinks ==
    ASSUME Faults = {}, IInv, IInv', CInv, op # Idle, NEW at \in Fetched, UpdateReturns(at)
    PROVE  /\ CInv'
           /\ \/ Kept
              \/ /\ Changed([key |-> op.key, val |-> op.val])
                 /\ \E x \in Stored(mem, next_page_id) : x.key = op.key
<1> DEFINE n == next_page_id
<1>1. PICK c, i : Here(mem, n, c, i, op)
  BY CallIsHere
<1>2. op' = Idle /\ next_page_id' = n
  BY DEF UpdateReturns
<1>3. CASE UNCHANGED mem
  <2>1. Linked(mem', next_page_id', c)
    BY <1>1, <1>2, <1>3 DEF Here
  <2> QED BY <1>2, <1>3, <2>1, ReturnLinks DEF Kept
<1>4. CASE ~UNCHANGED mem
  <2>1. PICK j \in DOMAIN at.entries :
          IsMatch(at, j) /\ mem' = [mem EXCEPT ![op.page] = [at EXCEPT !.entries[j].val = op.val]]
    BY <1>4 DEF UpdateReturns
  <2>2. /\ at = mem[c[i]] /\ at \in Page /\ at.is_leaf /\ DistinctKeys(at)
        /\ i \in 1..n /\ op.page = c[i] /\ c[i] \in Pages /\ n \in 1..MaxPages /\ n \in Nat
        /\ mem \in [Pages -> Page] /\ Linked(mem, n, c) /\ Ordered(mem, n, c)
        /\ mem' \in [Pages -> Page]
    <3>1. mem' \in [Pages -> Page]
      BY DEF IInv
    <3>2. n \in 1..MaxPages => n \in Nat
      BY MaxPagesAssumption
    <3> QED BY <1>1, <3>1, <3>2, LeafThere, FetchedIsPage
  <2>0. PICK v : v = op.val
    OBVIOUS
  <2>3. PICK page : page = WithValue(at, j, v)
    OBVIOUS
  <2>4. mem'[c[i]] = page /\ \A p \in Pages : p # c[i] => mem'[p] = mem[p]
    BY <2>0, <2>1, <2>2, <2>3 DEF WithValue
  <2>5. OneChanged(mem, mem', n, c[i], page)
    BY <2>2, <2>4, StoredOn DEF OneChanged, Linked
  <2>6. PICK old, e : /\ old \in EntriesOf(at)
                      /\ e = [key |-> old.key, val |-> v] /\ old.key = at.entries[j].key
                      /\ page.is_leaf = at.is_leaf /\ page.next = at.next
                      /\ page.entries # <<>> /\ DistinctKeys(page)
                      /\ EntriesOf(page) = (EntriesOf(at) \ {old}) \cup {e}
    <3>1. at \in Page /\ DistinctKeys(at)
      BY <2>2
    <3> HIDE <2>0
    <3> QED BY <2>3, <3>1, UpdatedHolds
  <2>7. old.key = op.key /\ e = [key |-> op.key, val |-> op.val] /\ e.key = op.key
    BY <2>0, <2>1, <2>6 DEF IsMatch
  <2>8. \A x \in EntriesOf(page) : Below(mem, c, i - 1, x.key) /\ Above(mem, n, c, i + 1, x.key)
    <3>1. \A x \in EntriesOf(at) : Below(mem, c, i - 1, x.key) /\ Above(mem, n, c, i + 1, x.key)
      BY <2>2, KeysBetween
    <3> QED BY <2>6, <2>7, <3>1
  <2>9. Linked(mem', n, c)
    BY <2>2, <2>5, <2>6, <2>8, ChangedStaysLinked
  <2>10. \A x : x \in Stored(mem', n) <=> \/ x \in EntriesOf(page)
                                          \/ x \in Stored(mem, n) /\ x \notin EntriesOf(at)
    BY <2>2, <2>5, ChangedStores
  <2>11. \A x \in EntriesOf(at) : x \in Stored(mem, n)
    BY <2>2, StoredOn DEF Linked
  <2>12. Changed(e)
    BY <1>2, <2>6, <2>7, <2>10, <2>11 DEF Changed
  <2> QED BY <1>2, <2>6, <2>7, <2>9, <2>11, <2>12, ReturnLinks
<1> QED BY <1>3, <1>4

(* btree_insert is refused at no leaf only. *)
LEMMA RefusedLinks ==
    ASSUME Faults = {}, IInv, CInv, op # Idle, NEW at \in Fetched, InsertRefused(at)
    PROVE  CInv' /\ Kept
<1>1. PICK c, i : Here(mem, next_page_id, c, i, op)
  BY CallIsHere
<1>2. op' = Idle /\ mem' = mem /\ next_page_id' = next_page_id
  BY DEF InsertRefused
<1>3. Linked(mem', next_page_id', c)
  BY <1>1, <1>2 DEF Here
<1> QED BY <1>2, <1>3, ReturnLinks DEF Kept

(* A call starts. *)
LEMMA CallLinks ==
    ASSUME IInv, CInv, NEW kind \in {"search", "find"}, NEW k \in Keys,
           NEW v, Call(kind, k, v)
    PROVE  CInv' /\ Kept
<1>1. PICK c : Linked(mem, next_page_id, c)
  BY DEF CInv
<1>2. Here(mem, next_page_id, c, 1, [kind |-> kind, key |-> k, val |-> v, page |-> Root])
  BY <1>1, CallPlaced
<1>3. Here(mem', next_page_id', c, 1, op') /\ Kept
  BY <1>2 DEF Call, Kept
<1> QED BY <1>3, GoesOnLinks

(* An insert walks on. *)
LEMMA InsertWalkLinks ==
    ASSUME Faults = {}, IInv, CInv, op # Idle, NEW at \in Fetched, InsertWalk(at)
    PROVE  CInv' /\ Kept
<1>1. PICK c, i : Here(mem, next_page_id, c, i, op)
  BY CallIsHere
<1>2. /\ at = mem[c[i]] /\ Ascends(at.entries) /\ mem \in [Pages -> Page]
      /\ next_page_id \in 1..MaxPages /\ op.key \in Keys
      /\ op \in [kind : Kinds, key : Keys, val : Values \cup {NoValue}, page : Pages]
  BY <1>1, LeafThere, FetchedIsPage DEF IInv
<1>3. /\ op.kind \in InsertKinds /\ BelongsRight(op.key, at)
      /\ op' = [op EXCEPT !.kind = IF @ = "split" THEN "place" ELSE "walk", !.page = at.next]
      /\ mem' = mem /\ next_page_id' = next_page_id
  BY DEF InsertWalk, InsertGoesOn, InsertKinds
<1>4. /\ op'.kind = IF op.kind = "split" THEN "place" ELSE "walk"
      /\ op'.key = op.key /\ op'.page = at.next
  BY <1>2, <1>3
<1>5. Here(mem, next_page_id, c, i + 1, op')
  <2>1. PICK o2 : o2 = op'
    OBVIOUS
  <2>2. Here(mem, next_page_id, c, i + 1, o2)
    BY <1>1, <1>2, <1>3, <1>4, <2>1, InsertWalkPlaced
  <2> QED BY <2>1, <2>2
<1>6. Here(mem', next_page_id', c, i + 1, op')
  BY <1>3, <1>5
<1> QED BY <1>3, <1>6, GoesOnLinks DEF Kept

(* An insert places its entry between those of the pages around.           *)
LEMMA PlaceLinks ==
    ASSUME Faults = {}, IInv, IInv', CInv, op # Idle, NEW at \in Fetched, InsertPlace(at)
    PROVE  /\ CInv'
           /\ Changed([key |-> op.key, val |-> op.val])
           /\ \A x \in Stored(mem, next_page_id) : x.key # op.key
<1> DEFINE n == next_page_id
<1>1. PICK c, i : Here(mem, n, c, i, op)
  BY CallIsHere
<1>2. /\ op' = Idle /\ next_page_id' = n /\ op.kind \in InsertKinds
      /\ op.kind = "place" \/ ~BelongsRight(op.key, at)
      /\ mem' = [mem EXCEPT ![op.page] = WithEntry(at, [key |-> op.key, val |-> op.val])]
  BY DEF InsertPlace, InsertGoesOn, InsertKinds, WithEntry
<1>3. PICK e : e = [key |-> op.key, val |-> op.val]
  OBVIOUS
<1>4. e \in Entry /\ e.key = op.key
  BY <1>2, <1>3 DEF IInv, InsertKinds, Entry
<1>5. /\ at = mem[c[i]] /\ at \in Page /\ at.is_leaf /\ DistinctKeys(at) /\ Ascends(at.entries)
      /\ i \in 1..n /\ op.page = c[i] /\ c[i] \in Pages /\ n \in 1..MaxPages /\ n \in Nat
      /\ mem \in [Pages -> Page] /\ Linked(mem, n, c) /\ Ordered(mem, n, c) /\ op.key \in Keys
      /\ mem' \in [Pages -> Page]
  <2>1. mem' \in [Pages -> Page]
    BY DEF IInv
  <2>2. n \in 1..MaxPages => n \in Nat
    BY MaxPagesAssumption
  <2> QED BY <1>1, <2>1, <2>2, LeafThere, FetchedIsPage
<1>6. \A x \in Stored(mem, n) : x.key # op.key
  BY <1>1, <1>2 DEF Here, At, InsertKinds
<1>7. Below(mem, c, i - 1, op.key) /\ Above(mem, n, c, i + 1, op.key)
  <2>1. Below(mem, c, i - 1, op.key)
    BY <1>1, <1>2 DEF Here, At, InsertKinds
  <2>2. CASE op.kind = "place"
    BY <1>1, <2>1, <2>2 DEF Here, At
  <2>3. CASE ~BelongsRight(op.key, at)
    <3>1. PICK o : o = op
      OBVIOUS
    <3>2. Above(mem, n, c, i + 1, o.key)
      BY <1>1, <1>2, <1>5, <2>3, <3>1, LaterAreLarger
    <3> QED BY <2>1, <3>1, <3>2
  <2> QED BY <1>2, <2>2, <2>3
<1>8. \A x \in EntriesOf(at) : x \in Stored(mem, n)
  BY <1>5, StoredOn DEF Linked
<1>9. PICK page : page = WithEntry(at, e)
  OBVIOUS
<1>10. mem'[c[i]] = page /\ \A p \in Pages : p # c[i] => mem'[p] = mem[p]
  BY <1>2, <1>3, <1>5, <1>9
<1>11. OneChanged(mem, mem', n, c[i], page)
  BY <1>5, <1>10, StoredOn DEF OneChanged, Linked
<1>12. /\ page.is_leaf = at.is_leaf /\ page.next = at.next
       /\ page.entries # <<>> /\ DistinctKeys(page)
       /\ EntriesOf(page) = EntriesOf(at) \cup {e}
  <2>1. \A x \in EntriesOf(at) : x.key # e.key
    BY <1>4, <1>6, <1>8
  <2>2. e \in Entry /\ at \in Page /\ Ascends(at.entries) /\ DistinctKeys(at)
    BY <1>4, <1>5
  <2> QED BY <1>9, <2>1, <2>2, InsertedHolds
<1>13. \A x \in EntriesOf(page) : Below(mem, c, i - 1, x.key) /\ Above(mem, n, c, i + 1, x.key)
  <2>1. \A x \in EntriesOf(at) : Below(mem, c, i - 1, x.key) /\ Above(mem, n, c, i + 1, x.key)
    BY <1>5, KeysBetween
  <2> QED BY <1>4, <1>7, <1>12, <2>1
<1>14. Linked(mem', n, c)
  BY <1>5, <1>11, <1>12, <1>13, ChangedStaysLinked
<1>15. \A x : x \in Stored(mem', n) <=> \/ x \in EntriesOf(page)
                                        \/ x \in Stored(mem, n) /\ x \notin EntriesOf(at)
  BY <1>5, <1>11, ChangedStores
<1>16. Changed(e)
  BY <1>2, <1>4, <1>8, <1>12, <1>15 DEF Changed
<1> QED BY <1>2, <1>3, <1>6, <1>14, <1>16, ReturnLinks

(* A split leaves the insert at the left half, where its key belongs or    *)
(* one page before.                                                        *)
LEMMA SplitLinks ==
    ASSUME Faults = {}, IInv, IInv', CInv, op # Idle, NEW at \in Fetched, InsertSplit(at)
    PROVE  CInv' /\ Kept
<1> DEFINE n == next_page_id
<1>1. PICK c, i : Here(mem, n, c, i, op)
  BY CallIsHere
<1>2. /\ op.kind \in {"insert", "walk"} /\ op.kind \in InsertKinds
      /\ ~BelongsRight(op.key, at) /\ IsFull(at)
      /\ op.page # n =>
           mem' = [mem EXCEPT ![op.page] = LeftHalf(at, n), ![n] = RightHalf(at, n)]
      /\ next_page_id' = n + 1
      /\ op' = [op EXCEPT !.kind = "split"]
  BY DEF InsertSplit, InsertGoesOn, InsertKinds
<1>3. /\ at = mem[c[i]] /\ at \in Page /\ at.is_leaf /\ DistinctKeys(at) /\ Ascends(at.entries)
      /\ i \in 1..n /\ op.page = c[i] /\ c[i] \in Pages /\ c[i] \in 0..(n - 1)
      /\ n \in 1..MaxPages /\ i \in Nat
      /\ mem \in [Pages -> Page] /\ Linked(mem, n, c) /\ op.key \in Keys
      /\ mem' \in [Pages -> Page] /\ GoodPage(at)
  <2>1. mem' \in [Pages -> Page] /\ \A p \in Pages : GoodPage(mem[p])
    BY DEF IInv
  <2> QED BY <1>1, <2>1, LeafThere, FetchedIsPage
<1>4. n \in Nat /\ n \in Pages /\ n # c[i] /\ \A p \in 0..(n - 1) : p \in Pages /\ p # n
  BY <1>2, <1>3, MaxPagesAssumption DEF IInv, Pages
<1>5. PICK l, r : l = LeftHalf(at, n) /\ r = RightHalf(at, n)
  OBVIOUS
<1>6. /\ Halved(at, l, r) /\ l.is_leaf /\ r.is_leaf /\ l.next = n /\ r.next = at.next
  BY <1>2, <1>3, <1>4, <1>5, SplitHalves
<1>7. /\ mem'[c[i]] = l /\ mem'[n] = r
      /\ \A p \in Pages : p # c[i] /\ p # n => mem'[p] = mem[p]
  BY <1>2, <1>3, <1>4, <1>5
<1>8. SplitAt(mem, mem', n, c[i], l, r)
  BY <1>3, <1>4, <1>6, <1>7 DEF SplitAt
<1>9. PICK d : d = Longer(c, n, i)
  OBVIOUS
<1>10. /\ Linked(mem', n + 1, d)
       /\ \A j \in 1..(i - 1) : mem'[d[j]] = mem[c[j]]
       /\ d[i] = c[i]
       /\ \A j \in (i + 2)..(n + 1) : mem'[d[j]] = mem[c[j - 1]]
  <2>1. ChainAfterSplit(mem, mem', n, c, i, Longer(c, n, i))
    BY <1>3, <1>8, SplitStaysLinked
  <2> QED BY <1>9, <2>1 DEF ChainAfterSplit
<1>11. Stored(mem', n + 1) = Stored(mem, n)
  BY <1>3, <1>8, SplitStores
<1>12. op'.kind = "split" /\ op'.key = op.key /\ op'.page = c[i]
  BY <1>2, <1>3 DEF IInv
<1>13. Below(mem', d, i - 1, op.key)
  <2>1. Below(mem, c, i - 1, op.key)
    BY <1>1, <1>2 DEF Here, At
  <2> QED BY <1>10, <2>1 DEF Below
<1>14. Above(mem', n + 1, d, i + 2, op.key)
  <2>1. PICK o : o = op
    OBVIOUS
  <2>2. Above(mem, n, c, i + 1, o.key)
    BY <1>1, <1>2, <1>3, <2>1, LaterAreLarger
  <2>3. \A j \in (i + 2)..(n + 1) : j - 1 \in (i + 1)..n
    BY <1>3, <1>4
  <2> QED BY <1>10, <2>1, <2>2, <2>3 DEF Above
<1>15. \A x \in Stored(mem', n + 1) : x.key # op.key
  BY <1>1, <1>2, <1>11 DEF Here, At
<1>16. i < n + 1 /\ i \in 1..(n + 1)
  BY <1>3, <1>4
<1>17. PICK o2 : o2 = op'
  OBVIOUS
<1>18. At(mem', n + 1, d, i, o2)
  BY <1>10, <1>12, <1>13, <1>14, <1>15, <1>16, <1>17 DEF At
<1>19. Here(mem', next_page_id', d, i, op')
  BY <1>2, <1>10, <1>16, <1>17, <1>18 DEF Here
<1> QED BY <1>2, <1>11, <1>19, GoesOnLinks DEF Kept

(* The map as the index sees it. *)
Held == [k \in Keys |-> Lookup(k)]

(* What a step does to what is stored, it does to the map. *)
LEMMA HeldStays ==
    ASSUME MapHolds, MapHolds', Kept
    PROVE  Held' = Held
<1>1. ASSUME NEW k \in Keys PROVE Lookup(k)' = Lookup(k)
  <2>1. CASE \E x \in Stored(mem, next_page_id) : x.key = k
    BY <2>1 DEF MapHolds, Kept
  <2>2. CASE \A x \in Stored(mem, next_page_id) : x.key # k
    BY <2>2 DEF MapHolds, Kept
  <2> QED BY <2>1, <2>2
<1> QED BY <1>1 DEF Held

(* An entry under a new key, or in place of the one under its key.         *)
LEMMA HeldChanges ==
    ASSUME MapHolds, MapHolds', NEW e, e.key \in Keys, Changed(e)
    PROVE  Held' = [Held EXCEPT ![e.key] = e.val]
<1>1. Lookup(e.key)' = e.val
  BY DEF MapHolds, Changed
<1>2. ASSUME NEW k \in Keys, k # e.key PROVE Lookup(k)' = Lookup(k)
  <2>1. CASE \E x \in Stored(mem, next_page_id) : x.key = k
    BY <1>2, <2>1 DEF MapHolds, Changed
  <2>2. CASE \A x \in Stored(mem, next_page_id) : x.key # k
    BY <1>2, <2>2 DEF MapHolds, Changed
  <2> QED BY <2>1, <2>2
<1> QED BY <1>1, <1>2 DEF Held

(* A search answers with what is stored under its key, or NoValue when it  *)
(* has left every page behind.                                             *)
LEMMA SearchAnswers ==
    ASSUME Faults = {}, IInv, CInv, MapHolds, op # Idle, NEW at \in Fetched, SearchReturns(at)
    PROVE  op.key \in Keys /\ answer' = Lookup(op.key)
<1> DEFINE n == next_page_id
<1>1. PICK c, i : Here(mem, n, c, i, op)
  BY CallIsHere
<1>2. /\ at = mem[c[i]] /\ at \in Page /\ at.is_leaf /\ i \in 1..n /\ i \in Nat /\ op.key \in Keys
      /\ mem \in [Pages -> Page] /\ n \in 1..MaxPages /\ n \in Nat /\ Chain(mem, n, c)
  <2>1. n \in 1..MaxPages => n \in Nat
    BY MaxPagesAssumption
  <2> QED BY <1>1, <2>1, LeafThere, FetchedIsPage
<1>3. \A x \in EntriesOf(at) : x \in Stored(mem, n)
  BY <1>2, StoredOn
<1>4. ASSUME NEW j \in DOMAIN at.entries, IsMatch(at, j), answer' = at.entries[j].val
      PROVE  answer' = Lookup(op.key)
  <2>1. PICK x \in EntriesOf(at) : x = at.entries[j]
    BY DEF EntriesOf
  <2>2. x.key = op.key /\ answer' = x.val /\ x \in Stored(mem, n)
    BY <1>3, <1>4, <2>1 DEF IsMatch
  <2> QED BY <2>2 DEF MapHolds
<1>5. ASSUME WalkEnds(at), answer' = NoValue PROVE answer' = Lookup(op.key)
  <2>1. op.kind = "search"
    BY DEF SearchReturns
  <2>2. \A x \in Stored(mem, n) : x.key # op.key
    BY <1>1, <1>5, <2>1, NothingFound
  <2> QED BY <1>5, <2>2 DEF MapHolds
<1> QED BY <1>2, <1>4, <1>5 DEF SearchReturns

(* The steps of the index, in terms of the tree. *)
IndexNext == \/ UNCHANGED <<Held, answer>>
             \/ \E k \in Keys : \/ answer' = Held[k] /\ UNCHANGED Held
                                \/ \E v \in Values : /\ Held' = [Held EXCEPT ![k] = v]
                                                     /\ UNCHANGED answer

(* Every step keeps the chain, and is a step of the index or none.         *)
LEMMA TreeStep ==
    ASSUME Faults = {}, IInv, IInv', CInv, MapHolds, [Next]_vars
    PROVE  CInv' /\ (MapHolds' => IndexNext)
<1>1. ASSUME NEW k \in Keys, NEW v, NEW kind \in {"search", "find"}, Call(kind, k, v)
      PROVE  CInv' /\ (MapHolds' => IndexNext)
  <2>1. CInv' /\ Kept /\ answer' = answer
    BY <1>1, CallLinks DEF Call
  <2> QED BY <2>1, HeldStays DEF IndexNext
<1>2. ASSUME op # Idle, NEW at \in Fetched, 
             \/ WalkOn(at) \/ FindReturns(at)
             \/ InsertRefused(at) \/ InsertWalk(at) \/ InsertSplit(at)
      PROVE  CInv' /\ (MapHolds' => IndexNext)
  <2>1. CInv' /\ Kept
    BY <1>2, WalkLinks, FindLinks, RefusedLinks, InsertWalkLinks, SplitLinks
  <2>2. answer' = answer
    BY <1>2 DEF WalkOn, FindReturns, InsertRefused, InsertWalk, InsertSplit
  <2> QED BY <2>1, <2>2, HeldStays DEF IndexNext
<1>3. ASSUME op # Idle, NEW at \in Fetched, SearchReturns(at)
      PROVE  CInv' /\ (MapHolds' => IndexNext)
  <2>1. CInv' /\ Kept
    BY <1>3, SearchLinks
  <2>2. op.key \in Keys /\ answer' = Held[op.key]
    BY <1>3, SearchAnswers DEF Held
  <2> QED BY <2>1, <2>2, HeldStays DEF IndexNext
<1>4. ASSUME op # Idle, NEW at \in Fetched, UpdateReturns(at) \/ InsertPlace(at)
      PROVE  CInv' /\ (MapHolds' => IndexNext)
  <2>1. op.key \in Keys /\ op.val \in Values /\ answer' = answer
    BY <1>4 DEF IInv, UpdateReturns, InsertPlace, InsertGoesOn
  <2>2. PICK e : e = [key |-> op.key, val |-> op.val]
    OBVIOUS
  <2>3. CInv' /\ (Kept \/ Changed(e))
    BY <1>4, <2>2, UpdateLinks, PlaceLinks
  <2>4. ASSUME MapHolds', Kept PROVE IndexNext
    BY <2>1, <2>4, HeldStays DEF IndexNext
  <2>5. ASSUME MapHolds', Changed(e) PROVE IndexNext
    <3>1. e.key = op.key /\ e.val = op.val
      BY <2>2
    <3>2. Held' = [Held EXCEPT ![e.key] = e.val]
      BY <2>1, <2>5, <3>1, HeldChanges
    <3> QED BY <2>1, <3>1, <3>2 DEF IndexNext
  <2> QED BY <2>3, <2>4, <2>5
<1>5. CASE UNCHANGED vars
  <2>1. mem' = mem /\ next_page_id' = next_page_id /\ op' = op /\ answer' = answer
    BY <1>5 DEF vars
  <2>2. CInv' /\ Kept
    BY <2>1 DEF CInv, Kept
  <2> QED BY <2>1, <2>2, HeldStays DEF IndexNext
<1>6. CASE Step
  BY <1>2, <1>3, <1>4, <1>6 DEF Step
<1>7. CASE \E k \in Keys : CallSearch(k)
  BY <1>1, <1>7 DEF CallSearch
<1>8. CASE \E k \in Keys, v \in Values : CallAdd(k, v)
  BY <1>1, <1>8 DEF CallAdd
<1>9. ~Crash /\ \A p \in Pages : ~Save(p)
  BY DEF Crash, Save
<1> QED BY <1>5, <1>6, <1>7, <1>8, <1>9 DEF Next

(* Those are the steps of the index. *)
LEMMA IndexStep ==
    ASSUME IndexNext
    PROVE  [Index!Next]_Index!vars
<1>1. CASE UNCHANGED <<Held, answer>>
  BY <1>1 DEF Index!vars, Held
<1>2. ASSUME NEW k \in Keys, answer' = Held[k] /\ UNCHANGED Held PROVE Index!Next
  <2>1. Index!Search(k)
    BY <1>2 DEF Index!Search, Held
  <2> QED BY <2>1 DEF Index!Next
<1>3. ASSUME NEW k \in Keys, NEW v \in Values,
             Held' = [Held EXCEPT ![k] = v], UNCHANGED answer
      PROVE  Index!Next
  <2>1. Index!Insert(k, v) \/ Index!Update(k, v)
    BY <1>3 DEF Index!Insert, Index!Update, Held
  <2> QED BY <2>1 DEF Index!Next
<1> QED BY <1>1, <1>2, <1>3 DEF IndexNext

(* An empty tree is an empty index. *)
LEMMA IndexInit ==
    ASSUME Init
    PROVE  Index!Init
<1>1. IInv /\ CInv
  BY InvariantInit, CInit
<1>2. PICK c : Linked(mem, next_page_id, c)
  BY <1>1 DEF CInv
<1>3. MapHolds
  BY <1>1, <1>2, LookupFinds DEF IInv
<1>4. \A x \in Stored(mem, next_page_id) : FALSE
  <2>1. next_page_id = 1 /\ mem = InitRoot(disk) /\ disk = [p \in Pages |-> BlankPage]
    BY DEF Init
  <2>2. Root = 0 /\ Root \in Pages
    BY MaxPagesAssumption DEF Root, Pages
  <2>3. mem[0].entries = <<>>
    BY <2>1, <2>2 DEF InitRoot, BlankPage, EmptyLeaf
  <2>4. \A p \in 0..(1 - 1) : p = 0
    OBVIOUS
  <2> QED BY <2>1, <2>3, <2>4 DEF Stored, EntriesOf
<1>5. \A k \in Keys : Lookup(k) = NoValue
  BY <1>3, <1>4 DEF MapHolds
<1> QED BY <1>5 DEF Init, Index!Init

(* Without a kill and without a page that cannot be read, the chain of     *)
(* leaves is a map: btree_search answers with the value btree_insert or    *)
(* btree_update wrote last for the key, whatever leaves were split, and    *)
(* the walk of an insert, which stops one leaf after a split               *)
(* (btree.c:184-192), never misses the place of its key.                   *)
THEOREM TreeImplementsIndex == ASSUME Faults = {} PROVE Spec => ImplementsIndex
<1>1. IInv /\ CInv => MapHolds
  BY LookupFinds DEF IInv, CInv
<1>2. IInv /\ IInv' /\ CInv /\ MapHolds /\ [Next]_vars => CInv'
  BY TreeStep
<1>3. IInv /\ IInv' /\ CInv /\ MapHolds /\ MapHolds' /\ [Next]_vars => [Index!Next]_Index!vars
  BY TreeStep, IndexStep
<1>4. Spec => []IInv
  BY InductiveInvariant
<1>5. Spec => [](IInv /\ CInv /\ MapHolds)
  BY <1>1, <1>2, <1>4, CInit, PTL DEF Spec
<1>6. Spec => Index!Init /\ [][Index!Next]_Index!vars
  BY <1>3, <1>5, IndexInit, PTL DEF Spec
<1> QED BY <1>6 DEF ImplementsIndex, Index!Spec
================================================================================
