------------------------------ MODULE ShardProofs ------------------------------
(***************************************************************************)
(* Theorems about Shard for any terms, texts, page sizes and bounds:       *)
(* every page keeps its layout and deletions in the file stay, whatever    *)
(* fails; records stay as long as no .meta file is saved; document ids and *)
(* pages are given out once as long as the process is not killed and every *)
(* closing saves .meta; and if no write of a new page fails either, a      *)
(* search lists what a scan finds, and the shard implements DocStore.      *)
(***************************************************************************)
EXTENDS Shard, PostingListsProofs

Records == [node : Nat, doc : Nat]

(* The posting pages the tree names, and what holds of the pages of memory *)
(* and of the file alike: only pages behind the first two hold records,    *)
(* and the tree names none of the first three.                             *)
HeadsOf(m) == IF m[Root].kind = "tree"
              THEN {m[Root].head[t] : t \in AllTerms} \ {NoPage} ELSE {}

PagesOk(m) ==
    /\ m = [p \in Pages |-> m[p]]
    /\ m[Root].kind = "tree" => m[Root].head = [t \in AllTerms |-> m[Root].head[t]]
    /\ \A h \in HeadsOf(m) : h \in Nat /\ h >= FirstFree
    /\ \A p \in Pages : Slotted(m[p]) => p >= FirstData /\ m[p].slots \in Seq(Records)

CountersOk ==
    /\ file_pages \in Nat
    /\ meta \in [next_page_id : Nat, next_doc_id : Nat, total_docs : Nat]
    /\ meta # NoMeta => meta.next_page_id >= FirstFree
    /\ shard \in [next_page_id : Nat, active_data_page_id : Nat,
                   next_doc_id : Nat, total_docs : Nat]
    /\ shard.next_page_id >= FirstFree
    /\ shard.active_data_page_id \in FirstData..(shard.next_page_id - 1)

CallOk ==
    /\ phase \in {"closed", "open", "inserting", "truncated", "described"}
    /\ given \in Seq([doc : Nat, text : Texts])
    /\ insert = [loc |-> insert.loc, added |-> insert.added] /\ insert.added \in Nat
    /\ phase = "inserting" => given # <<>>
    /\ phase # "closed" => file_pages > 0 /\ mem[Root].kind = "tree"

BInv == PagesOk(mem) /\ PagesOk(disk) /\ CountersOk /\ CallOk

(* Deletions: memory has every bit of the file, and an empty file none. *)
DInv == /\ Bits(disk) \subseteq Bits(mem)
        /\ file_pages = 0 => Bits(disk) = {}

(* Records, without a .meta file.  Page numbers above next_page_id have    *)
(* never been used, and what the file has of a page lies within its        *)
(* length; the pages the tree names hold no records, neither in memory nor *)
(* in the file; memory has every record the file has.                      *)
FileInv ==
    /\ meta = NoMeta
    /\ phase = "closed" => mem = disk
    /\ phase # "closed" => /\ file_pages <= shard.next_page_id
                           /\ \A p \in Pages : p >= shard.next_page_id => mem[p] = disk[p]
    /\ \A p \in Pages : p >= file_pages => disk[p] = ZeroPage

HeadInv == \A h \in HeadsOf(mem) \cup HeadsOf(disk) :
              /\ h < file_pages
              /\ h \in Pages => ~Slotted(mem[h]) /\ ~Slotted(disk[h])

KeptInv == \A p \in Pages :
              Slotted(disk[p]) => /\ Slotted(mem[p])
                                  /\ NodesOf(disk[p].slots) \subseteq NodesOf(mem[p].slots)

RInv == FileInv /\ HeadInv /\ KeptInv
-----------------------------------------------------------------------------
(* Facts about the operators of the model. *)

(* The page a shard goes on with when it is opened has been allocated. *)
LEMMA LastDataPageIn ==
    ASSUME NEW m, NEW n \in Nat, n >= FirstFree
    PROVE  LastDataPage(m, n) \in FirstData..(n - 1)
<1> DEFINE data == {p \in FirstData..(n - 1) : LooksLikeData(m[p])}
<1>1. CASE data = {}
  BY <1>1 DEF LastDataPage, FirstData, FirstFree
<1>2. CASE data # {}
  <2>1. data \in SUBSET Nat /\ \A p \in data : p <= n
    BY DEF FirstData
  <2>2. \E p \in data : \A q \in data : q <= p
    <3> HIDE DEF data
    <3> QED BY <1>2, <2>1, GreatestOne
  <2>3. LastDataPage(m, n) = CHOOSE p \in data : \A q \in data : q <= p
    BY <1>2 DEF LastDataPage
  <2>4. LastDataPage(m, n) \in data
    <3> HIDE DEF data
    <3> QED BY <2>2, <2>3
  <2> QED BY <2>4
<1> QED BY <1>1, <1>2

(* inverted_index_add_posting writes the head page of the term or a new    *)
(* page that becomes its head, and nothing else.                           *)
PostingAdded(h, m, n, t, ix) ==
    \E q : /\ q.kind = "posting"
           /\ \/ /\ h[t] # NoPage
                 /\ ix = [head |-> h, pages |-> [m EXCEPT ![h[t]] = q], next_page_id |-> n]
              \/ ix = [head |-> [h EXCEPT ![t] = n], pages |-> [m EXCEPT ![n] = q],
                       next_page_id |-> n + 1]

(* AddPosting writes one page, which then is a page of postings, and at    *)
(* most the head of its term.                                              *)
LEMMA AddPostingWrites ==
    ASSUME NEW h, NEW m, NEW n, NEW t, NEW doc, NEW loc, NEW pos, NEW added,
           added = AddPosting([head |-> h, pages |-> m, next_page_id |-> n], t, doc, loc, pos)
    PROVE  PostingAdded(h, m, n, t, added)
<1>1. \A s, x : PostingPage(s, x).kind = "posting"
  BY DEF PostingPage
<1>2. OnHead(h, m, n, t, doc, loc, pos, added) \/ OnNew(h, m, n, t, doc, loc, pos, added)
  BY AddPostingCases
<1>3. CASE OnHead(h, m, n, t, doc, loc, pos, added)
  <2>1. PICK q : /\ PageAfter(AsPostings(m[h[t]]), doc, loc, pos, q)
                 /\ added = [head |-> h, pages |-> [m EXCEPT ![h[t]] = q], next_page_id |-> n]
    BY <1>3 DEF OnHead
  <2>2. q.kind = "posting"
    BY <1>1, <2>1 DEF PageAfter
  <2> QED BY <1>3, <2>1, <2>2 DEF OnHead, PostingAdded
<1>4. CASE OnNew(h, m, n, t, doc, loc, pos, added)
  BY <1>1, <1>4 DEF OnNew, PostingAdded
<1> QED BY <1>2, <1>3, <1>4

(* The last member of a sequence is one of the set it is over. *)
LEMMA LastIn ==
    ASSUME NEW S, NEW s \in Seq(S), s # <<>>
    PROVE  Last(s) \in S
<1>1. Len(s) \in DOMAIN s
  OBVIOUS
<1> QED BY <1>1 DEF Last

(* A page that gets a record keeps those it had. *)
LEMMA AppendKeeps ==
    ASSUME NEW s \in Seq(Records), NEW r \in Records
    PROVE  /\ Append(s, r) \in Seq(Records)
           /\ NodesOf(s) \subseteq NodesOf(Append(s, r))
<1>1. Append(s, r) \in Seq(Records) /\ \A i \in DOMAIN s : /\ i \in DOMAIN Append(s, r)
                                                           /\ Append(s, r)[i] = s[i]
  OBVIOUS
<1> QED BY <1>1 DEF NodesOf

(* Writing a page other than the root keeps pages well formed. *)
LEMMA WritePage ==
    ASSUME NEW m, PagesOk(m), NEW p \in Nat, NEW q, p # Root,
           p \in Pages /\ Slotted(q) => p >= FirstData /\ q.slots \in Seq(Records)
    PROVE  /\ PagesOk([m EXCEPT ![p] = q])
           /\ HeadsOf([m EXCEPT ![p] = q]) = HeadsOf(m)
           /\ [m EXCEPT ![p] = q][Root] = m[Root]
<1> DEFINE w == [m EXCEPT ![p] = q]
<1>0. DOMAIN m = Pages
  BY DEF PagesOk
<1>1. w[Root] = m[Root]
  BY <1>0, ShardBoundsAssumption DEF Root, Pages, FirstFree
<1>2. w = [x \in Pages |-> w[x]]
  BY <1>0
<1>3. \A x \in Pages : w[x] = IF x = p THEN q ELSE m[x]
  BY <1>0
<1>4. HeadsOf(w) = HeadsOf(m)
  BY <1>1 DEF HeadsOf
<1>5. PagesOk(w)
  <2> HIDE DEF w
  <2> QED BY <1>1, <1>2, <1>3, <1>4 DEF PagesOk
<1> QED BY <1>1, <1>4, <1>5

(* Writing a tree on the root page. *)
TreeOk(h) == /\ h = [t \in AllTerms |-> h[t]]
             /\ \A t \in AllTerms : h[t] = NoPage \/ (h[t] \in Nat /\ h[t] >= FirstFree)

(* The pages w are those of m with the tree of h on the root page. *)
RootWritten(m, h, w) ==
    /\ PagesOk(w) /\ HeadsOf(w) = {h[t] : t \in AllTerms} \ {NoPage}
    /\ w[Root] = TreePage(h)
    /\ \A x \in Pages \ {Root} : w[x] = m[x]

(* Writing the root changes the heads and no other page. *)
LEMMA WriteRoot ==
    ASSUME NEW m, PagesOk(m), NEW h, TreeOk(h)
    PROVE  RootWritten(m, h, [m EXCEPT ![Root] = TreePage(h)])
<1> DEFINE w == [m EXCEPT ![Root] = TreePage(h)]
<1>0. DOMAIN m = Pages /\ Root \in Pages
  BY ShardBoundsAssumption DEF PagesOk, Root, Pages, FirstFree
<1>1. w[Root] = TreePage(h) /\ TreePage(h).kind = "tree" /\ TreePage(h).head = h
  BY <1>0 DEF TreePage
<1>2. w = [x \in Pages |-> w[x]] /\ \A x \in Pages \ {Root} : w[x] = m[x]
  BY <1>0
<1>3. HeadsOf(w) = {h[t] : t \in AllTerms} \ {NoPage}
  BY <1>1 DEF HeadsOf
<1>4. ~Slotted(w[Root])
  BY <1>1 DEF Slotted
<1>5. PagesOk(w)
  <2> HIDE DEF w
  <2> QED BY <1>1, <1>2, <1>3, <1>4 DEF PagesOk, TreeOk
<1> QED BY <1>1, <1>2, <1>3, <1>5 DEF RootWritten

(* The record of an insert goes to the active page behind the records it   *)
(* has, or, if it has none and lies past the end of the file, as its       *)
(* first; or to a new page.                                                *)
LEMMA PlacedWrites ==
    ASSUME BInv, phase # "closed", NEW rec \in Records
    PROVE  LET new == Placed(rec)
               active == shard.active_data_page_id
               next == shard.next_page_id
           IN  \E q : /\ Slotted(q)
                      /\ new.at \in Pages => q.slots \in Seq(Records)
                      /\ new.pages = [mem EXCEPT ![new.at] = q]
                      /\ \/ /\ new.at = active /\ new.next = next
                            /\ \/ active >= file_pages
                               \/ active \in Pages =>
                                     /\ Slotted(mem[active])
                                     /\ NodesOf(mem[active].slots) \subseteq NodesOf(q.slots)
                         \/ new.at = next /\ new.next = next + 1
<1> DEFINE active == shard.active_data_page_id
           next == shard.next_page_id
           page == Fetched(active)
<1>0. /\ \A kind, slots : SlottedPage(kind, slots).kind = kind
      /\ \A kind, slots : SlottedPage(kind, slots).slots = slots
  BY DEF SlottedPage
<1>1. CASE HasSlot(page)
  <2> DEFINE q == SlottedPage(page.kind, Append(page.slots, rec))
  <2>1. Slotted(q) /\ q.slots = Append(page.slots, rec)
    BY <1>0, <1>1 DEF HasSlot, Slotted
  <2>2. /\ Placed(rec).pages = [mem EXCEPT ![active] = q]
        /\ Placed(rec).at = active /\ Placed(rec).next = next
    BY <1>1 DEF Placed
  <2>3. active \in Pages => page.slots \in Seq(Records)
    <3>1. CASE page = mem[active]
      BY <1>1, <3>1 DEF HasSlot, BInv, PagesOk
    <3>2. CASE page = SlottedPage("row", <<>>)
      <4>1. page.slots = <<>>
        BY <1>0, <3>2
      <4>2. <<>> \in Seq(Records)
        OBVIOUS
      <4> QED BY <4>1, <4>2
    <3> QED BY <3>1, <3>2 DEF Fetched
  <2>4. active \in Pages => /\ q.slots \in Seq(Records)
                            /\ NodesOf(page.slots) \subseteq NodesOf(q.slots)
    BY <2>1, <2>3, AppendKeeps
  <2>5. active >= file_pages \/ page = mem[active]
    BY DEF Fetched
  <2>6. \/ active >= file_pages
        \/ active \in Pages => /\ Slotted(mem[active])
                               /\ NodesOf(mem[active].slots) \subseteq NodesOf(q.slots)
    BY <1>1, <2>4, <2>5 DEF HasSlot
  <2> HIDE DEF q
  <2> QED BY <2>1, <2>2, <2>4, <2>6
<1>2. CASE ~HasSlot(page)
  <2>1. Slotted(SlottedPage("data", <<rec>>)) /\ SlottedPage("data", <<rec>>).slots \in Seq(Records)
    BY <1>0 DEF Slotted
  <2>2. /\ Placed(rec).pages = [mem EXCEPT ![next] = SlottedPage("data", <<rec>>)]
        /\ Placed(rec).at = next /\ Placed(rec).next = next + 1
    BY <1>2 DEF Placed
  <2> QED BY <2>1, <2>2
<1> QED BY <1>1, <1>2

(* The pages shard_init makes out of those of the file. *)
LEMMA OpenedPagesOk ==
    ASSUME BInv
    PROVE  /\ PagesOk(OpenedPages)
           /\ OpenedPages[Root].kind = "tree"
           /\ \A h \in HeadsOf(OpenedPages) : h \in HeadsOf(disk)
           /\ file_pages > 0 => \A p \in Pages \ {Root} : OpenedPages[p] = disk[p]
           /\ file_pages = 0 => \A p \in Pages \ {Root} :
                 OpenedPages[p] = IF p = Tombstone THEN TombstonePage({})
                                  ELSE IF p = FirstData THEN DataPage(<<>>) ELSE disk[p]
           /\ \/ OpenedPages[Root] = disk[Root]
              \/ disk[Root].kind # "tree" /\ OpenedPages[Root] = TreePage([t \in AllTerms |-> NoPage])
<1> DEFINE one   == [disk EXCEPT ![Tombstone] = TombstonePage({})]
           two   == [one EXCEPT ![FirstData] = DataPage(<<>>)]
           first == IF file_pages > 0 THEN disk ELSE two
           none  == [t \in AllTerms |-> NoPage]
<1>0. /\ Root = 0 /\ Tombstone = 1 /\ FirstData = 2 /\ {0, 1, 2} \subseteq Pages
      /\ DOMAIN disk = Pages
  BY ShardBoundsAssumption DEF Root, Tombstone, FirstData, Pages, FirstFree, BInv, PagesOk
<1>1. PagesOk(disk)
  BY DEF BInv
<1>2. ~Slotted(TombstonePage({})) /\ Slotted(DataPage(<<>>)) /\ DataPage(<<>>).slots \in Seq(Records)
  BY DEF Slotted, TombstonePage, DataPage, SlottedPage
<1>3. PagesOk(one) /\ HeadsOf(one) = HeadsOf(disk) /\ one[Root] = disk[Root]
  BY <1>0, <1>1, <1>2, WritePage
<1>4. PagesOk(two) /\ HeadsOf(two) = HeadsOf(disk) /\ two[Root] = disk[Root]
  <2> HIDE DEF one
  <2> QED BY <1>0, <1>2, <1>3, WritePage
<1>5. PagesOk(first) /\ HeadsOf(first) = HeadsOf(disk) /\ first[Root] = disk[Root]
  BY <1>1, <1>4
<1>6. /\ file_pages > 0 => first = disk
      /\ file_pages = 0 => \A p \in Pages \ {Root} :
            first[p] = IF p = Tombstone THEN TombstonePage({})
                       ELSE IF p = FirstData THEN DataPage(<<>>) ELSE disk[p]
  BY <1>0
<1>7. /\ PagesOk([first EXCEPT ![Root] = TreePage(none)])
      /\ HeadsOf([first EXCEPT ![Root] = TreePage(none)]) = {}
      /\ [first EXCEPT ![Root] = TreePage(none)][Root] = TreePage(none)
      /\ \A x \in Pages \ {Root} : [first EXCEPT ![Root] = TreePage(none)][x] = first[x]
  <2>1. TreeOk(none) /\ \A t \in AllTerms : none[t] = NoPage
    BY DEF TreeOk
  <2>2. {none[t] : t \in AllTerms} \ {NoPage} = {}
    BY <2>1
  <2>3. PagesOk(first)
    BY <1>5
  <2> HIDE DEF first, none
  <2>4. /\ PagesOk([first EXCEPT ![Root] = TreePage(none)])
        /\ HeadsOf([first EXCEPT ![Root] = TreePage(none)]) = {none[t] : t \in AllTerms} \ {NoPage}
        /\ [first EXCEPT ![Root] = TreePage(none)][Root] = TreePage(none)
        /\ \A x \in Pages \ {Root} : [first EXCEPT ![Root] = TreePage(none)][x] = first[x]
    BY <2>1, <2>3, WriteRoot DEF RootWritten
  <2> QED BY <2>2, <2>4
<1>8. TreePage(none).kind = "tree"
  BY DEF TreePage
<1>9. OpenedPages = IF first[Root].kind = "tree" THEN first ELSE [first EXCEPT ![Root] = TreePage(none)]
  BY DEF OpenedPages, NoPage
<1> HIDE DEF first, none
<1>10. CASE first[Root].kind = "tree"
  BY <1>5, <1>6, <1>9, <1>10
<1>11. CASE first[Root].kind # "tree"
  <2>1. OpenedPages = [first EXCEPT ![Root] = TreePage(none)] /\ disk[Root].kind # "tree"
    BY <1>5, <1>9, <1>11
  <2> QED BY <1>6, <1>7, <1>8, <2>1 DEF none
<1> QED BY <1>10, <1>11
-----------------------------------------------------------------------------
(* What holds in every state, whatever fails. *)

(* BInv holds at the start. *)
LEMMA BInit == Init => BInv
<1> SUFFICES ASSUME Init PROVE BInv
  OBVIOUS
<1>1. \A p \in Pages : disk[p].kind = "zero" /\ ~Slotted(disk[p])
  BY DEF Init, ZeroPage, Slotted
<1>2. Root \in Pages
  BY ShardBoundsAssumption DEF Root, Pages, FirstFree
<1>3. PagesOk(disk)
  BY <1>1, <1>2 DEF Init, PagesOk, HeadsOf
<1>4. CountersOk
  BY DEF Init, CountersOk, NoMeta, Fresh, FirstFree, FirstData
<1>5. CallOk
  BY DEF Init, CallOk, NoInsert
<1> QED BY <1>3, <1>4, <1>5 DEF BInv, Init

(* Allocating pages only writes zeros, behind the first three pages. *)
LEMMA AllocatedOk ==
    ASSUME BInv, NEW next \in Nat, Allocated(next)
    PROVE  /\ PagesOk(disk')
           /\ HeadsOf(disk') = HeadsOf(disk)
           /\ Bits(disk') = Bits(disk)
           /\ \A p \in Pages : disk'[p] = IF p \in shard.next_page_id..(next - 1)
                                         THEN ZeroPage ELSE disk[p]
           /\ file_pages' \in Nat /\ file_pages' >= file_pages
           /\ file_pages' = file_pages \/ file_pages' = next
           /\ next > shard.next_page_id => file_pages' >= next
<1>0. /\ shard.next_page_id \in Nat /\ shard.next_page_id >= 3 /\ file_pages \in Nat
      /\ Root = 0 /\ Tombstone = 1 /\ Root \in Pages /\ Tombstone \in Pages
  BY ShardBoundsAssumption DEF BInv, CountersOk, FirstFree, Root, Tombstone, Pages
<1>1. \A p \in Pages : disk'[p] = IF p \in shard.next_page_id..(next - 1)
                                THEN ZeroPage ELSE disk[p]
  BY DEF Allocated
<1>2. disk' = [p \in Pages |-> disk'[p]]
  BY DEF Allocated
<1>3. disk'[Root] = disk[Root] /\ disk'[Tombstone] = disk[Tombstone]
  BY <1>0, <1>1
<1>4. HeadsOf(disk') = HeadsOf(disk) /\ Bits(disk') = Bits(disk)
  BY <1>3 DEF HeadsOf, Bits
<1>5. ~Slotted(ZeroPage)
  BY DEF Slotted, ZeroPage
<1>6. PagesOk(disk')
  BY <1>1, <1>2, <1>3, <1>4, <1>5 DEF BInv, PagesOk
<1>7. /\ file_pages' \in Nat /\ file_pages' >= file_pages
      /\ file_pages' = file_pages \/ file_pages' = next
      /\ next > shard.next_page_id => file_pages' >= next
  <2>1. next > shard.next_page_id => shard.next_page_id..(next - 1) # {}
    BY <1>0
  <2>2. file_pages' = file_pages \/ (next > shard.next_page_id /\ file_pages' = next)
    BY <1>0 DEF Allocated
  <2> QED BY <1>0, <2>1, <2>2 DEF Allocated
<1> QED BY <1>1, <1>4, <1>6, <1>7

(* Open keeps BInv. *)
LEMMA OpenKeepsB == ASSUME BInv, Open PROVE BInv'
<1>1. Counters.next_page_id \in Nat /\ Counters.next_page_id >= FirstFree
      /\ Counters.next_doc_id \in Nat /\ Counters.total_docs \in Nat
  <2>1. CASE meta # NoMeta
    BY <2>1 DEF Counters, BInv, CountersOk
  <2>2. CASE meta = NoMeta
    BY <2>2 DEF Counters, CountersFromLength, BInv, CountersOk, FirstFree
  <2> QED BY <2>1, <2>2
<1>2. LastDataPage(OpenedPages, Counters.next_page_id) \in FirstData..(Counters.next_page_id - 1)
  BY <1>1, LastDataPageIn
<1>3. PagesOk(mem') /\ mem'[Root].kind = "tree"
  BY OpenedPagesOk DEF Open
<1>4. PagesOk(disk')
  BY DEF BInv, Open
<1>5. CountersOk'
  <2>1. shard' \in [next_page_id : Nat, active_data_page_id : Nat,
                    next_doc_id : Nat, total_docs : Nat]
        /\ shard'.next_page_id >= FirstFree
        /\ shard'.active_data_page_id \in FirstData..(shard'.next_page_id - 1)
    BY <1>1, <1>2 DEF Open, FirstData
  <2>2. file_pages' \in Nat /\ meta' = meta
    BY DEF Open, BInv, CountersOk, FirstFree
  <2> QED BY <2>1, <2>2 DEF CountersOk, BInv
<1>6. CallOk'
  <2>1. file_pages' > 0
    BY DEF Open, BInv, CountersOk, FirstFree
  <2>2. phase' = "open" /\ given' = given /\ insert' = insert
    BY DEF Open
  <2> QED BY <1>3, <2>1, <2>2 DEF BInv, CallOk
<1> QED BY <1>3, <1>4, <1>5, <1>6 DEF BInv

(* The effect of the first step of an insert, in terms of the page written *)
(* and its new contents.                                                   *)
RecordOnPage(at, q) ==
    /\ at \in Nat /\ at >= FirstData
    /\ Slotted(q)
    /\ at \in Pages => q.slots \in Seq(Records)
    /\ mem' = [mem EXCEPT ![at] = q]
    /\ \/ /\ at = shard.active_data_page_id /\ Allocated(shard.next_page_id)
          /\ shard'.next_page_id = shard.next_page_id
          /\ \/ at >= file_pages
             \/ at \in Pages => /\ Slotted(mem[at])
                               /\ NodesOf(mem[at].slots) \subseteq NodesOf(q.slots)
       \/ /\ at = shard.next_page_id /\ Allocated(shard.next_page_id + 1)
          /\ shard'.next_page_id = shard.next_page_id + 1
    /\ shard' = [next_page_id |-> shard'.next_page_id, active_data_page_id |-> at,
                 next_doc_id |-> shard.next_doc_id + 1, total_docs |-> shard.total_docs + 1]

(* insert_document puts the record on the active page or on a new one. *)
LEMMA InsertRecordEffect ==
    ASSUME BInv, NEW text \in Texts, InsertRecord(text)
    PROVE  \E at, q : RecordOnPage(at, q)
<1> DEFINE rec  == [node |-> Len(given) + 1, doc |-> shard.next_doc_id]
           next == shard.next_page_id
           active == shard.active_data_page_id
<1>0. /\ Len(given) \in Nat /\ shard.next_doc_id \in Nat /\ phase # "closed"
      /\ next \in Nat /\ active \in Nat /\ next >= 3 /\ active >= 2
  BY DEF BInv, CallOk, CountersOk, InsertRecord, FirstData, FirstFree
<1>1. rec \in Records
  BY <1>0 DEF Records
<1>2. /\ mem' = Placed(rec).pages /\ Allocated(Placed(rec).next)
      /\ shard' = [next_page_id |-> Placed(rec).next, active_data_page_id |-> Placed(rec).at,
                   next_doc_id |-> shard.next_doc_id + 1, total_docs |-> shard.total_docs + 1]
  BY DEF InsertRecord
<1> HIDE DEF rec
<1>3. PICK q : /\ Slotted(q)
               /\ Placed(rec).at \in Pages => q.slots \in Seq(Records)
               /\ Placed(rec).pages = [mem EXCEPT ![Placed(rec).at] = q]
               /\ \/ /\ Placed(rec).at = active /\ Placed(rec).next = next
                     /\ \/ active >= file_pages
                        \/ active \in Pages =>
                              /\ Slotted(mem[active])
                              /\ NodesOf(mem[active].slots) \subseteq NodesOf(q.slots)
                  \/ Placed(rec).at = next /\ Placed(rec).next = next + 1
  BY <1>0, <1>1, PlacedWrites
<1>4. PICK at : at = Placed(rec).at
  OBVIOUS
<1>5. shard'.next_page_id = Placed(rec).next
  BY <1>2
<1>6. RecordOnPage(at, q)
  BY <1>0, <1>2, <1>3, <1>4, <1>5 DEF RecordOnPage, FirstData
<1> QED BY <1>6

(* Of RecordOnPage, what both invariants below need. *)
LEMMA RecordCounters ==
    ASSUME BInv, NEW at, NEW q, RecordOnPage(at, q)
    PROVE  /\ PagesOk(mem') /\ PagesOk(disk') /\ mem'[Root] = mem[Root]
           /\ HeadsOf(mem') = HeadsOf(mem) /\ HeadsOf(disk') = HeadsOf(disk)
           /\ Bits(mem') = Bits(mem) /\ Bits(disk') = Bits(disk)
           /\ file_pages' \in Nat /\ file_pages' >= file_pages
           /\ \A p \in Pages \ {at} : mem'[p] = mem[p]
           /\ at \in Pages => mem'[at] = q
<1>0. /\ PagesOk(mem) /\ at \in Nat /\ at >= FirstData /\ at # Root /\ at # Tombstone
      /\ at \in Pages /\ Slotted(q) => at >= FirstData /\ q.slots \in Seq(Records)
      /\ mem' = [mem EXCEPT ![at] = q]
  BY DEF RecordOnPage, BInv, FirstData, Root, Tombstone
<1>1. PagesOk(mem') /\ HeadsOf(mem') = HeadsOf(mem) /\ mem'[Root] = mem[Root]
  BY <1>0, WritePage
<1>2. DOMAIN mem = Pages /\ Tombstone \in Pages
  BY <1>0, ShardBoundsAssumption DEF PagesOk, Tombstone, Pages, FirstFree
<1>3. (\A p \in Pages \ {at} : mem'[p] = mem[p]) /\ (at \in Pages => mem'[at] = q)
  <2>1. PICK m : m = mem /\ DOMAIN m = Pages
    BY <1>2
  <2>2. mem' = [m EXCEPT ![at] = q]
    BY <1>0, <2>1
  <2> QED BY <2>1, <2>2
<1>4. Bits(mem') = Bits(mem)
  BY <1>0, <1>2, <1>3 DEF Bits
<1>5. PICK next \in Nat : Allocated(next)
  BY DEF RecordOnPage, BInv, CountersOk
<1> QED BY <1>1, <1>3, <1>4, <1>5, AllocatedOk

(* InsertRecord keeps BInv. *)
LEMMA InsertRecordKeepsB ==
    ASSUME BInv, NEW text \in Texts, InsertRecord(text) PROVE BInv'
<1>0. /\ given \in Seq([doc : Nat, text : Texts]) /\ shard.total_docs \in Nat
      /\ shard.next_doc_id \in Nat /\ shard.next_page_id \in Nat /\ shard.next_page_id >= 3
      /\ shard.active_data_page_id < shard.next_page_id
      /\ file_pages \in Nat /\ file_pages > 0 /\ mem[Root].kind = "tree"
  BY DEF BInv, CallOk, CountersOk, InsertRecord, FirstData, FirstFree
<1>1. PICK at, q : RecordOnPage(at, q)
  BY InsertRecordEffect
<1>2. /\ PagesOk(mem') /\ PagesOk(disk') /\ mem'[Root] = mem[Root]
      /\ file_pages' \in Nat /\ file_pages' >= file_pages
  BY <1>1, RecordCounters
<1>3. CountersOk'
  <2>1. /\ shard'.next_page_id \in Nat /\ shard'.next_page_id >= 3 /\ at \in Nat
        /\ at >= 2 /\ at < shard'.next_page_id
    BY <1>0, <1>1 DEF RecordOnPage, FirstData
  <2>2. shard' = [next_page_id |-> shard'.next_page_id, active_data_page_id |-> at,
                  next_doc_id |-> shard.next_doc_id + 1, total_docs |-> shard.total_docs + 1]
    BY <1>1 DEF RecordOnPage
  <2>3. /\ shard'.active_data_page_id = at
        /\ shard' \in [next_page_id : Nat, active_data_page_id : Nat,
                       next_doc_id : Nat, total_docs : Nat]
    BY <1>0, <2>1, <2>2
  <2>4. meta' = meta
    BY DEF InsertRecord
  <2> QED BY <1>2, <2>1, <2>3, <2>4 DEF BInv, CountersOk, FirstFree, FirstData
<1>4. CallOk'
  <2>1. /\ given' = Append(given, [doc |-> shard.next_doc_id, text |-> text])
        /\ insert' = [loc |-> insert'.loc, added |-> 0] /\ phase' = "inserting"
    BY DEF InsertRecord
  <2>2. [doc |-> shard.next_doc_id, text |-> text] \in [doc : Nat, text : Texts]
    BY <1>0
  <2>3. given' \in Seq([doc : Nat, text : Texts]) /\ given' # <<>>
    <3>1. PICK g, r : /\ g = given /\ r = [doc |-> shard.next_doc_id, text |-> text]
                      /\ g \in Seq([doc : Nat, text : Texts])
                      /\ r \in [doc : Nat, text : Texts]
      BY <1>0, <2>2
    <3>2. given' = Append(g, r)
      BY <2>1, <3>1
    <3> QED BY <3>1, <3>2
  <2>4. insert' = [loc |-> insert'.loc, added |-> insert'.added] /\ insert'.added \in Nat
    <3>1. PICK loc : insert' = [loc |-> loc, added |-> 0]
      BY <2>1
    <3> QED BY <3>1
  <2>5. file_pages' > 0 /\ mem'[Root].kind = "tree"
    BY <1>0, <1>2
  <2> QED BY <2>1, <2>3, <2>4, <2>5 DEF CallOk
<1> QED BY <1>2, <1>3, <1>4 DEF BInv

(* A refused insert keeps BInv. *)
LEMMA InsertRefusedKeepsB == ASSUME BInv, InsertRefused PROVE BInv'
<1>1. /\ shard' = [shard EXCEPT !.next_page_id = shard.next_page_id + 1,
                               !.active_data_page_id = shard.next_page_id,
                               !.next_doc_id = shard.next_doc_id + 1]
      /\ UNCHANGED <<mem, disk, file_pages, meta, phase, given, insert>>
  BY DEF InsertRefused
<1>2. /\ shard' \in [next_page_id : Nat, active_data_page_id : Nat,
                     next_doc_id : Nat, total_docs : Nat]
      /\ shard'.next_page_id = shard.next_page_id + 1
      /\ shard'.active_data_page_id = shard.next_page_id
  <2>1. shard \in [next_page_id : Nat, active_data_page_id : Nat,
                   next_doc_id : Nat, total_docs : Nat]
    BY DEF BInv, CountersOk
  <2>2. shard' = [next_page_id |-> shard.next_page_id + 1,
                  active_data_page_id |-> shard.next_page_id,
                  next_doc_id |-> shard.next_doc_id + 1, total_docs |-> shard.total_docs]
    BY <1>1, <2>1
  <2> QED BY <2>1, <2>2
<1>3. CountersOk'
  BY <1>1, <1>2 DEF BInv, CountersOk, FirstFree, FirstData
<1>4. CallOk'
  BY <1>1 DEF BInv, CallOk
<1>5. PagesOk(mem') /\ PagesOk(disk')
  BY <1>1 DEF BInv
<1> QED BY <1>3, <1>4, <1>5 DEF BInv

(* The effect of one posting: it changes the head page of the term, or a   *)
(* page allocated for it that the tree names from then on; or the page     *)
(* could not be written and only the counter has moved.                    *)
PostingOnHead(h) ==
    /\ h \in HeadsOf(mem)
    /\ h \in Pages => ~Slotted(mem'[h])
    /\ \A p \in Pages \ {Root, h} : mem'[p] = mem[p]
    /\ HeadsOf(mem') = HeadsOf(mem)
    /\ disk' = disk /\ file_pages' = file_pages /\ shard' = shard

PostingOnNew ==
    /\ shard.next_page_id \in Pages => ~Slotted(mem'[shard.next_page_id])
    /\ \A p \in Pages \ {Root, shard.next_page_id} : mem'[p] = mem[p]
    /\ HeadsOf(mem') \subseteq HeadsOf(mem) \cup {shard.next_page_id}
    /\ Allocated(shard.next_page_id + 1)
    /\ shard' = [shard EXCEPT !.next_page_id = shard.next_page_id + 1]

PostingLost ==
    /\ mem' = mem /\ disk' = disk /\ file_pages' = file_pages
    /\ shard' = [shard EXCEPT !.next_page_id = shard.next_page_id + 1]

(* What the insert of one posting does to the pages: the head of its term, *)
(* a new page, or nothing after a failed write.                            *)
LEMMA PostingEffect ==
    ASSUME BInv, InsertPosting
    PROVE  /\ PagesOk(mem') /\ mem'[Root].kind = "tree"
           /\ (\E h : PostingOnHead(h)) \/ PostingOnNew \/ PostingLost
<1> DEFINE rec  == Last(given)
           t    == TermToAdd(rec.text, insert.added + 1)
           head == mem[Root].head
           next == shard.next_page_id
           ix   == AddPosting([head |-> head, pages |-> mem, next_page_id |-> next],
                              t.term, rec.doc, insert.loc, t.pos)
<1>0. /\ given \in Seq([doc : Nat, text : Texts]) /\ given # <<>> /\ insert.added \in Nat
      /\ next \in Nat /\ next >= 3 /\ Root = 0 /\ FirstData = 2 /\ FirstFree = 3
      /\ PagesOk(mem) /\ PagesOk(disk) /\ mem[Root].kind = "tree"
      /\ shard \in [next_page_id : Nat, active_data_page_id : Nat,
                    next_doc_id : Nat, total_docs : Nat]
  BY DEF BInv, CallOk, CountersOk, InsertPosting, Root, FirstData, FirstFree
<1>1. rec \in [doc : Nat, text : Texts]
  <2> DEFINE Given == [doc : Nat, text : Texts]
  <2>1. given \in Seq(Given) /\ given # <<>>
    BY <1>0
  <2> HIDE DEF Given
  <2>2. Last(given) \in Given
    BY <2>1, LastIn
  <2> QED BY <2>2 DEF Given
<1>2. t.term \in AllTerms
  <2>1. rec.text \in Seq(Terms)
    BY <1>1, ShardTermsAssumption
  <2>2. CASE insert.added + 1 <= Len(rec.text)
    <3>1. insert.added + 1 \in DOMAIN rec.text
      BY <1>0, <2>1, <2>2
    <3>2. rec.text[insert.added + 1] \in Terms
      BY <2>1, <3>1
    <3> QED BY <2>2, <3>2 DEF TermToAdd, AllTerms
  <2>3. CASE ~(insert.added + 1 <= Len(rec.text))
    BY <2>3 DEF TermToAdd, AllTerms
  <2> QED BY <2>2, <2>3
<1>3. TreeOk(head)
  BY <1>0 DEF PagesOk, HeadsOf, TreeOk
<1>4. HeadsOf(mem) = {head[u] : u \in AllTerms} \ {NoPage}
  BY <1>0 DEF HeadsOf
<1>5. /\ \/ mem' = [ix.pages EXCEPT ![Root] = TreePage(ix.head)] /\ Allocated(ix.next_page_id)
         \/ ix.next_page_id > next /\ UNCHANGED <<mem, disk, file_pages>>
      /\ shard' = [shard EXCEPT !.next_page_id = ix.next_page_id]
  BY DEF InsertPosting
<1>6. PICK q : /\ q.kind = "posting"
               /\ \/ /\ head[t.term] # NoPage
                     /\ ix = [head |-> head, pages |-> [mem EXCEPT ![head[t.term]] = q],
                              next_page_id |-> next]
                  \/ ix = [head |-> [head EXCEPT ![t.term] = next],
                           pages |-> [mem EXCEPT ![next] = q], next_page_id |-> next + 1]
  <2>1. PICK term, doc, loc, pos :
          term = t.term /\ doc = rec.doc /\ loc = insert.loc /\ pos = t.pos
    OBVIOUS
  <2>2. PICK h, n, added : h = head /\ n = next /\ added = ix
    OBVIOUS
  <2>3. added = AddPosting([head |-> h, pages |-> mem, next_page_id |-> n], term, doc, loc, pos)
    BY <2>1, <2>2
  <2> HIDE DEF t, rec, head, next, ix
  <2>4. PostingAdded(h, mem, n, term, added)
    BY <2>3, AddPostingWrites
  <2> QED BY <2>1, <2>2, <2>4 DEF PostingAdded
<1> HIDE DEF ix, t, rec, head
<1>7. ~Slotted(q)
  BY <1>6 DEF Slotted
<1>8. CASE UNCHANGED <<mem, disk, file_pages>> /\ ix.next_page_id > next
  <2>1. ix.next_page_id = next + 1
    BY <1>0, <1>6, <1>8
  <2> QED BY <1>0, <1>5, <1>8, <2>1 DEF PostingLost
<1>9. CASE /\ mem' = [ix.pages EXCEPT ![Root] = TreePage(ix.head)] /\ Allocated(ix.next_page_id)
           /\ head[t.term] # NoPage
           /\ ix = [head |-> head, pages |-> [mem EXCEPT ![head[t.term]] = q],
                    next_page_id |-> next]
  <2>1. PICK h : h = head[t.term]
    OBVIOUS
  <2>2. h \in HeadsOf(mem) /\ h \in Nat /\ h >= 3
    BY <1>0, <1>2, <1>4, <1>9, <2>1 DEF PagesOk
  <2> DEFINE m == [mem EXCEPT ![h] = q]
  <2>3. PagesOk(m)
    BY <1>0, <1>7, <2>2, WritePage
  <2>4. m[h] = q \/ h \notin Pages
    BY <1>0 DEF PagesOk
  <2>5. \A p \in Pages \ {h} : m[p] = mem[p]
    BY <1>0 DEF PagesOk
  <2>6. mem' = [m EXCEPT ![Root] = TreePage(head)] /\ Allocated(next)
    BY <1>9, <2>1
  <2> HIDE DEF m
  <2>7. /\ PagesOk(mem') /\ HeadsOf(mem') = HeadsOf(mem)
        /\ mem'[Root] = TreePage(head)
        /\ \A x \in Pages \ {Root} : mem'[x] = m[x]
    <3>1. RootWritten(m, head, [m EXCEPT ![Root] = TreePage(head)])
      BY <1>3, <2>3, WriteRoot
    <3> QED BY <1>4, <2>6, <3>1 DEF RootWritten
  <2>8. disk' = disk /\ file_pages' = file_pages
    <3>1. next..(next - 1) = {}
      BY <1>0
    <3> QED BY <1>0, <2>6, <3>1 DEF Allocated, PagesOk
  <2>9. shard' = shard
    BY <1>0, <1>5, <1>9
  <2>10. PostingOnHead(h)
    BY <1>0, <1>7, <2>2, <2>4, <2>5, <2>7, <2>8, <2>9 DEF PostingOnHead
  <2> QED BY <2>7, <2>10 DEF TreePage
<1>10. CASE /\ mem' = [ix.pages EXCEPT ![Root] = TreePage(ix.head)] /\ Allocated(ix.next_page_id)
            /\ ix = [head |-> [head EXCEPT ![t.term] = next],
                     pages |-> [mem EXCEPT ![next] = q], next_page_id |-> next + 1]
  <2> DEFINE m == [mem EXCEPT ![next] = q]
             g == [head EXCEPT ![t.term] = next]
  <2>1. PagesOk(m)
    BY <1>0, <1>7, WritePage
  <2>2. m[next] = q \/ next \notin Pages
    BY <1>0 DEF PagesOk
  <2>3. \A p \in Pages \ {next} : m[p] = mem[p]
    BY <1>0 DEF PagesOk
  <2>4. DOMAIN head = AllTerms
    BY <1>3 DEF TreeOk
  <2>5. \A u \in AllTerms : g[u] = next \/ g[u] = head[u]
    BY <2>4
  <2>6. g = [u \in AllTerms |-> g[u]]
    BY <2>4
  <2>7. mem' = [m EXCEPT ![Root] = TreePage(g)] /\ Allocated(next + 1)
    BY <1>10
  <2> HIDE DEF m, g
  <2>8. TreeOk(g)
    BY <1>0, <1>3, <2>5, <2>6 DEF TreeOk
  <2>9. /\ PagesOk(mem') /\ HeadsOf(mem') = {g[u] : u \in AllTerms} \ {NoPage}
        /\ mem'[Root] = TreePage(g)
        /\ \A x \in Pages \ {Root} : mem'[x] = m[x]
    <3>1. RootWritten(m, g, [m EXCEPT ![Root] = TreePage(g)])
      BY <2>1, <2>8, WriteRoot
    <3> QED BY <2>7, <3>1 DEF RootWritten
  <2>10. HeadsOf(mem') \subseteq HeadsOf(mem) \cup {next}
    BY <1>4, <2>5, <2>9
  <2>11. shard' = [shard EXCEPT !.next_page_id = next + 1]
    BY <1>5, <1>10
  <2>12. next \in Pages => ~Slotted(mem'[next])
    <3>1. next \in Pages => mem'[next] = q
      BY <1>0, <2>2, <2>9
    <3> QED BY <1>7, <3>1
  <2>13. \A p \in Pages \ {Root, next} : mem'[p] = mem[p]
    BY <2>3, <2>9
  <2>14. PostingOnNew
    BY <2>7, <2>10, <2>11, <2>12, <2>13 DEF PostingOnNew
  <2> QED BY <2>9, <2>14 DEF TreePage
<1> QED BY <1>5, <1>6, <1>8, <1>9, <1>10

(* The insert of a posting leaves counters in range and, of the file, at   *)
(* most adds blank pages.                                                  *)
LEMMA PostingCounters ==
    ASSUME BInv, InsertPosting
    PROVE  /\ PagesOk(disk') /\ CountersOk' /\ file_pages' >= file_pages
           /\ Bits(disk') = Bits(disk) /\ HeadsOf(disk') = HeadsOf(disk)
<1> DEFINE next == shard.next_page_id
<1>0. /\ shard \in [next_page_id : Nat, active_data_page_id : Nat,
                    next_doc_id : Nat, total_docs : Nat]
      /\ next \in Nat /\ meta' = meta /\ PagesOk(disk) /\ file_pages \in Nat
  BY DEF InsertPosting, BInv, CountersOk
<1>1. CASE \E h : PostingOnHead(h)
  <2>1. disk' = disk /\ file_pages' = file_pages /\ shard' = shard
    BY <1>1 DEF PostingOnHead
  <2>2. CountersOk'
    BY <1>0, <2>1 DEF BInv, CountersOk
  <2>3. PagesOk(disk') /\ Bits(disk') = Bits(disk) /\ HeadsOf(disk') = HeadsOf(disk)
    BY <1>0, <2>1
  <2>4. file_pages' >= file_pages
    BY <1>0, <2>1
  <2> QED BY <2>2, <2>3, <2>4
<1>2. ASSUME shard' = [shard EXCEPT !.next_page_id = next + 1],
             file_pages' \in Nat
      PROVE  CountersOk'
  <2>1. /\ shard'.next_page_id = next + 1
        /\ shard'.active_data_page_id = shard.active_data_page_id
        /\ shard' \in [next_page_id : Nat, active_data_page_id : Nat,
                       next_doc_id : Nat, total_docs : Nat]
    BY <1>0, <1>2
  <2> QED BY <1>0, <1>2, <2>1 DEF BInv, CountersOk, FirstFree, FirstData
<1>3. CASE PostingOnNew
  <2>1. next + 1 \in Nat /\ Allocated(next + 1)
    BY <1>0, <1>3 DEF PostingOnNew
  <2>2. /\ PagesOk(disk') /\ HeadsOf(disk') = HeadsOf(disk) /\ Bits(disk') = Bits(disk)
        /\ file_pages' \in Nat /\ file_pages' >= file_pages
      BY <2>1, AllocatedOk
  <2> QED BY <1>2, <1>3, <2>2 DEF PostingOnNew
<1>4. CASE PostingLost
  <2>1. disk' = disk /\ file_pages' = file_pages
    BY <1>4 DEF PostingLost
  <2>2. CountersOk'
    BY <1>2, <1>4, <2>1 DEF PostingLost, BInv, CountersOk
  <2> QED BY <1>0, <2>1, <2>2 DEF Bits, HeadsOf, PagesOk
<1> QED BY <1>1, <1>3, <1>4, PostingEffect

(* InsertPosting keeps BInv. *)
LEMMA InsertPostingKeepsB == ASSUME BInv, InsertPosting PROVE BInv'
<1>1. PagesOk(mem') /\ mem'[Root].kind = "tree"
  BY PostingEffect
<1>2. PagesOk(disk') /\ CountersOk' /\ file_pages' >= file_pages
  BY PostingCounters
<1>3. /\ file_pages \in Nat /\ file_pages > 0 /\ file_pages' \in Nat
      /\ given' = given /\ given # <<>> /\ phase = "inserting"
      /\ insert = [loc |-> insert.loc, added |-> insert.added] /\ insert.added \in Nat
  BY <1>2 DEF InsertPosting, BInv, CallOk, CountersOk, FirstFree
<1>4. /\ insert' = [loc |-> insert'.loc, added |-> insert'.added] /\ insert'.added \in Nat
      /\ phase' \in {"inserting", "open"}
  <2>1. \/ insert' = [insert EXCEPT !.added = insert.added + 1] /\ phase' = phase
        \/ insert' = NoInsert /\ phase' = "open"
    BY DEF InsertPosting
  <2>2. CASE insert' = [insert EXCEPT !.added = insert.added + 1] /\ phase' = phase
    <3>1. insert' = [loc |-> insert.loc, added |-> insert.added + 1]
      BY <1>3, <2>2
    <3> QED BY <1>3, <2>2, <3>1
  <2>3. CASE insert' = NoInsert /\ phase' = "open"
    BY <2>3 DEF NoInsert
  <2> QED BY <2>1, <2>2, <2>3
<1>5. CallOk'
  BY <1>1, <1>2, <1>3, <1>4 DEF BInv, CallOk, FirstFree
<1> QED BY <1>1, <1>2, <1>5 DEF BInv

(* A split takes the page next_page_id names, and writes its zeros. *)
LEMMA SplitEffect ==
    ASSUME BInv, SplitLeaf
    PROVE  LET n == shard.next_page_id
           IN  /\ \A p \in Pages : mem'[p] = IF p = n THEN LeafPage ELSE mem[p]
               /\ Allocated(n + 1)
               /\ shard' = [next_page_id |-> n + 1,
                            active_data_page_id |-> shard.active_data_page_id,
                            next_doc_id |-> shard.next_doc_id, total_docs |-> shard.total_docs]
               /\ PagesOk(mem') /\ PagesOk(disk')
               /\ mem'[Root] = mem[Root] /\ HeadsOf(mem') = HeadsOf(mem)
               /\ HeadsOf(disk') = HeadsOf(disk)
               /\ Bits(mem') = Bits(mem) /\ Bits(disk') = Bits(disk)
               /\ file_pages' \in Nat /\ file_pages' >= file_pages
<1> DEFINE n == shard.next_page_id
<1>0. /\ n \in Nat /\ n >= 3 /\ n # Root /\ PagesOk(mem) /\ PagesOk(disk)
      /\ shard \in [next_page_id : Nat, active_data_page_id : Nat,
                    next_doc_id : Nat, total_docs : Nat]
  BY DEF BInv, CountersOk, FirstFree, Root
<1>1. /\ mem' = [mem EXCEPT ![n] = LeafPage] /\ Allocated(n + 1)
      /\ shard' = [shard EXCEPT !.next_page_id = n + 1]
  BY DEF SplitLeaf
<1>2. \A p \in Pages : mem'[p] = IF p = n THEN LeafPage ELSE mem[p]
  BY <1>0, <1>1 DEF PagesOk
<1>3. ~Slotted(LeafPage)
  BY DEF Slotted, LeafPage
<1>4. PagesOk(mem') /\ HeadsOf(mem') = HeadsOf(mem) /\ mem'[Root] = mem[Root]
  BY <1>0, <1>1, <1>3, WritePage
<1>5. Bits(mem') = Bits(mem)
  <2>1. Tombstone \in Pages /\ Tombstone # n
    BY <1>0, ShardBoundsAssumption DEF Tombstone, Pages, FirstFree
  <2> QED BY <1>2, <2>1 DEF Bits
<1>6. shard' = [next_page_id |-> n + 1, active_data_page_id |-> shard.active_data_page_id,
                next_doc_id |-> shard.next_doc_id, total_docs |-> shard.total_docs]
  BY <1>0, <1>1
<1>7. /\ PagesOk(disk') /\ HeadsOf(disk') = HeadsOf(disk) /\ Bits(disk') = Bits(disk)
      /\ file_pages' \in Nat /\ file_pages' >= file_pages
  BY <1>0, <1>1, AllocatedOk
<1> QED BY <1>1, <1>2, <1>4, <1>5, <1>6, <1>7

(* SplitLeaf keeps BInv. *)
LEMMA SplitKeepsB == ASSUME BInv, SplitLeaf PROVE BInv'
<1> DEFINE n == shard.next_page_id
<1>1. /\ PagesOk(mem') /\ PagesOk(disk') /\ mem'[Root] = mem[Root]
      /\ file_pages' \in Nat /\ file_pages' >= file_pages
      /\ shard' = [next_page_id |-> n + 1, active_data_page_id |-> shard.active_data_page_id,
                   next_doc_id |-> shard.next_doc_id, total_docs |-> shard.total_docs]
  BY SplitEffect
<1>2. UNCHANGED <<meta, phase, given, insert>>
  BY DEF SplitLeaf
<1>3. CountersOk'
  BY <1>1, <1>2 DEF BInv, CountersOk, FirstFree, FirstData
<1>4. CallOk'
  BY <1>1, <1>2 DEF BInv, CallOk, CountersOk
<1> QED BY <1>1, <1>3, <1>4 DEF BInv

(* Delete keeps BInv. *)
LEMMA DeleteKeepsB == ASSUME BInv, NEW node, Delete(node) PROVE BInv'
<1> DEFINE q == TombstonePage(Marked(Bits(mem), given[node].doc))
<1>1. /\ PagesOk(mem) /\ Tombstone \in Nat /\ Tombstone # Root
      /\ mem' = [mem EXCEPT ![Tombstone] = q]
  BY DEF Delete, BInv, Tombstone, Root
<1>2. ~Slotted(q)
  BY DEF Slotted, TombstonePage
<1> HIDE DEF q
<1>3. PagesOk(mem') /\ mem'[Root] = mem[Root]
  BY <1>1, <1>2, WritePage
<1>4. UNCHANGED <<disk, file_pages, meta, shard, phase, given, insert>>
  BY DEF Delete
<1>5. PagesOk(disk') /\ CountersOk' /\ CallOk'
  BY <1>3, <1>4 DEF BInv, CountersOk, CallOk
<1> QED BY <1>3, <1>5 DEF BInv

(* Save keeps BInv. *)
LEMMA SaveKeepsB == ASSUME BInv, NEW p \in Pages, Save(p) PROVE BInv'
<1>1. /\ disk' = [disk EXCEPT ![p] = mem[p]] /\ phase # "closed"
      /\ file_pages' = IF p < file_pages THEN file_pages ELSE p + 1
      /\ UNCHANGED <<mem, meta, shard, phase, given, insert>>
  BY DEF Save
<1>2. PagesOk(mem) /\ PagesOk(disk) /\ DOMAIN disk = Pages /\ p \in Nat
  BY DEF BInv, PagesOk, Pages
<1>3. PagesOk(disk')
  <2>1. \A x \in Pages : disk'[x] = IF x = p THEN mem[p] ELSE disk[x]
    BY <1>1, <1>2
  <2>2. disk' = [x \in Pages |-> disk'[x]]
    BY <1>1, <1>2
  <2>3. disk'[Root] = mem[Root] \/ disk'[Root] = disk[Root]
    BY <2>1, ShardBoundsAssumption DEF Root, Pages, FirstFree
  <2>4. HeadsOf(disk') = HeadsOf(mem) \/ HeadsOf(disk') = HeadsOf(disk)
    BY <2>3 DEF HeadsOf
  <2> QED BY <1>2, <2>1, <2>2, <2>3, <2>4 DEF PagesOk
<1>4. file_pages' \in Nat /\ file_pages' > 0
  BY <1>1, <1>2 DEF BInv, CallOk, CountersOk
<1>5. CountersOk' /\ CallOk'
  BY <1>1, <1>4 DEF BInv, CountersOk, CallOk
<1>6. PagesOk(mem')
  BY <1>1, <1>2
<1> QED BY <1>3, <1>5, <1>6 DEF BInv

(* Flushing the dirty pages never makes the file shorter. *)
LEMMA FileGrows ==
    ASSUME BInv, CloseFlushes
    PROVE  /\ file_pages' \in Nat /\ file_pages' >= file_pages
           /\ \A p \in Pages : disk[p] # mem[p] => p < file_pages'
<1> DEFINE ends == {file_pages} \cup {p + 1 : p \in {q \in Pages : disk[q] # mem[q]}}
<1>1. ends \in SUBSET Nat /\ file_pages \in ends /\ \A n \in ends : n <= file_pages + MaxPages
  BY ShardBoundsAssumption DEF BInv, CountersOk, Pages
<1>2. file_pages' = Max(ends)
  BY DEF CloseFlushes
<1>6. \A p \in Pages : disk[p] # mem[p] => p + 1 \in ends /\ p \in Nat
  BY DEF Pages
<1> HIDE DEF ends
<1>. file_pages + MaxPages \in Nat
  BY ShardBoundsAssumption DEF BInv, CountersOk
<1>3. \E n \in ends : \A k \in ends : k <= n
  <2>1. PICK bound \in Nat : bound = file_pages + MaxPages
    OBVIOUS
  <2>2. ends # {} /\ \A n \in ends : n <= bound
    BY <1>1, <2>1
  <2> QED BY <1>1, <2>2, GreatestOne
<1>4. \E n \in ends : \A k \in ends : n >= k
  BY <1>1, <1>3
<1>5. Max(ends) \in ends /\ \A k \in ends : Max(ends) >= k
  BY <1>4 DEF Max
<1>7. file_pages' \in Nat /\ file_pages' >= file_pages
  BY <1>1, <1>2, <1>5
<1>8. \A p \in Pages : disk[p] # mem[p] => file_pages' >= p + 1 /\ p \in Nat
  BY <1>2, <1>5, <1>6
<1> QED BY <1>7, <1>8

(* Close keeps BInv. *)
LEMMA CloseKeepsB ==
    ASSUME BInv, CloseTruncates \/ CloseDescribes \/ CloseFailsToDescribe \/ CloseFlushes
    PROVE  BInv'
<1>1. PagesOk(mem) /\ PagesOk(disk) /\ CountersOk /\ CallOk
  BY DEF BInv
<1>2. CASE CloseTruncates
  <2>1. PagesOk(mem') /\ PagesOk(disk')
    BY <1>1, <1>2 DEF CloseTruncates
  <2>2. CountersOk' /\ CallOk'
    BY <1>1, <1>2 DEF CloseTruncates, CountersOk, CallOk, NoMeta
  <2> QED BY <2>1, <2>2 DEF BInv
<1>3. CASE CloseDescribes
  <2>1. PagesOk(mem') /\ PagesOk(disk')
    BY <1>1, <1>3 DEF CloseDescribes
  <2>2. CountersOk' /\ CallOk'
    BY <1>1, <1>3 DEF CloseDescribes, CountersOk, CallOk, SavedCounters
  <2> QED BY <2>1, <2>2 DEF BInv
<1>4. CASE CloseFlushes
  <2>1. PagesOk(mem') /\ PagesOk(disk')
    BY <1>1, <1>4 DEF CloseFlushes
  <2>2. file_pages' \in Nat /\ file_pages' >= file_pages
    BY <1>4, FileGrows
  <2>3. CountersOk'
    BY <1>1, <1>4, <2>2 DEF CloseFlushes, CountersOk, CallOk, FirstFree
  <2>4. CallOk'
    BY <1>1, <1>4 DEF CloseFlushes, CallOk
  <2> QED BY <2>1, <2>3, <2>4 DEF BInv
<1>5. CASE CloseFailsToDescribe
  BY <1>5 DEF CloseFailsToDescribe, BInv, CountersOk, CallOk
<1> QED BY <1>2, <1>3, <1>4, <1>5

(* OpenStops keeps BInv. *)
LEMMA OpenStopsKeepsB == ASSUME BInv, OpenStops PROVE BInv'
BY DEF OpenStops, BInv, CountersOk, CallOk, FirstFree

(* Crash keeps BInv. *)
LEMMA CrashKeepsB == ASSUME BInv, Crash PROVE BInv'
<1>1. PagesOk(mem') /\ PagesOk(disk')
  BY DEF BInv, Crash
<1>2. CountersOk'
  BY DEF BInv, CountersOk, Crash, Fresh, FirstFree, FirstData
<1>3. CallOk'
  BY DEF BInv, CallOk, Crash, NoInsert
<1> QED BY <1>1, <1>2, <1>3 DEF BInv

(* Every step keeps BInv. *)
LEMMA BKept == ASSUME BInv, [Next]_vars PROVE BInv'
<1>1. CASE UNCHANGED vars
  BY <1>1 DEF vars, BInv, PagesOk, CountersOk, CallOk, HeadsOf
<1>2. ASSUME NEW text \in Texts, InsertRecord(text) PROVE BInv'
  BY <1>2, InsertRecordKeepsB
<1>3. ASSUME NEW node \in 1..MaxDocs, Delete(node) PROVE BInv'
  BY <1>3, DeleteKeepsB
<1>4. ASSUME NEW p \in Pages, Save(p) PROVE BInv'
  BY <1>4, SaveKeepsB
<1> QED BY <1>1, <1>2, <1>3, <1>4, OpenKeepsB, OpenStopsKeepsB, InsertRefusedKeepsB,
           InsertPostingKeepsB, SplitKeepsB, CloseKeepsB, CrashKeepsB DEF Next, Step

(* BInv is an invariant under every fault. *)
LEMMA BInvariant == Spec => []BInv
BY BInit, BKept, PTL DEF Spec
(* A leaf is split while the posting that fills it is being added. *)
SplitInv == leaf_full \in BOOLEAN /\ (leaf_full => phase \in {"open", "inserting"})

LEMMA SplitsInCalls == Spec => []SplitInv
<1>1. Init => SplitInv
  BY DEF Init, SplitInv
<1>2. SplitInv /\ [Next]_vars => SplitInv'
  <2> SUFFICES ASSUME SplitInv, [Next]_vars PROVE SplitInv'
    OBVIOUS
  <2>1. CASE SplitLeaf
    BY <2>1 DEF SplitLeaf, SplitInv
  <2>2. CASE InsertPosting
    <3>1. phase' \in {"open", "inserting"}
      BY <2>2 DEF InsertPosting
    <3>2. leaf_full' \in BOOLEAN
      BY <2>2 DEF InsertPosting, SplitsLeaf
    <3> QED BY <3>1, <3>2 DEF SplitInv
  <2>3. CASE ~leaf_full /\ Step /\ ~InsertPosting
    <3>1. leaf_full' = leaf_full
      BY <2>3 DEF Step, splits, Open, OpenStops, InsertRecord, InsertRefused, Delete, Save,
         CloseTruncates, CloseDescribes, CloseFailsToDescribe, CloseFlushes, Crash
    <3> QED BY <2>3, <3>1 DEF SplitInv
  <2>4. CASE UNCHANGED vars
    BY <2>4 DEF vars, splits, SplitInv
  <2> QED BY <2>1, <2>2, <2>3, <2>4 DEF Next
<1> QED BY <1>1, <1>2, PTL DEF Spec
-----------------------------------------------------------------------------
(* Deletions. *)

(* DInv holds at the start. *)
LEMMA DInit == Init => DInv
<1>1. Init => disk[Tombstone].kind = "zero"
  BY ShardBoundsAssumption DEF Init, ZeroPage, Tombstone, Pages, FirstFree
<1> QED BY <1>1 DEF Init, DInv, Bits

(* Every step keeps DInv: bits are only added in memory, and a save takes  *)
(* them all to the file.                                                   *)
LEMMA DStep ==
    ASSUME BInv, DInv, [Next]_vars
    PROVE  DInv' /\ Bits(disk) \subseteq Bits(disk')
<1>0. /\ file_pages \in Nat /\ Tombstone = 1 /\ Tombstone \in Pages /\ Tombstone # Root
      /\ Tombstone # FirstData /\ DOMAIN mem = Pages /\ DOMAIN disk = Pages
      /\ phase # "closed" => file_pages > 0
  BY ShardBoundsAssumption
  DEF BInv, CountersOk, CallOk, PagesOk, Tombstone, Root, FirstData, Pages, FirstFree
<1>1. ASSUME Bits(disk') = Bits(disk), Bits(mem) \subseteq Bits(mem'),
             file_pages' \in Nat, file_pages' >= file_pages
      PROVE  DInv' /\ Bits(disk) \subseteq Bits(disk')
  BY <1>0, <1>1 DEF DInv
<1>2. CASE Open
  <2>1. Bits(disk') = Bits(disk)
    BY <1>2 DEF Open, Bits
  <2>2. CASE file_pages = 0
    BY <1>2, <2>1, <2>2 DEF Open, DInv, FirstFree
  <2>3. CASE file_pages > 0
    <3>1. mem'[Tombstone] = disk[Tombstone]
      BY <1>0, <1>2, <2>3, OpenedPagesOk DEF Open
    <3>2. Bits(mem') = Bits(disk)
      BY <3>1 DEF Bits
    <3>3. file_pages' = file_pages
      BY <1>2, <2>3 DEF Open
    <3> QED BY <2>1, <3>2, <3>3 DEF DInv
  <2> QED BY <1>0, <2>2, <2>3
<1>3. ASSUME NEW text \in Texts, InsertRecord(text)
      PROVE  DInv' /\ Bits(disk) \subseteq Bits(disk')
  <2>1. PICK at, q : RecordOnPage(at, q)
    BY <1>3, InsertRecordEffect
  <2> QED BY <1>1, <2>1, RecordCounters
<1>4. CASE InsertRefused
  <2>1. UNCHANGED <<mem, disk, file_pages>>
    BY <1>4 DEF InsertRefused
  <2> QED BY <2>1 DEF DInv, Bits
<1>5. CASE InsertPosting
  <2>1. Bits(disk') = Bits(disk) /\ file_pages' >= file_pages /\ file_pages' \in Nat
    BY <1>5, PostingCounters DEF CountersOk
  <2>2. mem'[Tombstone] = mem[Tombstone]
    <3>1. \A h \in HeadsOf(mem) : h >= 3
      BY DEF BInv, PagesOk, FirstFree
    <3>2. shard.next_page_id >= 3
      BY DEF BInv, CountersOk, FirstFree
    <3> QED BY <1>0, <1>5, <3>1, <3>2, PostingEffect
            DEF PostingOnHead, PostingOnNew, PostingLost
  <2>3. Bits(mem') = Bits(mem)
    BY <2>2 DEF Bits
  <2> QED BY <1>1, <2>1, <2>3
<1>6. ASSUME NEW node, Delete(node)
      PROVE  DInv' /\ Bits(disk) \subseteq Bits(disk')
  <2> DEFINE bits == Marked(Bits(mem), given[node].doc)
  <2>1. mem'[Tombstone] = TombstonePage(bits) /\ UNCHANGED <<disk, file_pages>>
    BY <1>0, <1>6 DEF Delete
  <2>2. Bits(mem') = bits
    BY <2>1 DEF Bits, TombstonePage
  <2>3. Bits(mem) \subseteq bits
    BY DEF Marked
  <2>4. Bits(disk') = Bits(disk)
    BY <2>1 DEF Bits
  <2> QED BY <1>0, <1>1, <2>1, <2>2, <2>3, <2>4
<1>7. ASSUME NEW p \in Pages, Save(p)
      PROVE  DInv' /\ Bits(disk) \subseteq Bits(disk')
  <2>1. /\ disk' = [disk EXCEPT ![p] = mem[p]] /\ mem' = mem /\ p \in Nat
        /\ file_pages' = IF p < file_pages THEN file_pages ELSE p + 1
    BY <1>7 DEF Save, Pages
  <2>2. disk'[Tombstone] = mem[Tombstone] \/ disk'[Tombstone] = disk[Tombstone]
    BY <1>0, <2>1
  <2>3. Bits(disk') = Bits(mem) \/ Bits(disk') = Bits(disk)
    BY <2>2 DEF Bits
  <2>4. Bits(mem') = Bits(mem) /\ file_pages' > 0
    BY <1>0, <2>1
  <2> QED BY <2>3, <2>4 DEF DInv
<1>8. CASE CloseTruncates \/ CloseDescribes \/ CloseFailsToDescribe
  <2>1. UNCHANGED <<mem, disk, file_pages>>
    BY <1>8 DEF CloseTruncates, CloseDescribes, CloseFailsToDescribe
  <2> QED BY <2>1 DEF DInv, Bits
<1>9. CASE CloseFlushes
  <2>1. disk' = mem /\ mem' = mem
    BY <1>9 DEF CloseFlushes
  <2>2. Bits(disk') = Bits(mem) /\ Bits(mem') = Bits(mem)
    BY <2>1
  <2>3. file_pages' >= file_pages /\ file_pages > 0 /\ file_pages' \in Nat
    BY <1>0, <1>9, FileGrows DEF CloseFlushes
  <2> QED BY <2>2, <2>3, <1>0 DEF DInv
<1>10. CASE Crash
  <2>1. mem' = disk /\ disk' = disk /\ file_pages' = file_pages
    BY <1>10 DEF Crash
  <2>2. Bits(mem') = Bits(disk) /\ Bits(disk') = Bits(disk)
    BY <2>1
  <2> QED BY <2>1, <2>2 DEF DInv
<1>11. CASE UNCHANGED vars
  BY <1>11 DEF vars, DInv, Bits
<1>12. CASE OpenStops
  <2>1. mem' = mem /\ disk' = disk /\ file_pages' > 0
    BY <1>12 DEF OpenStops, FirstFree
  <2> QED BY <2>1 DEF DInv, Bits
<1>13. CASE SplitLeaf
  BY <1>1, <1>13, SplitEffect
<1> QED BY <1>2, <1>3, <1>4, <1>5, <1>6, <1>7, <1>8, <1>9, <1>10, <1>11, <1>12, <1>13
        DEF Next, Step

(* A bit of the tombstone page that has reached the file stays there, with *)
(* kills at any point, failed extensions of the file and old .meta files:  *)
(* no page but the second is ever written for another (unified_shard.c:61).*)
THEOREM DeletionsStay == Spec => SavedDeletionsStay
<1>1. BInv /\ DInv /\ [Next]_vars => DInv'
  BY DStep
<1>2. BInv /\ DInv /\ [Next]_vars => [Bits(disk) \subseteq Bits(disk')]_vars
  BY DStep
<1> QED BY <1>1, <1>2, BInvariant, DInit, PTL DEF Spec, SavedDeletionsStay
-----------------------------------------------------------------------------
(* Records. *)

(* RInv holds at the start. *)
LEMMA RInit == Init => RInv
<1> SUFFICES ASSUME Init PROVE RInv
  OBVIOUS
<1>1. /\ mem = disk /\ meta = NoMeta /\ phase = "closed"
      /\ \A p \in Pages : disk[p] = ZeroPage
  BY DEF Init
<1>2. ~Slotted(ZeroPage) /\ ZeroPage.kind # "tree"
  BY DEF ZeroPage, Slotted
<1>3. HeadsOf(mem) \cup HeadsOf(disk) = {}
  BY <1>1, <1>2, ShardBoundsAssumption DEF HeadsOf, Root, Pages, FirstFree
<1>4. FileInv
  BY <1>1 DEF FileInv
<1> QED BY <1>1, <1>2, <1>3, <1>4 DEF RInv, HeadInv, KeptInv

(* The facts about page numbers the cases below use. *)
LEMMA RNumbers ==
    ASSUME BInv, RInv
    PROVE  /\ Root = 0 /\ Tombstone = 1 /\ FirstData = 2 /\ FirstFree = 3
           /\ {0, 1, 2} \subseteq Pages /\ Pages \subseteq Nat
           /\ file_pages \in Nat
           /\ shard.next_page_id \in Nat /\ shard.next_page_id >= 3
           /\ shard.active_data_page_id < shard.next_page_id
           /\ phase # "closed" => file_pages > 0 /\ file_pages <= shard.next_page_id
           /\ \A h \in HeadsOf(mem) \cup HeadsOf(disk) : h \in Nat /\ h >= 3 /\ h < file_pages
           /\ \A p \in Pages : Slotted(mem[p]) \/ Slotted(disk[p]) => p >= 2
           /\ ~Slotted(ZeroPage)
<1>1. /\ Root = 0 /\ Tombstone = 1 /\ FirstData = 2 /\ FirstFree = 3
      /\ {0, 1, 2} \subseteq Pages /\ Pages \subseteq Nat /\ ~Slotted(ZeroPage)
  BY ShardBoundsAssumption DEF Root, Tombstone, FirstData, FirstFree, Pages, Slotted, ZeroPage
<1>2. /\ \A h \in HeadsOf(mem) \cup HeadsOf(disk) : h \in Nat /\ h >= 3 /\ h < file_pages
      /\ \A p \in Pages : Slotted(mem[p]) \/ Slotted(disk[p]) => p >= 2
  BY <1>1 DEF BInv, PagesOk, RInv, HeadInv
<1>3. /\ file_pages \in Nat
      /\ shard.next_page_id \in Nat /\ shard.next_page_id >= 3
      /\ shard.active_data_page_id < shard.next_page_id
      /\ phase # "closed" => file_pages > 0 /\ file_pages <= shard.next_page_id
  BY <1>1 DEF BInv, CountersOk, CallOk, RInv, FileInv
<1> QED BY <1>1, <1>2, <1>3

(* New pages were zeros already: allocating them changes no page of the    *)
(* file.                                                                   *)
LEMMA AllocatedSame ==
    ASSUME BInv, RInv, phase # "closed", NEW next \in Nat, Allocated(next)
    PROVE  disk' = disk
<1>1. \A p \in Pages : disk'[p] = IF p \in shard.next_page_id..(next - 1)
                                THEN ZeroPage ELSE disk[p]
  BY AllocatedOk
<1>2. \A p \in Pages : p \in shard.next_page_id..(next - 1) => disk[p] = ZeroPage
  BY RNumbers DEF RInv, FileInv
<1>3. PagesOk(disk) /\ disk' = [p \in Pages |-> disk'[p]]
  BY DEF BInv, Allocated
<1> QED BY <1>1, <1>2, <1>3 DEF PagesOk

(* Open keeps RInv. *)
LEMMA OpenKeepsR == ASSUME BInv, RInv, Open PROVE RInv'
<1>1. /\ phase = "closed" /\ phase' = "open" /\ meta' = meta /\ disk' = disk
      /\ meta = NoMeta /\ mem' = OpenedPages
      /\ file_pages' = IF file_pages = 0 THEN FirstFree ELSE file_pages
      /\ shard'.next_page_id = Counters.next_page_id
  BY DEF Open, RInv, FileInv
<1>2. shard'.next_page_id = IF file_pages < FirstFree THEN FirstFree ELSE file_pages
  BY <1>1 DEF Counters, CountersFromLength
<1>3. /\ file_pages' >= file_pages /\ shard'.next_page_id >= file_pages'
      /\ shard'.next_page_id >= 3 /\ shard'.next_page_id \in Nat /\ file_pages' \in Nat
  <2>1. FirstFree = 3 /\ file_pages \in Nat
    BY RNumbers
  <2> QED BY <1>1, <1>2, <2>1
<1>4. \A p \in Pages : p >= 3 => mem'[p] = disk[p]
  BY <1>1, OpenedPagesOk, RNumbers
<1>5. FileInv'
  <2>1. \A p \in Pages : p >= file_pages' => disk'[p] = ZeroPage
    BY <1>1, <1>3, RNumbers DEF RInv, FileInv
  <2>2. \A p \in Pages : p >= shard'.next_page_id => mem'[p] = disk'[p]
    BY <1>1, <1>3, <1>4, RNumbers
  <2> QED BY <1>1, <1>3, <2>1, <2>2, RNumbers DEF FileInv
<1>6. HeadInv'
  <2> SUFFICES ASSUME NEW h \in HeadsOf(mem') \cup HeadsOf(disk')
               PROVE  h < file_pages' /\ (h \in Pages => ~Slotted(mem'[h]) /\ ~Slotted(disk'[h]))
    BY DEF HeadInv
  <2>1. h \in HeadsOf(disk)
    BY <1>1, OpenedPagesOk
  <2>2. h \in Nat /\ h >= 3 /\ h < file_pages
    BY <2>1, RNumbers
  <2>3. h \in Pages => ~Slotted(disk[h])
    BY <2>1 DEF RInv, HeadInv
  <2> QED BY <1>1, <1>3, <1>4, <2>2, <2>3, RNumbers
<1>7. KeptInv'
  <2>1. CASE file_pages = 0
    <3>1. \A p \in Pages : disk'[p] = ZeroPage
      BY <1>1, <2>1, RNumbers DEF RInv, FileInv
    <3> QED BY <3>1, RNumbers DEF KeptInv
  <2>2. CASE file_pages > 0
    <3>1. \A p \in Pages \ {Root} : mem'[p] = disk'[p]
      BY <1>1, <2>2, OpenedPagesOk
    <3>2. ~Slotted(disk'[Root])
      BY <1>1, RNumbers
    <3> QED BY <3>1, <3>2 DEF KeptInv
  <2> QED BY <2>1, <2>2, RNumbers
<1> QED BY <1>5, <1>6, <1>7 DEF RInv

(* InsertRecord keeps RInv. *)
LEMMA InsertRecordKeepsR ==
    ASSUME BInv, RInv, NEW text \in Texts, InsertRecord(text)
    PROVE  RInv' /\ disk' = disk
<1> DEFINE next == shard.next_page_id
<1>0. phase = "open" /\ phase' = "inserting" /\ meta' = meta
  BY DEF InsertRecord
<1>1. PICK at, q : RecordOnPage(at, q)
  BY InsertRecordEffect
<1>2. /\ HeadsOf(mem') = HeadsOf(mem) /\ HeadsOf(disk') = HeadsOf(disk)
      /\ \A p \in Pages \ {at} : mem'[p] = mem[p]
      /\ at \in Pages => mem'[at] = q
      /\ file_pages' \in Nat /\ file_pages' >= file_pages
  BY <1>1, RecordCounters
<1>3. disk' = disk
  <2>1. PICK n \in Nat : Allocated(n)
    BY <1>1, RNumbers DEF RecordOnPage
  <2> QED BY <1>0, <2>1, AllocatedSame
<1>4. /\ at \in Nat /\ Slotted(q) /\ at < shard'.next_page_id
      /\ shard'.next_page_id \in Nat /\ shard'.next_page_id >= next
      /\ file_pages' <= shard'.next_page_id
  <2>1. CASE at = next /\ shard'.next_page_id = next + 1 /\ Allocated(next + 1)
    <3>1. file_pages' = file_pages \/ file_pages' = next + 1
      BY <2>1, AllocatedOk, RNumbers
    <3> QED BY <1>0, <1>1, <2>1, <3>1, RNumbers DEF RecordOnPage
  <2>2. CASE at = shard.active_data_page_id /\ shard'.next_page_id = next /\ Allocated(next)
    <3>1. file_pages' = file_pages \/ file_pages' = next
      BY <2>2, AllocatedOk, RNumbers
    <3> QED BY <1>0, <1>1, <2>2, <3>1, RNumbers DEF RecordOnPage
  <2> QED BY <1>1, <2>1, <2>2 DEF RecordOnPage
<1>5. \/ at >= file_pages
      \/ at \in Pages => /\ Slotted(mem[at])
                        /\ NodesOf(mem[at].slots) \subseteq NodesOf(q.slots)
  BY <1>0, <1>1, RNumbers DEF RecordOnPage
<1>6. FileInv'
  <2>1. \A p \in Pages : p >= file_pages' => disk'[p] = ZeroPage
    BY <1>2, <1>3, RNumbers DEF RInv, FileInv
  <2>2. \A p \in Pages : p >= shard'.next_page_id => mem'[p] = disk'[p]
    BY <1>0, <1>2, <1>3, <1>4, RNumbers DEF RInv, FileInv
  <2> QED BY <1>0, <1>4, <2>1, <2>2 DEF RInv, FileInv
<1>7. HeadInv'
  <2> SUFFICES ASSUME NEW h \in HeadsOf(mem) \cup HeadsOf(disk)
               PROVE  h < file_pages' /\ (h \in Pages => ~Slotted(mem'[h]) /\ ~Slotted(disk'[h]))
    BY <1>2 DEF HeadInv
  <2>1. h < file_pages /\ h \in Nat /\ (h \in Pages => ~Slotted(mem[h]) /\ ~Slotted(disk[h]))
    BY RNumbers DEF RInv, HeadInv
  <2>2. h \in Pages => h # at
    BY <1>4, <1>5, <2>1, RNumbers
  <2> QED BY <1>2, <1>3, <2>1, <2>2, RNumbers
<1>8. KeptInv'
  <2> SUFFICES ASSUME NEW p \in Pages, Slotted(disk[p])
               PROVE  Slotted(mem'[p]) /\ NodesOf(disk[p].slots) \subseteq NodesOf(mem'[p].slots)
    BY <1>3 DEF KeptInv
  <2>1. Slotted(mem[p]) /\ NodesOf(disk[p].slots) \subseteq NodesOf(mem[p].slots)
    BY DEF RInv, KeptInv
  <2>2. ~(p >= file_pages)
    BY RNumbers DEF RInv, FileInv
  <2> QED BY <1>2, <1>4, <1>5, <2>1, <2>2
<1> QED BY <1>3, <1>6, <1>7, <1>8 DEF RInv

(* When every page has the records it had, so has the file. *)
LEMMA MoreRecords ==
    ASSUME \A x \in Pages : Slotted(disk[x]) =>
             Slotted(disk'[x]) /\ NodesOf(disk[x].slots) \subseteq NodesOf(disk'[x].slots)
    PROVE  RecordsOn(disk) \subseteq RecordsOn(disk')
<1> SUFFICES ASSUME NEW n \in RecordsOn(disk) PROVE n \in RecordsOn(disk')
  OBVIOUS
<1>1. PICK x \in Pages : Slotted(disk[x]) /\ n \in NodesOf(disk[x].slots)
  BY DEF RecordsOn
<1>2. Slotted(disk'[x]) /\ n \in NodesOf(disk'[x].slots)
  BY <1>1
<1> QED BY <1>2 DEF RecordsOn

(* InsertPosting keeps RInv. *)
LEMMA InsertPostingKeepsR ==
    ASSUME BInv, RInv, InsertPosting
    PROVE  RInv' /\ disk' = disk
<1> DEFINE next == shard.next_page_id
<1>0. /\ phase = "inserting" /\ phase' \in {"inserting", "open"} /\ meta' = meta
      /\ shard \in [next_page_id : Nat, active_data_page_id : Nat,
                    next_doc_id : Nat, total_docs : Nat]
  BY DEF InsertPosting, BInv, CountersOk
<1>1. ASSUME disk' = disk, file_pages' \in Nat, file_pages' >= file_pages,
             shard'.next_page_id \in Nat, file_pages' <= shard'.next_page_id,
             shard'.next_page_id >= next,
             \A p \in Pages : p >= shard'.next_page_id => mem'[p] = mem[p]
      PROVE  FileInv'
  <2>1. \A p \in Pages : p >= file_pages' => disk'[p] = ZeroPage
    BY <1>1, RNumbers DEF RInv, FileInv
  <2>2. \A p \in Pages : p >= shard'.next_page_id => mem'[p] = disk'[p]
    BY <1>0, <1>1, RNumbers DEF RInv, FileInv
  <2> QED BY <1>0, <1>1, <2>1, <2>2 DEF RInv, FileInv
<1>2. ASSUME NEW h, PostingOnHead(h) PROVE RInv' /\ disk' = disk
  <2>1. /\ h \in HeadsOf(mem) /\ (h \in Pages => ~Slotted(mem'[h]))
        /\ \A p \in Pages \ {Root, h} : mem'[p] = mem[p]
        /\ HeadsOf(mem') = HeadsOf(mem) /\ disk' = disk /\ file_pages' = file_pages /\ shard' = shard
    BY <1>2 DEF PostingOnHead
  <2>2. FileInv'
    BY <1>0, <1>1, <2>1, RNumbers
  <2>3. HeadInv'
    BY <2>1, RNumbers DEF RInv, HeadInv
  <2>4. KeptInv'
    <3>1. \A p \in {Root, h} : p \in Pages => ~Slotted(disk[p])
      BY <2>1, RNumbers DEF RInv, HeadInv
    <3> QED BY <2>1, <3>1 DEF RInv, KeptInv
  <2> QED BY <2>1, <2>2, <2>3, <2>4 DEF RInv
<1>3. CASE PostingOnNew
  <2>1. /\ next \in Pages => ~Slotted(mem'[next])
        /\ \A p \in Pages \ {Root, next} : mem'[p] = mem[p]
        /\ HeadsOf(mem') \subseteq HeadsOf(mem) \cup {next}
        /\ Allocated(next + 1) /\ shard' = [shard EXCEPT !.next_page_id = next + 1]
    BY <1>3 DEF PostingOnNew
  <2>2. next + 1 \in Nat /\ shard'.next_page_id = next + 1
    BY <1>0, <2>1
  <2>3. disk' = disk
    BY <1>0, <2>1, <2>2, AllocatedSame
  <2>4. file_pages' = next + 1 /\ file_pages' >= file_pages
    BY <1>0, <2>1, <2>2, AllocatedOk, RNumbers
  <2>5. FileInv'
    BY <1>1, <2>1, <2>2, <2>3, <2>4, RNumbers
  <2>6. next \in Pages => disk[next] = ZeroPage
    BY <1>0, RNumbers DEF RInv, FileInv
  <2>7. HeadInv'
    <3> SUFFICES ASSUME NEW h \in HeadsOf(mem) \cup HeadsOf(disk) \cup {next}
                 PROVE  h < file_pages' /\ (h \in Pages => ~Slotted(mem'[h]) /\ ~Slotted(disk'[h]))
      BY <2>1, <2>3 DEF HeadInv
    <3>1. CASE h = next
      BY <2>1, <2>3, <2>4, <2>6, <3>1, RNumbers
    <3>2. CASE h # next
      <4>1. /\ h < file_pages /\ h \in Nat /\ h >= 3
            /\ h \in Pages => ~Slotted(mem[h]) /\ ~Slotted(disk[h])
        BY <3>2, RNumbers DEF RInv, HeadInv
      <4> QED BY <2>1, <2>3, <2>4, <3>2, <4>1, RNumbers
    <3> QED BY <3>1, <3>2
  <2>8. KeptInv'
    <3>1. \A p \in {Root, next} : p \in Pages => ~Slotted(disk[p])
      BY <2>6, RNumbers
    <3> QED BY <2>1, <2>3, <3>1 DEF RInv, KeptInv
  <2> QED BY <2>3, <2>5, <2>7, <2>8 DEF RInv
<1>4. CASE PostingLost
  <2>1. /\ mem' = mem /\ disk' = disk /\ file_pages' = file_pages
        /\ shard' = [shard EXCEPT !.next_page_id = next + 1]
    BY <1>4 DEF PostingLost
  <2>2. shard'.next_page_id = next + 1
    BY <1>0, <2>1
  <2>3. FileInv'
    BY <1>0, <1>1, <2>1, <2>2, RNumbers
  <2>4. HeadInv' /\ KeptInv'
    BY <2>1 DEF RInv, HeadInv, KeptInv, HeadsOf
  <2> QED BY <2>1, <2>3, <2>4 DEF RInv
<1> QED BY <1>2, <1>3, <1>4, PostingEffect

(* SplitLeaf keeps RInv. *)
LEMMA SplitKeepsR ==
    ASSUME BInv, SplitInv, RInv, SplitLeaf
    PROVE  RInv' /\ disk' = disk
<1> DEFINE n == shard.next_page_id
<1>0. /\ UNCHANGED <<meta, phase>> /\ n \in Nat /\ n + 1 \in Nat /\ ~Slotted(LeafPage)
      /\ \A p \in Pages : mem'[p] = IF p = n THEN LeafPage ELSE mem[p]
      /\ Allocated(n + 1) /\ shard'.next_page_id = n + 1
      /\ HeadsOf(mem') = HeadsOf(mem)
      /\ file_pages' \in Nat /\ file_pages' >= file_pages
  <2>1. n \in Nat /\ ~Slotted(LeafPage) /\ UNCHANGED <<meta, phase>>
    BY RNumbers DEF SplitLeaf, Slotted, LeafPage
  <2> QED BY <2>1, SplitEffect
<1>. phase # "closed"
  BY DEF SplitInv, SplitLeaf
<1>1. disk' = disk
  BY <1>0, AllocatedSame
<1>2. file_pages' = file_pages \/ file_pages' = n + 1
  BY <1>0, AllocatedOk
<1>3. n \in Pages => disk[n] = ZeroPage
  BY <1>0, RNumbers DEF RInv, FileInv
<1>4. FileInv'
  <2>1. \A p \in Pages : p >= file_pages' => disk'[p] = ZeroPage
    BY <1>0, <1>1, RNumbers DEF RInv, FileInv
  <2>2. \A p \in Pages : p >= n + 1 => mem'[p] = disk'[p]
    BY <1>0, <1>1, RNumbers DEF RInv, FileInv
  <2> QED BY <1>0, <1>2, <2>1, <2>2, RNumbers DEF RInv, FileInv
<1>5. HeadInv'
  BY <1>0, <1>1, RNumbers DEF RInv, HeadInv
<1>6. KeptInv'
  BY <1>0, <1>1, <1>3, RNumbers DEF RInv, KeptInv
<1> QED BY <1>1, <1>4, <1>5, <1>6 DEF RInv

(* Closing keeps RInv, and what was only in memory comes to the file. *)
LEMMA CloseKeepsR ==
    ASSUME ~MetaSaves, BInv, RInv,
           CloseTruncates \/ CloseDescribes \/ CloseFailsToDescribe \/ CloseFlushes
    PROVE  RInv' /\ RecordsOn(disk) \subseteq RecordsOn(disk')
<1>1. ~CloseDescribes
  BY DEF CloseDescribes
<1>2. CASE CloseTruncates \/ CloseFailsToDescribe
  <2>1. /\ UNCHANGED <<mem, disk, file_pages, shard>> /\ meta' = NoMeta
        /\ phase # "closed" /\ phase' # "closed"
    BY <1>2 DEF CloseTruncates, CloseFailsToDescribe, RInv, FileInv
  <2> QED BY <2>1 DEF RInv, FileInv, HeadInv, KeptInv, HeadsOf
<1>3. CASE CloseFlushes
  <2>1. /\ disk' = mem /\ UNCHANGED <<mem, meta>> /\ phase' = "closed" /\ phase # "closed"
    BY <1>3 DEF CloseFlushes
  <2>2. /\ file_pages' \in Nat /\ file_pages' >= file_pages
        /\ \A p \in Pages : disk[p] # mem[p] => p < file_pages'
    BY <1>3, FileGrows
  <2>3. \A p \in Pages : p >= file_pages' => disk'[p] = ZeroPage
    <3> SUFFICES ASSUME NEW p \in Pages, p >= file_pages' PROVE mem[p] = ZeroPage
      BY <2>1
    <3>1. disk[p] = mem[p] /\ p >= file_pages
      BY <2>2, RNumbers
    <3> QED BY <3>1 DEF RInv, FileInv
  <2>4. FileInv'
    BY <2>1, <2>3 DEF RInv, FileInv
  <2>5. HeadInv'
    <3>1. HeadsOf(mem') = HeadsOf(mem) /\ HeadsOf(disk') = HeadsOf(mem)
      BY <2>1
    <3> QED BY <2>1, <2>2, <3>1, RNumbers DEF RInv, HeadInv
  <2>6. KeptInv'
    BY <2>1 DEF KeptInv
  <2>7. RecordsOn(disk) \subseteq RecordsOn(disk')
    <3>1. \A x \in Pages : Slotted(disk[x]) =>
            Slotted(disk'[x]) /\ NodesOf(disk[x].slots) \subseteq NodesOf(disk'[x].slots)
      BY <2>1 DEF RInv, KeptInv
    <3> QED BY <3>1, MoreRecords
  <2> QED BY <2>4, <2>5, <2>6, <2>7 DEF RInv
<1> QED BY <1>1, <1>2, <1>3

(* InsertRefused keeps RInv. *)
LEMMA InsertRefusedKeepsR ==
    ASSUME BInv, RInv, InsertRefused
    PROVE  RInv' /\ disk' = disk
<1>1. /\ UNCHANGED <<mem, disk, file_pages, meta, phase>>
      /\ shard'.next_page_id = shard.next_page_id + 1
  BY DEF InsertRefused, BInv, CountersOk
<1>2. FileInv'
  BY <1>1, RNumbers DEF RInv, FileInv
<1>3. HeadInv' /\ KeptInv'
  BY <1>1 DEF RInv, HeadInv, KeptInv, HeadsOf
<1> QED BY <1>1, <1>2, <1>3 DEF RInv

(* Delete keeps RInv. *)
LEMMA DeleteKeepsR ==
    ASSUME BInv, RInv, NEW node, Delete(node)
    PROVE  RInv' /\ disk' = disk
<1>1. /\ UNCHANGED <<disk, file_pages, meta, shard, phase>>
      /\ DOMAIN mem = Pages /\ phase # "closed"
      /\ \E b : mem' = [mem EXCEPT ![Tombstone] = TombstonePage(b)]
  BY DEF Delete, BInv, PagesOk
<1>2. /\ \A p \in Pages \ {Tombstone} : mem'[p] = mem[p]
      /\ ~Slotted(mem'[Tombstone]) /\ mem'[Root] = mem[Root]
  BY <1>1, RNumbers DEF TombstonePage, Slotted
<1>3. HeadsOf(mem') = HeadsOf(mem)
  BY <1>2 DEF HeadsOf
<1>4. FileInv'
  BY <1>1, <1>2, RNumbers DEF RInv, FileInv
<1>5. HeadInv'
  BY <1>1, <1>2, <1>3, RNumbers DEF RInv, HeadInv
<1>6. KeptInv'
  BY <1>1, <1>2, RNumbers DEF RInv, KeptInv
<1> QED BY <1>1, <1>4, <1>5, <1>6 DEF RInv

(* Save keeps RInv. *)
LEMMA SaveKeepsR ==
    ASSUME BInv, RInv, NEW p \in Pages, Save(p)
    PROVE  /\ RInv'
           /\ \A x \in Pages : disk'[x] = IF x = p THEN mem[p] ELSE disk[x]
<1>1. /\ UNCHANGED <<mem, meta, shard, phase>> /\ phase # "closed" /\ disk[p] # mem[p]
      /\ disk' = [disk EXCEPT ![p] = mem[p]] /\ DOMAIN disk = Pages
      /\ file_pages' = IF p < file_pages THEN file_pages ELSE p + 1
  BY DEF Save, BInv, PagesOk
<1>2. \A x \in Pages : disk'[x] = IF x = p THEN mem[p] ELSE disk[x]
  BY <1>1
<1>3. p < shard.next_page_id
  BY <1>1, RNumbers DEF RInv, FileInv
<1>4. FileInv'
  <2>1. file_pages' <= shard.next_page_id /\ file_pages' >= file_pages /\ file_pages' > p
    BY <1>1, <1>3, RNumbers
  <2>2. \A x \in Pages : x >= file_pages' => disk'[x] = ZeroPage
    <3>1. \A x \in Pages : x >= file_pages' => x # p /\ x >= file_pages
      BY <1>1, <2>1, RNumbers
    <3> QED BY <1>2, <3>1 DEF RInv, FileInv
  <2>3. \A x \in Pages : x >= shard.next_page_id => mem'[x] = disk'[x]
    BY <1>1, <1>2, <1>3, RNumbers DEF RInv, FileInv
  <2> QED BY <1>1, <2>1, <2>2, <2>3 DEF RInv, FileInv
<1>5. HeadInv'
  <2>1. HeadsOf(disk') \subseteq HeadsOf(mem) \cup HeadsOf(disk) /\ HeadsOf(mem') = HeadsOf(mem)
    BY <1>1, <1>2, RNumbers DEF HeadsOf
  <2>2. ASSUME NEW h \in HeadsOf(mem) \cup HeadsOf(disk)
        PROVE  h < file_pages' /\ (h \in Pages => ~Slotted(mem'[h]) /\ ~Slotted(disk'[h]))
    <3>1. h \in Nat /\ h < file_pages /\ (h \in Pages => ~Slotted(mem[h]) /\ ~Slotted(disk[h]))
      BY RNumbers DEF RInv, HeadInv
    <3>2. h < file_pages'
      BY <1>1, <3>1, RNumbers
    <3> QED BY <1>1, <1>2, <3>1, <3>2
  <2> QED BY <2>1, <2>2 DEF HeadInv
<1>6. KeptInv'
  BY <1>1, <1>2 DEF RInv, KeptInv
<1> QED BY <1>2, <1>4, <1>5, <1>6 DEF RInv

(* Crash keeps RInv. *)
LEMMA CrashKeepsR ==
    ASSUME BInv, RInv, Crash
    PROVE  RInv' /\ disk' = disk
<1>1. mem' = disk /\ phase' = "closed" /\ UNCHANGED <<disk, file_pages, meta>>
  BY DEF Crash
<1>2. HeadsOf(mem') = HeadsOf(disk) /\ HeadsOf(disk') = HeadsOf(disk)
  BY <1>1
<1>3. FileInv' /\ HeadInv' /\ KeptInv'
  BY <1>1, <1>2 DEF RInv, FileInv, HeadInv, KeptInv
<1> QED BY <1>1, <1>3 DEF RInv

(* OpenStops keeps RInv. *)
LEMMA OpenStopsKeepsR ==
    ASSUME BInv, RInv, OpenStops
    PROVE  RInv' /\ disk' = disk
<1>1. /\ UNCHANGED <<mem, disk, meta, shard, phase>> /\ phase = "closed" /\ file_pages = 0
      /\ file_pages' \in Nat /\ file_pages' >= file_pages
  BY DEF OpenStops, FirstFree
<1>2. FileInv'
  BY <1>1, RNumbers DEF RInv, FileInv
<1>3. HeadInv'
  BY <1>1, RNumbers DEF RInv, HeadInv, HeadsOf
<1> QED BY <1>1, <1>2, <1>3 DEF RInv, KeptInv

(* Without a .meta file every step keeps RInv. *)
LEMMA RStep ==
    ASSUME ~MetaSaves, BInv, SplitInv, RInv, [Next]_vars
    PROVE  RInv' /\ RecordsOn(disk) \subseteq RecordsOn(disk')
<1>1. ASSUME disk' = disk PROVE RecordsOn(disk) \subseteq RecordsOn(disk')
  BY <1>1
<1>2. CASE Open
  <2>1. disk' = disk
    BY <1>2 DEF Open
  <2> QED BY <1>1, <1>2, <2>1, OpenKeepsR
<1>3. ASSUME NEW text \in Texts, InsertRecord(text)
      PROVE  RInv' /\ RecordsOn(disk) \subseteq RecordsOn(disk')
  BY <1>1, <1>3, InsertRecordKeepsR
<1>4. CASE InsertRefused
  BY <1>1, <1>4, InsertRefusedKeepsR
<1>5. CASE InsertPosting
  BY <1>1, <1>5, InsertPostingKeepsR
<1>6. ASSUME NEW node, Delete(node)
      PROVE  RInv' /\ RecordsOn(disk) \subseteq RecordsOn(disk')
  BY <1>1, <1>6, DeleteKeepsR
<1>7. ASSUME NEW p \in Pages, Save(p)
      PROVE  RInv' /\ RecordsOn(disk) \subseteq RecordsOn(disk')
  <2>1. RInv' /\ \A x \in Pages : disk'[x] = IF x = p THEN mem[p] ELSE disk[x]
    BY <1>7, SaveKeepsR
  <2>2. \A x \in Pages : Slotted(disk[x]) =>
          Slotted(disk'[x]) /\ NodesOf(disk[x].slots) \subseteq NodesOf(disk'[x].slots)
    BY <2>1 DEF RInv, KeptInv
  <2>3. RecordsOn(disk) \subseteq RecordsOn(disk')
    BY <2>2, MoreRecords
  <2> QED BY <2>1, <2>3
<1>8. CASE Crash
  BY <1>1, <1>8, CrashKeepsR
<1>9. CASE UNCHANGED vars
  <2>1. UNCHANGED <<mem, disk, file_pages, meta, shard, phase>>
    BY <1>9 DEF vars
  <2> QED BY <1>1, <2>1 DEF RInv, FileInv, HeadInv, KeptInv, HeadsOf
<1>10. CASE CloseTruncates \/ CloseDescribes \/ CloseFailsToDescribe \/ CloseFlushes
  BY <1>10, CloseKeepsR
<1>11. CASE SplitLeaf
  BY <1>1, <1>11, SplitKeepsR
<1>12. CASE OpenStops
  BY <1>1, <1>12, OpenStopsKeepsR
<1> QED BY <1>2, <1>3, <1>4, <1>5, <1>6, <1>7, <1>8, <1>9, <1>10, <1>11, <1>12 DEF Next, Step

(* A record that has reached the file is never lost, with kills at any     *)
(* point, failed extensions of the file and closings that fail to save     *)
(* .meta (their result is ignored, unified_shard.c:99), as long as no      *)
(* closing saves it: shard_init then takes next_page_id from the length of *)
(* the file (unified_shard.c:55), and no page within it is allocated       *)
(* again.  With a .meta file it is not so, as the run Shard_reuse shows.   *)
THEOREM RecordsStay == ASSUME ~MetaSaves PROVE Spec => SavedRecordsStay
<1>1. BInv /\ SplitInv /\ RInv /\ [Next]_vars => RInv'
  BY RStep
<1>2. BInv /\ SplitInv /\ RInv /\ [Next]_vars => [RecordsOn(disk) \subseteq RecordsOn(disk')]_vars
  BY RStep
<1> QED BY <1>1, <1>2, BInvariant, SplitsInCalls, RInit, PTL DEF Spec, SavedRecordsStay
-----------------------------------------------------------------------------
(* Document ids.  The counter in memory is above every doc_id given, and   *)
(* while the shard is closed the one in the .meta file is; without a kill  *)
(* no .meta file means that nothing was ever inserted.                     *)
GivenBelow(n) == \A i \in DOMAIN given : given[i].doc < n

NInv == /\ DocIdsUnique
        /\ phase # "closed" => GivenBelow(shard.next_doc_id)
        /\ phase = "described" => meta = SavedCounters
        /\ phase = "closed" => IF meta = NoMeta THEN given = <<>>
                               ELSE GivenBelow(meta.next_doc_id)

(* NInv holds at the start. *)
LEMMA NInit == Init => NInv
BY DEF Init, NInv, DocIdsUnique

(* Without a kill every step keeps NInv. *)
LEMMA NStep ==
    ASSUME ~Crashes, ~MetaFails, BInv, SplitInv, NInv, [Next]_vars
    PROVE  NInv'
<1>0. /\ shard \in [next_page_id : Nat, active_data_page_id : Nat,
                    next_doc_id : Nat, total_docs : Nat]
      /\ meta \in [next_page_id : Nat, next_doc_id : Nat, total_docs : Nat]
      /\ meta # NoMeta => meta.next_page_id >= 3
      /\ shard.next_page_id >= 3 /\ given \in Seq([doc : Nat, text : Texts])
  BY DEF BInv, CountersOk, CallOk, FirstFree
<1>ids. \A i \in DOMAIN given : given[i].doc \in Nat
  <2> DEFINE Given == [doc : Nat, text : Texts]
  <2>1. given \in Seq(Given)
    BY <1>0
  <2>2. \A x \in Given : x.doc \in Nat
    OBVIOUS
  <2>3. \A i \in DOMAIN given : given[i] \in Given
    <3> HIDE DEF Given
    <3> QED BY <2>1
  <2> QED BY <2>2, <2>3
<1>1. ASSUME given' = given, phase # "closed", phase' \notin {"closed", "described"},
             shard'.next_doc_id \in Nat, shard'.next_doc_id >= shard.next_doc_id
      PROVE  NInv'
  <2>1. GivenBelow(shard.next_doc_id) /\ DocIdsUnique
    BY <1>1 DEF NInv
  <2>2. \A i \in DOMAIN given : given[i].doc < shard'.next_doc_id
    BY <1>0, <1>ids, <1>1, <2>1 DEF GivenBelow
  <2> QED BY <1>1, <2>1, <2>2 DEF NInv, GivenBelow, DocIdsUnique
<1>2. CASE Open
  <2>1. /\ given' = given /\ phase = "closed" /\ phase' = "open"
        /\ shard'.next_doc_id = Counters.next_doc_id
    BY <1>2 DEF Open
  <2>2. GivenBelow(Counters.next_doc_id)
    BY <2>1 DEF NInv, GivenBelow, Counters
  <2> QED BY <2>1, <2>2 DEF NInv, GivenBelow, DocIdsUnique
<1>3. ASSUME NEW text \in Texts, InsertRecord(text) PROVE NInv'
  <2> DEFINE new == [doc |-> shard.next_doc_id, text |-> text]
  <2>1. /\ given' = Append(given, new) /\ phase = "open" /\ phase' = "inserting"
        /\ shard'.next_doc_id = shard.next_doc_id + 1
    BY <1>3 DEF InsertRecord
  <2>2. /\ GivenBelow(shard.next_doc_id) /\ DocIdsUnique
    BY <2>1 DEF NInv
  <2>3. \A i \in DOMAIN given' : \/ i \in DOMAIN given /\ given'[i] = given[i]
                                 \/ i = Len(given) + 1 /\ given'[i] = new
    <3> DEFINE S == [doc : Nat, text : Texts]
    <3>1. given \in Seq(S) /\ new \in S
      BY <1>0
    <3> HIDE DEF S, new
    <3>2. PICK g, r : g = given /\ r = new
      OBVIOUS
    <3>3. given' = Append(g, r) /\ g \in Seq(S) /\ r \in S
      BY <2>1, <3>1, <3>2
    <3>4. \A i \in DOMAIN Append(g, r) :
            \/ i \in DOMAIN g /\ Append(g, r)[i] = g[i]
            \/ i = Len(g) + 1 /\ Append(g, r)[i] = r
      BY <3>3
    <3> QED BY <3>2, <3>3, <3>4
  <2>4. \A i \in DOMAIN given' : given'[i].doc < shard'.next_doc_id
    BY <1>0, <1>ids, <2>1, <2>2, <2>3 DEF GivenBelow
  <2>5. DocIdsUnique'
    <3> SUFFICES ASSUME NEW i \in DOMAIN given', NEW j \in DOMAIN given',
                        given'[i].doc = given'[j].doc
                 PROVE  i = j
      BY DEF DocIdsUnique
    <3>1. shard.next_doc_id \in Nat /\ new.doc = shard.next_doc_id
      BY <1>0
    <3>2. \A k \in DOMAIN given : given[k].doc # new.doc
      BY <1>ids, <2>2, <3>1 DEF GivenBelow
    <3>3. CASE i \in DOMAIN given /\ given'[i] = given[i]
      <4>1. j \in DOMAIN given /\ given'[j] = given[j]
        BY <2>3, <3>2, <3>3
      <4> QED BY <2>2, <3>3, <4>1 DEF DocIdsUnique
    <3>4. CASE i = Len(given) + 1 /\ given'[i] = new
      <4>1. j = Len(given) + 1
        BY <2>3, <3>2, <3>4
      <4> QED BY <3>4, <4>1
    <3> QED BY <2>3, <3>3, <3>4
  <2> QED BY <2>1, <2>4, <2>5 DEF NInv, GivenBelow
<1>4. CASE InsertRefused
  BY <1>0, <1>1, <1>4 DEF InsertRefused
<1>5. CASE InsertPosting
  <2>1. given' = given /\ phase = "inserting" /\ phase' \in {"inserting", "open"}
    BY <1>5 DEF InsertPosting
  <2>2. shard'.next_doc_id = shard.next_doc_id
    BY <1>0, <1>5 DEF InsertPosting
  <2> QED BY <1>0, <1>1, <2>1, <2>2
<1>6. ASSUME NEW node, Delete(node) PROVE NInv'
  BY <1>0, <1>1, <1>6 DEF Delete
<1>7. ASSUME NEW p \in Pages, Save(p) PROVE NInv'
  BY <1>7 DEF Save, NInv, DocIdsUnique, GivenBelow, SavedCounters
<1>8. CASE CloseTruncates
  BY <1>0, <1>1, <1>8 DEF CloseTruncates
<1>9. CASE CloseDescribes
  BY <1>9 DEF CloseDescribes, NInv, DocIdsUnique, GivenBelow, SavedCounters
<1>10. CASE CloseFlushes
  <2>1. /\ meta = SavedCounters /\ GivenBelow(shard.next_doc_id)
        /\ UNCHANGED <<given, meta>> /\ phase' = "closed"
    BY <1>10 DEF CloseFlushes, NInv
  <2>2. meta # NoMeta /\ GivenBelow(meta.next_doc_id)
    BY <1>0, <2>1 DEF SavedCounters, NoMeta
  <2> QED BY <2>1, <2>2 DEF NInv, GivenBelow, DocIdsUnique, NoMeta
<1>11. CASE UNCHANGED vars
  BY <1>11 DEF vars, NInv, DocIdsUnique, GivenBelow, SavedCounters
<1>12. ~Crash
  BY DEF Crash
<1>13. CASE OpenStops
  BY <1>13 DEF OpenStops, NInv, DocIdsUnique, GivenBelow
<1>14. CASE SplitLeaf
  <2>1. /\ UNCHANGED <<meta, phase, given>> /\ phase \in {"open", "inserting"}
        /\ shard'.next_doc_id = shard.next_doc_id
    BY <1>14, SplitEffect DEF SplitLeaf, SplitInv
  <2> QED BY <1>0, <1>1, <2>1
<1>15. ~CloseFailsToDescribe
  BY DEF CloseFailsToDescribe
<1> QED BY <1>2, <1>3, <1>4, <1>5, <1>6, <1>7, <1>8, <1>9, <1>10, <1>11, <1>12, <1>13, <1>14,
           <1>15 DEF Next, Step

(* No two documents of a shard get one doc_id, across any number of        *)
(* closings and openings and with failed extensions of the file, as long   *)
(* as the process is never killed and every closing saves the .meta file:  *)
(* it has the next doc_id.  Without it, after a kill or a closing whose    *)
(* failure to save it is ignored (unified_shard.c:99), shard_init counts   *)
(* from 0 again (unified_shard.c:62).                                      *)
THEOREM DocIdsAreUnique == ASSUME ~Crashes, ~MetaFails PROVE Spec => []DocIdsUnique
<1>1. BInv /\ SplitInv /\ NInv /\ [Next]_vars => NInv'
  BY NStep
<1>2. NInv => DocIdsUnique
  BY DEF NInv
<1> QED BY <1>1, <1>2, BInvariant, SplitsInCalls, NInit, PTL DEF Spec
-----------------------------------------------------------------------------
(* Every page, in memory and in the file, has one of the layouts, within   *)
(* its bounds, and every place it names is one of the file.                *)
TypedPage(p) ==
    \/ p = ZeroPage \/ p = LeafPage
    \/ p.kind = "tree" /\ p.head \in [AllTerms -> Pages \cup {NoPage}]
    \/ p.kind = "tombstone" /\ p.bits \in SUBSET (0..(TombstoneRoom - 1))
    \/ Slotted(p) /\ p.slots \in Seq(Records) /\ Len(p.slots) <= SlotsPerPage
    \/ /\ p.kind = "posting"
       /\ p.postings \in Seq(Posting(Locations)) /\ Len(p.postings) \in 1..MaxPostings
       /\ p.next \in Pages \cup {NoPage}

PagesTyped(m) == \A p \in Pages : TypedPage(m[p])

(* The guards of the insert leave every allocation of its steps a page.    *)
RoomInv ==
    /\ file_pages <= MaxPages /\ meta.next_page_id <= MaxPages
    /\ shard.next_page_id <= MaxPages
    /\ Len(given) <= MaxDocs
    /\ shard.total_docs <= Len(given) /\ meta.total_docs <= Len(given)
    /\ deleted \subseteq DOMAIN given
    /\ phase = "inserting" =>
         /\ insert.loc \in Locations
         /\ insert.added <= Len(Last(given).text)
         /\ shard.next_page_id + Len(Last(given).text) + 1 - insert.added <= MaxPages

TInv == PagesTyped(mem) /\ PagesTyped(disk) /\ RoomInv

(* A leaf is split only when that leaves the rest of the insert its pages. *)
SplitRoom ==
    /\ leaves \subseteq Pages
    /\ leaf_full =>
         /\ shard.next_page_id < MaxPages
         /\ phase = "inserting" =>
              shard.next_page_id + Len(Last(given).text) + 2 - insert.added <= MaxPages

(* The kinds of the pages the code formats. *)
LEMMA Kinds ==
    /\ \A a, b : PostingPage(a, b).kind = "posting"
    /\ \A h : TreePage(h).kind = "tree" /\ TreePage(h).head = h
    /\ \A b : TombstonePage(b).kind = "tombstone" /\ TombstonePage(b).bits = b
    /\ \A k, s : SlottedPage(k, s).kind = k /\ SlottedPage(k, s).slots = s
    /\ ZeroPage.kind = "zero" /\ LeafPage.kind = "leaf"
BY DEF PostingPage, TreePage, TombstonePage, SlottedPage, ZeroPage, LeafPage

(* A page typed for the proofs is one TypeOK accepts. *)
LEMMA TypedIsOk ==
    ASSUME NEW p, TypedPage(p)
    PROVE  PageOk(p)
<1>1. CASE Slotted(p) /\ p.slots \in Seq(Records) /\ Len(p.slots) <= SlotsPerPage
  <2>1. Len(p.slots) \in 0..SlotsPerPage
    BY <1>1, SlotsPerPageAssumption
  <2> QED BY <1>1, <2>1 DEF PageOk
<1>2. CASE /\ p.kind = "posting"
           /\ p.postings \in Seq(Posting(Locations)) /\ Len(p.postings) \in 1..MaxPostings
           /\ p.next \in Pages \cup {NoPage}
  <2> DEFINE P == Posting(Locations)
  <2>1. \A r \in P : r.loc \in Locations
    BY DEF Posting
  <2>2. p.postings \in Seq(P)
    BY <1>2
  <2> HIDE DEF P
  <2>3. \A i \in DOMAIN p.postings : p.postings[i] \in P
    BY <2>2
  <2>4. \A i \in DOMAIN p.postings : p.postings[i].loc \in Locations
    BY <2>1, <2>3
  <2> QED BY <1>2, <2>4 DEF PageOk
<1> QED BY <1>1, <1>2 DEF TypedPage, PageOk

(* TypeOK follows from the two invariants. *)
LEMMA TInvTypes ==
    ASSUME BInv, SplitInv, TInv, SplitRoom
    PROVE  TypeOK
<1>1. \A p \in Pages : PageOk(mem[p]) /\ PageOk(disk[p])
  BY TypedIsOk DEF TInv, PagesTyped
<1>2. /\ file_pages \in Nat /\ MaxPages \in Nat /\ MaxPages > 3 /\ MaxDocs \in Nat
      /\ Len(given) \in Nat /\ insert.added \in Nat
      /\ meta \in [next_page_id : Nat, next_doc_id : Nat, total_docs : Nat]
      /\ shard \in [next_page_id : Nat, active_data_page_id : Nat,
                     next_doc_id : Nat, total_docs : Nat]
      /\ shard.next_page_id >= 3 /\ shard.active_data_page_id \in 2..(shard.next_page_id - 1)
      /\ phase \in {"closed", "open", "inserting", "truncated", "described"}
  <2>1. MaxPages \in Nat /\ MaxPages > 3 /\ MaxDocs \in Nat
    BY ShardBoundsAssumption DEF FirstFree
  <2>2. CountersOk /\ CallOk
    BY DEF BInv
  <2>3. /\ insert.added \in Nat /\ Len(given) \in Nat
        /\ phase \in {"closed", "open", "inserting", "truncated", "described"}
    BY <2>2 DEF CallOk
  <2> QED BY <2>1, <2>2, <2>3 DEF CountersOk, FirstFree, FirstData
<1>3. /\ file_pages <= MaxPages /\ meta.next_page_id <= MaxPages
      /\ shard.next_page_id <= MaxPages
      /\ shard.total_docs <= MaxDocs /\ meta.total_docs <= MaxDocs
      /\ deleted \subseteq DOMAIN given
  <2>1. RoomInv
    BY DEF TInv
  <2>2. /\ shard.total_docs \in Nat /\ meta.total_docs \in Nat
        /\ Len(given) <= MaxDocs /\ shard.total_docs <= Len(given)
        /\ meta.total_docs <= Len(given)
    BY <1>2, <2>1 DEF RoomInv
  <2>3. shard.total_docs <= MaxDocs /\ meta.total_docs <= MaxDocs
    BY <1>2, <2>2
  <2> QED BY <2>1, <2>3 DEF RoomInv
<1>4. meta \in [next_page_id : 0..MaxPages, next_doc_id : Nat, total_docs : 0..MaxDocs]
  BY <1>2, <1>3
<1>5. shard \in [next_page_id : FirstFree..MaxPages, active_data_page_id : Pages,
                  next_doc_id : Nat, total_docs : 0..MaxDocs]
  BY <1>2, <1>3 DEF FirstFree, Pages
<1> QED BY <1>1, <1>2, <1>3, <1>4, <1>5 DEF TypeOK, SplitInv, SplitRoom

(* Changing one page of a well formed file. *)
LEMMA TypedWrite ==
    ASSUME NEW m, PagesOk(m), PagesTyped(m), NEW p, NEW q, p \in Pages => TypedPage(q)
    PROVE  PagesTyped([m EXCEPT ![p] = q])
BY DEF PagesOk, PagesTyped

(* The record of an insert joins the active page, which has room and is no *)
(* page of postings, or begins a page of records.                          *)
LEMMA PlacedCases ==
    ASSUME BInv, PagesTyped(mem), NEW rec \in Records,
           shard.next_page_id < MaxPages
    PROVE  LET new == Placed(rec)
               active == shard.active_data_page_id
               next == shard.next_page_id
               page == Fetched(active)
           IN  \E q : /\ new.pages = [mem EXCEPT ![new.at] = q]
                      /\ new.slot = Len(q.slots)
                      /\ new.at \in Pages
                      /\ Slotted(q) /\ q.slots \in Seq(Records)
                      /\ Len(q.slots) \in 1..SlotsPerPage /\ q.slots[Len(q.slots)] = rec
                      /\ \/ /\ new.at = active /\ new.next = next
                            /\ HasSlot(page) /\ page.slots \in Seq(Records)
                            /\ q = SlottedPage(page.kind, Append(page.slots, rec))
                            /\ Slotted(mem[active]) \/ mem[active] = ZeroPage
                         \/ /\ new.at = next /\ new.next = next + 1
                            /\ q = DataPage(<<rec>>)
<1> DEFINE active == shard.active_data_page_id
           next == shard.next_page_id
           page == Fetched(active)
<1>0. /\ active \in Pages /\ next \in Pages /\ SlotsPerPage \in Nat /\ SlotsPerPage # 0
  BY ShardBoundsAssumption, SlotsPerPageAssumption
  DEF BInv, CountersOk, Pages, FirstData, FirstFree
<1>1. CASE HasSlot(page)
  <2> DEFINE q == SlottedPage(page.kind, Append(page.slots, rec))
  <2>1. Slotted(q) /\ q.slots = Append(page.slots, rec)
    <3>1. q.kind = page.kind /\ q.slots = Append(page.slots, rec)
      BY DEF SlottedPage
    <3> QED BY <1>1, <3>1 DEF HasSlot, Slotted
  <2>2. page.slots \in Seq(Records) /\ (Slotted(mem[active]) \/ mem[active] = ZeroPage)
    <3>1. CASE page = mem[active]
      BY <1>0, <1>1, <3>1 DEF HasSlot, BInv, PagesOk
    <3>2. CASE mem[active] = ZeroPage /\ page = SlottedPage("row", <<>>)
      <4>1. page.slots = <<>>
        BY <3>2, Kinds
      <4>2. <<>> \in Seq(Records)
        OBVIOUS
      <4> QED BY <3>2, <4>1, <4>2
    <3> QED BY <3>1, <3>2 DEF Fetched
  <2>3. Len(page.slots) < SlotsPerPage
    BY <1>1 DEF HasSlot
  <2>4. PICK s \in Seq(Records) : s = page.slots
    BY <2>2
  <2>5. Append(s, rec) \in Seq(Records) /\ Len(Append(s, rec)) = Len(s) + 1
        /\ Append(s, rec)[Len(s) + 1] = rec /\ Len(s) \in Nat
    OBVIOUS
  <2>6. /\ q.slots \in Seq(Records) /\ Len(q.slots) \in 1..SlotsPerPage
        /\ q.slots[Len(q.slots)] = rec
    BY <1>0, <2>1, <2>3, <2>4, <2>5
  <2>7. /\ Placed(rec).at = active /\ Placed(rec).next = next
        /\ Placed(rec).pages = [mem EXCEPT ![active] = q]
        /\ Placed(rec).slot = Len(q.slots)
    BY <1>1, <2>1 DEF Placed
  <2>8. q = SlottedPage(page.kind, Append(page.slots, rec))
    OBVIOUS
  <2> HIDE DEF q, page
  <2> QED BY <1>0, <1>1, <2>1, <2>2, <2>6, <2>7, <2>8 DEF page
<1>2. CASE ~HasSlot(page)
  <2> DEFINE q == DataPage(<<rec>>)
  <2>1. /\ Slotted(q) /\ q.slots = <<rec>> /\ q.slots \in Seq(Records)
        /\ Len(q.slots) \in 1..SlotsPerPage /\ q.slots[Len(q.slots)] = rec
    <3>1. q.kind = "data" /\ q.slots = <<rec>>
      BY DEF DataPage, SlottedPage
    <3>2. <<rec>> \in Seq(Records) /\ Len(<<rec>>) = 1 /\ <<rec>>[1] = rec
      OBVIOUS
    <3>3. 1 \in 1..SlotsPerPage
      BY <1>0
    <3> QED BY <3>1, <3>2, <3>3 DEF Slotted
  <2>2. /\ Placed(rec).at = next /\ Placed(rec).next = next + 1
        /\ Placed(rec).pages = [mem EXCEPT ![next] = q]
        /\ Placed(rec).slot = Len(q.slots)
    BY <1>2, <2>1 DEF Placed, DataPage
  <2> HIDE DEF q
  <2> QED BY <1>0, <2>1, <2>2 DEF q
<1> QED BY <1>1, <1>2
-----------------------------------------------------------------------------
(* The effect of one posting on every page: inverted_index_add_posting     *)
(* changes the head page of the term, or links a page it allocates to that *)
(* head and makes the tree name it.                                        *)
TermHead(t) == mem[Root].head[t]
NewHeads(t) == [mem[Root].head EXCEPT ![t] = shard.next_page_id]

PostingChanges(t, doc, pos, q) ==
    /\ TermHead(t) # NoPage /\ TermHead(t) \in Nat /\ TermHead(t) >= FirstFree
    /\ PageAfter(AsPostings(mem[TermHead(t)]), doc, insert.loc, pos, q)
    /\ \A p \in Pages : mem'[p] = IF p = Root THEN TreePage(mem[Root].head)
                                  ELSE IF p = TermHead(t) THEN q ELSE mem[p]
    /\ disk' = disk /\ file_pages' = file_pages /\ shard' = shard

PostingLinks(t, doc, pos, q) ==
    /\ \/ TermHead(t) = NoPage
       \/ /\ ~EndsWith(AsPostings(mem[TermHead(t)]).postings, doc)
          /\ ~HasRoom(AsPostings(mem[TermHead(t)]).postings)
    /\ q = PostingPage(<<NewPosting(doc, insert.loc, pos)>>, TermHead(t))
    /\ \A p \in Pages : mem'[p] = IF p = Root THEN TreePage(NewHeads(t))
                                  ELSE IF p = shard.next_page_id THEN q ELSE mem[p]
    /\ Allocated(shard.next_page_id + 1)
    /\ shard' = [shard EXCEPT !.next_page_id = shard.next_page_id + 1]

(* The posting added next is for a term of the document or for term 0. *)
LEMMA NextTerm ==
    ASSUME BInv, phase = "inserting"
    PROVE  LET t == TermToAdd(Last(given).text, insert.added + 1)
           IN  t.term \in AllTerms /\ t.pos \in Nat /\ Last(given).doc \in Nat
               /\ Last(given).text \in Seq(Terms)
<1> DEFINE Given == [doc : Nat, text : Texts]
           rec == Last(given)
           n == insert.added + 1
<1>1. given \in Seq(Given) /\ given # <<>> /\ insert.added \in Nat
  BY DEF BInv, CallOk
<1>2. rec \in Given
  <2> HIDE DEF Given
  <2> QED BY <1>1, LastIn
<1>3. rec.doc \in Nat /\ rec.text \in Seq(Terms)
  BY <1>2, ShardTermsAssumption
<1>4. TermToAdd(rec.text, n) = IF n <= Len(rec.text) THEN [term |-> rec.text[n], pos |-> n - 1]
                               ELSE [term |-> AllDocs, pos |-> 0]
  BY DEF TermToAdd
<1> HIDE DEF Given, rec
<1>5. CASE n <= Len(rec.text)
  <2>1. n \in 1..Len(rec.text)
    BY <1>1, <1>5
  <2>2. rec.text[n] \in Terms
    BY <1>3, <2>1
  <2> QED BY <1>1, <1>3, <1>4, <1>5, <2>2 DEF rec, AllTerms
<1>6. CASE ~(n <= Len(rec.text))
  BY <1>1, <1>3, <1>4, <1>6 DEF rec, AllTerms
<1> QED BY <1>5, <1>6

TermAdded == TermToAdd(Last(given).text, insert.added + 1).term

(* The insert of one posting, with the term and the page it writes. *)
LEMMA PostingCases ==
    ASSUME BInv, InsertPosting
    PROVE  \/ WriteFails /\ PostingLost
           \/ \E t \in AllTerms, pos \in Nat : \E q :
                 /\ t = TermAdded
                 /\ \/ PostingChanges(t, Last(given).doc, pos, q)
                    \/ PostingLinks(t, Last(given).doc, pos, q)
<1> DEFINE rec  == Last(given)
           t    == TermToAdd(rec.text, insert.added + 1)
           head == mem[Root].head
           next == shard.next_page_id
           ix   == AddPosting([head |-> head, pages |-> mem, next_page_id |-> next],
                              t.term, rec.doc, insert.loc, t.pos)
<1>0. /\ next \in Nat /\ next >= 3 /\ Root = 0 /\ FirstFree = 3 /\ Root \in Pages
      /\ PagesOk(mem) /\ PagesOk(disk) /\ mem[Root].kind = "tree" /\ DOMAIN mem = Pages
      /\ shard \in [next_page_id : Nat, active_data_page_id : Nat,
                    next_doc_id : Nat, total_docs : Nat]
      /\ phase = "inserting"
  <2>1. Root = 0 /\ FirstFree = 3 /\ Root \in Pages
    BY ShardBoundsAssumption DEF Root, FirstFree, Pages
  <2>2. phase = "inserting"
    BY DEF InsertPosting
  <2>3. PagesOk(mem) /\ PagesOk(disk) /\ CountersOk /\ mem[Root].kind = "tree"
    BY <2>2 DEF BInv, CallOk
  <2>4. DOMAIN mem = Pages
    BY <2>3 DEF PagesOk
  <2>5. /\ next \in Nat /\ next >= 3
        /\ shard \in [next_page_id : Nat, active_data_page_id : Nat,
                      next_doc_id : Nat, total_docs : Nat]
    BY <2>1, <2>3 DEF CountersOk
  <2> QED BY <2>1, <2>2, <2>3, <2>4, <2>5
<1>1. t.term \in AllTerms /\ t.pos \in Nat
  BY <1>0, NextTerm
<1>2. /\ \/ mem' = [ix.pages EXCEPT ![Root] = TreePage(ix.head)] /\ Allocated(ix.next_page_id)
         \/ WriteFails /\ ix.next_page_id > next /\ UNCHANGED <<mem, disk, file_pages>>
      /\ shard' = [shard EXCEPT !.next_page_id = ix.next_page_id]
  BY DEF InsertPosting
<1>3. PICK term, doc, loc, pos, h, n, add :
          /\ term = t.term /\ doc = rec.doc /\ loc = insert.loc /\ pos = t.pos
          /\ h = head /\ n = next /\ add = ix
  OBVIOUS
<1>4. add = AddPosting([head |-> h, pages |-> mem, next_page_id |-> n], term, doc, loc, pos)
  BY <1>3
<1>5. OnHead(h, mem, n, term, doc, loc, pos, add) \/ OnNew(h, mem, n, term, doc, loc, pos, add)
  <2> HIDE DEF t, rec, head, next, ix
  <2> QED BY <1>4, AddPostingCases
<1>6. /\ term = TermAdded /\ term \in AllTerms /\ pos \in Nat /\ doc = Last(given).doc /\ loc = insert.loc
      /\ h = mem[Root].head /\ n = shard.next_page_id
      /\ \/ mem' = [add.pages EXCEPT ![Root] = TreePage(add.head)] /\ Allocated(add.next_page_id)
         \/ WriteFails /\ add.next_page_id > n /\ UNCHANGED <<mem, disk, file_pages>>
      /\ shard' = [shard EXCEPT !.next_page_id = add.next_page_id]
  BY <1>1, <1>2, <1>3 DEF TermAdded
<1> HIDE DEF t, rec, head, next, ix
<1>7. h[term] = NoPage \/ (h[term] \in Nat /\ h[term] >= FirstFree)
  BY <1>0, <1>6 DEF PagesOk, HeadsOf
<1>8. CASE WriteFails /\ UNCHANGED <<mem, disk, file_pages>> /\ add.next_page_id > n
  <2>1. add.next_page_id = n + 1
    BY <1>0, <1>5, <1>6, <1>8 DEF OnHead, OnNew, next
  <2> QED BY <1>0, <1>6, <1>8, <2>1 DEF PostingLost
<1>9. CASE /\ mem' = [add.pages EXCEPT ![Root] = TreePage(add.head)] /\ Allocated(add.next_page_id)
           /\ OnHead(h, mem, n, term, doc, loc, pos, add)
  <2>1. PICK q : /\ PageAfter(AsPostings(mem[h[term]]), doc, loc, pos, q)
                 /\ add = [head |-> h, pages |-> [mem EXCEPT ![h[term]] = q], next_page_id |-> n]
    BY <1>9 DEF OnHead
  <2>2. h[term] # NoPage
    BY <1>9 DEF OnHead
  <2>3. mem' = [[mem EXCEPT ![h[term]] = q] EXCEPT ![Root] = TreePage(h)] /\ Allocated(n)
    BY <1>9, <2>1
  <2>4. \A p \in Pages : mem'[p] = IF p = Root THEN TreePage(h)
                                   ELSE IF p = h[term] THEN q ELSE mem[p]
    BY <1>0, <2>3
  <2>5. disk' = disk /\ file_pages' = file_pages
    <3>1. n..(n - 1) = {}
      BY <1>0, <1>6 DEF next
    <3> QED BY <1>0, <1>6, <2>3, <3>1 DEF Allocated, PagesOk
  <2>6. shard' = shard
    BY <1>0, <1>6, <2>1
  <2>7. PostingChanges(term, doc, pos, q)
    BY <1>6, <1>7, <2>1, <2>2, <2>4, <2>5, <2>6 DEF PostingChanges, TermHead
  <2> QED BY <1>6, <2>7
<1>10. CASE /\ mem' = [add.pages EXCEPT ![Root] = TreePage(add.head)] /\ Allocated(add.next_page_id)
            /\ OnNew(h, mem, n, term, doc, loc, pos, add)
  <2> DEFINE q == PostingPage(<<NewPosting(doc, loc, pos)>>, h[term])
             g == [h EXCEPT ![term] = n]
  <2>1. add = [head |-> g, pages |-> [mem EXCEPT ![n] = q], next_page_id |-> n + 1]
    BY <1>10 DEF OnNew
  <2>2. \/ h[term] = NoPage
        \/ /\ ~EndsWith(AsPostings(mem[h[term]]).postings, doc)
           /\ ~HasRoom(AsPostings(mem[h[term]]).postings)
    BY <1>10 DEF OnNew
  <2> HIDE DEF q, g
  <2>3. /\ mem' = [[mem EXCEPT ![n] = q] EXCEPT ![Root] = TreePage(g)] /\ Allocated(n + 1)
        /\ shard' = [shard EXCEPT !.next_page_id = n + 1]
    BY <1>6, <1>10, <2>1
  <2>4. \A p \in Pages : mem'[p] = IF p = Root THEN TreePage(g)
                                   ELSE IF p = n THEN q ELSE mem[p]
    BY <1>0, <2>3
  <2>5. g = NewHeads(term) /\ q = PostingPage(<<NewPosting(doc, insert.loc, pos)>>, TermHead(term))
    BY <1>6 DEF q, g, TermHead, NewHeads
  <2>6. PostingLinks(term, doc, pos, q)
    BY <1>6, <2>2, <2>3, <2>4, <2>5 DEF PostingLinks, TermHead
  <2> QED BY <1>6, <2>6
<1> QED BY <1>5, <1>6, <1>8, <1>9, <1>10
-----------------------------------------------------------------------------
(* TInv holds at first, and every step keeps it. *)
LEMMA ZeroTyped == TypedPage(ZeroPage)
BY DEF TypedPage

(* TInv holds at the start. *)
LEMMA TInit == Init => TInv /\ SplitRoom
<1> SUFFICES ASSUME Init PROVE TInv /\ SplitRoom
  OBVIOUS
<1>1. PagesTyped(mem) /\ PagesTyped(disk)
  BY ZeroTyped DEF Init, PagesTyped
<1>2. RoomInv
  BY ShardBoundsAssumption DEF Init, RoomInv, NoMeta, Fresh, FirstFree
<1>3. SplitRoom
  BY DEF Init, SplitRoom
<1> QED BY <1>1, <1>2, <1>3 DEF TInv

(* Blank pages added to the file are typed. *)
LEMMA AllocatedTyped ==
    ASSUME PagesTyped(disk), NEW next, Allocated(next)
    PROVE  PagesTyped(disk')
BY ZeroTyped DEF PagesTyped, Allocated

(* What RoomInv says of numbers, with their types. *)
LEMMA Numbers ==
    ASSUME BInv, TInv
    PROVE  /\ MaxPages \in Nat /\ MaxPages > 3 /\ MaxDocs \in Nat
           /\ file_pages \in Nat /\ file_pages <= MaxPages
           /\ Len(given) \in Nat /\ Len(given) <= MaxDocs
           /\ insert.added \in Nat /\ FirstFree = 3
           /\ meta \in [next_page_id : Nat, next_doc_id : Nat, total_docs : Nat]
           /\ meta.next_page_id <= MaxPages /\ meta.total_docs <= Len(given)
           /\ shard \in [next_page_id : Nat, active_data_page_id : Nat,
                          next_doc_id : Nat, total_docs : Nat]
           /\ shard.next_page_id >= 3 /\ shard.next_page_id <= MaxPages
           /\ shard.total_docs <= Len(given)
           /\ deleted \subseteq DOMAIN given
<1>1. MaxPages \in Nat /\ MaxPages > 3 /\ MaxDocs \in Nat /\ FirstFree = 3
  BY ShardBoundsAssumption DEF FirstFree
<1>2. insert.added \in Nat /\ Len(given) \in Nat
  BY DEF BInv, CallOk
<1>3. CountersOk /\ RoomInv
  BY DEF BInv, TInv
<1> QED BY <1>1, <1>2, <1>3 DEF CountersOk, RoomInv

(* The counters alone. *)
LEMMA Bounds ==
    ASSUME BInv, TInv
    PROVE  /\ MaxPages \in Nat /\ MaxPages > 3 /\ MaxDocs \in Nat
           /\ shard.next_page_id \in Nat /\ shard.next_page_id >= 3
           /\ shard.next_page_id <= MaxPages /\ shard.next_doc_id \in Nat
           /\ file_pages \in Nat /\ file_pages <= MaxPages
           /\ Len(given) \in Nat /\ insert.added \in Nat
BY Numbers

(* Open keeps TInv. *)
LEMMA OpenKeepsT == ASSUME BInv, TInv, Open PROVE TInv'
<1> DEFINE none == [t \in AllTerms |-> NoPage]
<1>1. PagesTyped(disk')
  BY DEF TInv, PagesTyped, Open
<1>2. TypedPage(TombstonePage({})) /\ TypedPage(DataPage(<<>>)) /\ TypedPage(TreePage(none))
  <2>1. TombstonePage({}).kind = "tombstone" /\ TombstonePage({}).bits = {}
    BY DEF TombstonePage
  <2>2. DataPage(<<>>).kind = "data" /\ DataPage(<<>>).slots = <<>>
    BY DEF DataPage, SlottedPage
  <2>3. <<>> \in Seq(Records) /\ Len(<<>>) = 0 /\ 0 <= SlotsPerPage
    BY SlotsPerPageAssumption
  <2>4. TreePage(none).kind = "tree" /\ TreePage(none).head = none
    BY DEF TreePage
  <2>5. none \in [AllTerms -> Pages \cup {NoPage}]
    OBVIOUS
  <2>6. TypedPage(TombstonePage({}))
    BY <2>1 DEF TypedPage
  <2>7. TypedPage(DataPage(<<>>))
    BY <2>2, <2>3 DEF TypedPage, Slotted
  <2>8. TypedPage(TreePage(none))
    BY <2>4, <2>5 DEF TypedPage
  <2> QED BY <2>6, <2>7, <2>8
<1>3. PagesTyped(mem')
  <2>1. \A p \in Pages \ {Root} : \/ mem'[p] = disk[p] \/ mem'[p] = TombstonePage({})
                                  \/ mem'[p] = DataPage(<<>>)
    <3>1. file_pages > 0 \/ file_pages = 0
      BY Numbers
    <3> QED BY <3>1, OpenedPagesOk DEF Open
  <2>2. mem'[Root] = disk[Root] \/ mem'[Root] = TreePage(none)
    BY OpenedPagesOk DEF Open
  <2> HIDE DEF none
  <2> QED BY <1>2, <2>1, <2>2 DEF TInv, PagesTyped
<1>4. Counters.next_page_id \in 0..MaxPages /\ Counters.total_docs <= Len(given)
  <2>1. CASE meta # NoMeta
    BY <2>1, Numbers DEF Counters
  <2>2. CASE meta = NoMeta
    BY <2>2, Numbers DEF Counters, CountersFromLength
  <2> QED BY <2>1, <2>2
<1>5. /\ shard'.next_page_id = Counters.next_page_id /\ shard'.total_docs = Counters.total_docs
      /\ file_pages' <= MaxPages /\ phase' = "open"
      /\ UNCHANGED <<meta, given, deleted>>
  BY Numbers DEF Open
<1>6. RoomInv'
  BY <1>4, <1>5, Numbers DEF RoomInv, TInv
<1> QED BY <1>1, <1>3, <1>6 DEF TInv

(* InsertRecord keeps TInv. *)
LEMMA InsertRecordKeepsT ==
    ASSUME BInv, TInv, NEW text \in Texts, InsertRecord(text) PROVE TInv'
<1> DEFINE rec == [node |-> Len(given) + 1, doc |-> shard.next_doc_id]
           new == Placed(rec)
           next == shard.next_page_id
<1>0. /\ text \in Seq(Terms) /\ Len(text) \in Nat /\ next + Len(text) + 2 <= MaxPages
      /\ next < MaxPages /\ Len(given) < MaxDocs /\ Len(given) \in Nat
      /\ shard.next_doc_id \in Nat /\ next \in Nat /\ MaxPages \in Nat
  <2>1. text \in Seq(Terms)
    BY ShardTermsAssumption
  <2>2. Len(text) \in Nat
    BY <2>1
  <2>3. next + Len(text) + 2 <= MaxPages /\ Len(given) < MaxDocs
    BY DEF InsertRecord
  <2> QED BY <2>1, <2>2, <2>3, Bounds
<1>1. rec \in Records
  BY <1>0 DEF Records
<1>2. /\ mem' = new.pages /\ Allocated(new.next)
      /\ shard' = [next_page_id |-> new.next, active_data_page_id |-> new.at,
                   next_doc_id |-> shard.next_doc_id + 1, total_docs |-> shard.total_docs + 1]
      /\ given' = Append(given, [doc |-> shard.next_doc_id, text |-> text])
      /\ insert' = [loc |-> [page |-> new.at, slot |-> new.slot], added |-> 0]
      /\ phase' = "inserting" /\ meta' = meta /\ deleted' = deleted
  BY DEF InsertRecord
<1>3. PICK q : /\ new.pages = [mem EXCEPT ![new.at] = q]
               /\ new.slot = Len(q.slots) /\ new.at \in Pages
               /\ Slotted(q) /\ q.slots \in Seq(Records) /\ Len(q.slots) \in 1..SlotsPerPage
               /\ new.next = next \/ new.next = next + 1
  <2> HIDE DEF rec
  <2>1. PagesTyped(mem)
    BY DEF TInv
  <2> QED BY <1>0, <1>1, <2>1, PlacedCases
<1> HIDE DEF new, rec
<1>4. PagesTyped(mem')
  <2>1. TypedPage(q)
    <3>1. Len(q.slots) <= SlotsPerPage
      BY <1>3, SlotsPerPageAssumption
    <3> QED BY <1>3, <3>1 DEF TypedPage
  <2>2. PagesOk(mem) /\ PagesTyped(mem)
    BY DEF BInv, TInv
  <2>3. PICK at : at = new.at
    OBVIOUS
  <2>4. mem' = [mem EXCEPT ![at] = q]
    BY <1>2, <1>3, <2>3
  <2>5. PagesTyped([mem EXCEPT ![at] = q])
    BY <2>1, <2>2, TypedWrite
  <2> QED BY <2>4, <2>5
<1>5. PagesTyped(disk')
  BY <1>2, AllocatedTyped DEF TInv
<1>6. new.next \in Nat /\ new.next <= next + 1
  BY <1>0, <1>3
<1>7. file_pages' <= MaxPages
  <2>1. file_pages' = file_pages \/ file_pages' = new.next
    BY <1>2, <1>6, AllocatedOk
  <2>2. file_pages <= MaxPages
    BY Bounds
  <2>3. next + 1 <= MaxPages
    BY <1>0
  <2>4. file_pages' = new.next => file_pages' <= MaxPages
    BY <1>0, <1>6, <2>3
  <2> QED BY <2>1, <2>2, <2>4
<1>8. insert'.loc \in Locations /\ insert'.added = 0
  <2>1. new.slot \in Nat \ {0}
    BY <1>3, SlotsPerPageAssumption
  <2> QED BY <1>2, <1>3, <2>1 DEF Locations
<1>9. /\ Len(given') = Len(given) + 1 /\ Last(given').text = text
      /\ DOMAIN given \subseteq DOMAIN given'
  <2>1. given \in Seq([doc : Nat, text : Texts])
    BY DEF BInv, CallOk
  <2>2. PICK r : r = [doc |-> shard.next_doc_id, text |-> text]
    OBVIOUS
  <2>3. given' = Append(given, r) /\ r.text = text /\ r \in [doc : Nat, text : Texts]
    BY <1>0, <1>2, <2>2
  <2>4. Len(given') = Len(given) + 1 /\ given'[Len(given) + 1] = r
        /\ DOMAIN given \subseteq DOMAIN given'
    BY <2>1, <2>3
  <2> QED BY <2>3, <2>4 DEF Last
<1>10. shard'.next_page_id = new.next /\ shard'.total_docs = shard.total_docs + 1
  BY <1>2
<1>11. RoomInv'
  <2>0. PICK len, at, num : /\ len = Len(text) /\ at = new.next /\ num = Len(given')
    OBVIOUS
  <2>1. /\ new.next + Len(text) + 1 - 0 <= MaxPages /\ new.next <= MaxPages
        /\ 0 <= Len(text) /\ Len(given') <= MaxDocs
    <3>1. len \in Nat /\ at \in Nat /\ at <= shard.next_page_id + 1
          /\ shard.next_page_id + len + 2 <= MaxPages
      BY <1>0, <1>6, <2>0
    <3>2. at + len + 1 - 0 <= MaxPages /\ at <= MaxPages /\ 0 <= len
      BY <1>0, <3>1
    <3>3. num <= MaxDocs
      BY <1>0, <1>9, <2>0, ShardBoundsAssumption
    <3> QED BY <2>0, <3>2, <3>3
  <2>3. shard.total_docs \in Nat /\ meta.total_docs \in Nat
    BY Numbers
  <2>4. shard'.total_docs <= Len(given')
    BY <1>0, <1>9, <1>10, <2>3, Numbers
  <2>5. meta'.total_docs <= Len(given') /\ meta'.next_page_id <= MaxPages
    BY <1>0, <1>2, <1>9, <2>3, Numbers
  <2>2. deleted' \subseteq DOMAIN given'
    BY <1>2, <1>9, Numbers
  <2> QED BY <1>7, <1>8, <1>9, <1>10, <2>1, <2>2, <2>4, <2>5 DEF RoomInv
<1> QED BY <1>4, <1>5, <1>11 DEF TInv

(* A refused insert keeps TInv. *)
LEMMA InsertRefusedKeepsT == ASSUME BInv, TInv, InsertRefused PROVE TInv'
<1>1. /\ shard' = [shard EXCEPT !.next_page_id = shard.next_page_id + 1,
                               !.active_data_page_id = shard.next_page_id,
                               !.next_doc_id = shard.next_doc_id + 1]
      /\ UNCHANGED <<mem, disk, file_pages, meta, phase, given, insert, deleted>>
      /\ shard.next_page_id < MaxPages /\ phase = "open"
  BY DEF InsertRefused
<1>2. shard'.next_page_id = shard.next_page_id + 1 /\ shard'.total_docs = shard.total_docs
  BY <1>1, Numbers
<1>3. PagesTyped(mem') /\ PagesTyped(disk')
  BY <1>1 DEF TInv
<1>4. shard'.next_page_id <= MaxPages
  BY <1>1, <1>2, Numbers
<1>5. RoomInv'
  BY <1>1, <1>2, <1>4 DEF RoomInv, TInv
<1> QED BY <1>3, <1>5 DEF TInv

(* The page of the head of a term, seen as a page of postings. *)
LEMMA HeadTyped ==
    ASSUME NEW p, TypedPage(p)
    PROVE  /\ AsPostings(p).postings \in Seq(Posting(Locations))
           /\ Len(AsPostings(p).postings) <= MaxPostings
           /\ AsPostings(p).next \in Pages \cup {NoPage}
<1>1. /\ \A a, b : PostingPage(a, b).postings = a /\ PostingPage(a, b).next = b
      /\ MaxPostings \in Nat /\ 0 \in Pages
  BY MaxPostingsAssumption, ShardBoundsAssumption DEF PostingPage, Pages, FirstFree
<1>2. CASE p.kind = "posting"
  <2>1. /\ p.postings \in Seq(Posting(Locations)) /\ Len(p.postings) \in 1..MaxPostings
        /\ p.next \in Pages \cup {NoPage}
    BY <1>2 DEF TypedPage, ZeroPage, LeafPage, Slotted
  <2>2. Len(p.postings) <= MaxPostings
    BY <1>1, <2>1
  <2>3. AsPostings(p) = p
    BY <1>2 DEF AsPostings
  <2> QED BY <2>1, <2>2, <2>3
<1>3. CASE p.kind # "posting"
  <2>1. AsPostings(p).postings = <<>> /\ AsPostings(p).next = 0
    BY <1>1, <1>3 DEF AsPostings
  <2>2. <<>> \in Seq(Posting(Locations)) /\ Len(<<>>) = 0
    OBVIOUS
  <2>3. 0 <= MaxPostings
    BY <1>1
  <2> QED BY <1>1, <2>1, <2>2, <2>3
<1> QED BY <1>2, <1>3

(* InsertPosting keeps TInv. *)
LEMMA InsertPostingKeepsT == ASSUME BInv, TInv, InsertPosting PROVE TInv'
<1> DEFINE text == Last(given).text
           next == shard.next_page_id
<1>0. /\ phase = "inserting" /\ UNCHANGED <<meta, given, deleted>>
      /\ \/ /\ insert.added < Len(text) /\ insert' = [insert EXCEPT !.added = insert.added + 1]
            /\ phase' = phase
         \/ phase' = "open"
      /\ text \in Seq(Terms) /\ Last(given).doc \in Nat
  BY NextTerm DEF InsertPosting
<1>1. /\ Len(text) \in Nat /\ insert.loc \in Locations /\ insert.added <= Len(text)
      /\ next + Len(text) + 1 - insert.added <= MaxPages
  BY <1>0 DEF TInv, RoomInv
<1>2. next + 1 <= MaxPages /\ next \in Pages /\ next \in Nat
  <2>1. next \in Nat /\ MaxPages \in Nat /\ insert.added \in Nat
    BY Bounds
  <2>2. PICK len : len = Len(text)
    OBVIOUS
  <2>3. len \in Nat /\ insert.added <= len /\ next + len + 1 - insert.added <= MaxPages
    BY <1>1, <2>2
  <2>4. next + 1 <= MaxPages
    BY <2>1, <2>3
  <2> QED BY <2>1, <2>4 DEF Pages
<1>3. PagesTyped(mem) /\ PagesTyped(disk) /\ mem[Root].kind = "tree" /\ Root \in Pages
  BY <1>0, ShardBoundsAssumption DEF TInv, BInv, CallOk, Root, Pages, FirstFree
<1>4. mem[Root].head \in [AllTerms -> Pages \cup {NoPage}]
  BY <1>3 DEF PagesTyped, TypedPage, ZeroPage, LeafPage, Slotted
<1>5. \A h : h \in [AllTerms -> Pages \cup {NoPage}] => TypedPage(TreePage(h))
  BY DEF TypedPage, TreePage
<1> DEFINE Kept == /\ PagesTyped(mem') /\ PagesTyped(disk') /\ file_pages' <= MaxPages
                   /\ shard'.next_page_id \in {next, next + 1}
                   /\ shard'.total_docs = shard.total_docs
<1>6. Kept
  <2>1. CASE PostingLost
    BY <1>3, <2>1, Numbers DEF PostingLost
  <2>2. ASSUME NEW t \in AllTerms, NEW pos \in Nat, NEW q,
               PostingChanges(t, Last(given).doc, pos, q)
        PROVE  Kept
    <3>1. TermHead(t) \in Pages
      BY <1>4, <2>2 DEF PostingChanges, TermHead
    <3>2. TypedPage(mem[TermHead(t)])
      BY <1>3, <3>1 DEF PagesTyped
    <3>3. PICK page : page = AsPostings(mem[TermHead(t)])
      OBVIOUS
    <3>4. /\ page.postings \in Seq(Posting(Locations)) /\ Len(page.postings) <= MaxPostings
          /\ page.next \in Pages \cup {NoPage}
      BY <3>2, <3>3, HeadTyped
    <3>5. PageAfter(page, Last(given).doc, insert.loc, pos, q)
      BY <2>2, <3>3 DEF PostingChanges
    <3>6. /\ q.kind = "posting" /\ q.next = page.next
          /\ q.postings \in Seq(Posting(Locations)) /\ Len(q.postings) \in 1..MaxPostings
      BY <1>0, <1>1, <3>4, <3>5, PageAfterTyped
    <3>7. TypedPage(q)
      BY <3>4, <3>6 DEF TypedPage
    <3>8. PagesTyped(mem')
      BY <1>3, <1>4, <1>5, <2>2, <3>7 DEF PostingChanges, PagesTyped
    <3> QED BY <1>3, <2>2, <3>8, Numbers DEF PostingChanges
  <2>3. ASSUME NEW t \in AllTerms, NEW pos \in Nat, NEW q,
               PostingLinks(t, Last(given).doc, pos, q)
        PROVE  Kept
    <3>1. TermHead(t) \in Pages \cup {NoPage}
      BY <1>4 DEF TermHead
    <3>2. TypedPage(q)
      <4> DEFINE s == <<NewPosting(Last(given).doc, insert.loc, pos)>>
                 P == Posting(Locations)
      <4>1. NewPosting(Last(given).doc, insert.loc, pos) \in P
        BY <1>0, <1>1 DEF NewPosting, Posting
      <4>2. q.kind = "posting" /\ q.postings = s /\ q.next = TermHead(t)
        BY <2>3 DEF PostingLinks, PostingPage
      <4> HIDE DEF P
      <4>3. s \in Seq(P) /\ Len(s) = 1
        BY <4>1
      <4>4. 1 \in 1..MaxPostings
        BY MaxPostingsAssumption
      <4> HIDE DEF s
      <4> QED BY <3>1, <4>2, <4>3, <4>4 DEF TypedPage, P
    <3>3. NewHeads(t) \in [AllTerms -> Pages \cup {NoPage}]
      BY <1>2, <1>4 DEF NewHeads
    <3>4. PagesTyped(mem')
      BY <1>3, <1>5, <2>3, <3>2, <3>3 DEF PostingLinks, PagesTyped
    <3>5. Allocated(next + 1) /\ shard' = [shard EXCEPT !.next_page_id = next + 1]
      BY <2>3 DEF PostingLinks
    <3>6. PagesTyped(disk')
      BY <1>3, <3>5, AllocatedTyped
    <3>7. file_pages' = file_pages \/ file_pages' = next + 1
      BY <1>2, <3>5, AllocatedOk
    <3>8. file_pages' <= MaxPages
      BY <1>2, <3>7, Numbers
    <3>9. shard'.next_page_id = next + 1 /\ shard'.total_docs = shard.total_docs
      BY <3>5, Numbers
    <3> QED BY <3>4, <3>6, <3>8, <3>9
  <2> QED BY <2>1, <2>2, <2>3, PostingCases
<1>7. shard'.next_page_id <= MaxPages
  BY <1>2, <1>6, Numbers
<1>8. phase' = "inserting" =>
         /\ insert'.loc \in Locations /\ insert'.added <= Len(text)
         /\ shard'.next_page_id + Len(text) + 1 - insert'.added <= MaxPages
  <2> HAVE phase' = "inserting"
  <2>1. insert.added < Len(text) /\ insert' = [insert EXCEPT !.added = insert.added + 1]
    BY <1>0
  <2>2. insert = [loc |-> insert.loc, added |-> insert.added]
    BY DEF BInv, CallOk
  <2>3. insert' = [loc |-> insert.loc, added |-> insert.added + 1]
    BY <2>1, <2>2
  <2>4. insert'.loc = insert.loc /\ insert'.added = insert.added + 1
    BY <2>3
  <2> HIDE DEF text
  <2>5. insert'.loc \in Locations /\ insert'.added <= Len(text)
    BY <1>1, <2>1, <2>4, Numbers
  <2>6. shard'.next_page_id + Len(text) + 1 - insert'.added <= MaxPages
    <3>1. PICK a, b, c : a = shard'.next_page_id /\ b = insert'.added /\ c = Len(text)
      OBVIOUS
    <3>2. a \in {next, next + 1} /\ b = insert.added + 1
      BY <1>6, <2>4, <3>1
    <3>3. /\ c \in Nat /\ next + c + 1 - insert.added <= MaxPages
          /\ MaxPages \in Nat /\ insert.added \in Nat
      BY <1>1, <3>1, Numbers
    <3> HIDE DEF next
    <3>4. a + c + 1 - b <= MaxPages
      BY <1>2, <3>2, <3>3
    <3> QED BY <3>1, <3>4
  <2> QED BY <2>5, <2>6
<1>9. RoomInv'
  <2>1. Last(given').text = text
    BY <1>0
  <2> HIDE DEF text
  <2> QED BY <1>0, <1>6, <1>7, <1>8, <2>1 DEF RoomInv, TInv
<1> QED BY <1>6, <1>9 DEF TInv

(* When the posting has filled a leaf, there is room for its split. *)
LEMMA SplitFits == ASSUME BInv, TInv, SplitRoom, InsertPosting PROVE SplitRoom'
<1> SUFFICES ASSUME leaf_full'
             PROVE  /\ shard'.next_page_id < MaxPages
                    /\ phase' = "inserting" => shard'.next_page_id + Len(Last(given').text) + 2
                                                 - insert'.added <= MaxPages
  BY DEF InsertPosting, SplitRoom
<1>1. PICK len, added, n : /\ len = Len(Last(given).text) /\ added = insert.added
                           /\ n = shard'.next_page_id
  OBVIOUS
<1>2. len \in Nat /\ added \in Nat /\ n \in Nat /\ added <= len /\ MaxPages \in Nat
  <2>1. Last(given).text \in Seq(Terms) /\ BInv'
    BY NextTerm, InsertPostingKeepsB DEF InsertPosting
  <2>2. insert.added <= Len(Last(given).text)
    BY DEF InsertPosting, TInv, RoomInv
  <2>3. shard'.next_page_id \in Nat
    BY <2>1 DEF BInv, CountersOk
  <2>4. Len(Last(given).text) \in Nat
    BY <2>1
  <2>5. MaxPages \in Nat /\ insert.added \in Nat
    BY Bounds
  <2> QED BY <1>1, <2>2, <2>3, <2>4, <2>5
<1>3. n + (len - added) < MaxPages
  BY <1>1 DEF InsertPosting, SplitsLeaf
<1>4. n < MaxPages
  BY <1>2, <1>3
<1>5. CASE added < len
  <2>1. insert' = [insert EXCEPT !.added = insert.added + 1] /\ given' = given
    BY <1>1, <1>5 DEF InsertPosting
  <2>2. insert = [loc |-> insert.loc, added |-> insert.added]
    BY DEF BInv, CallOk
  <2>3. insert' = [loc |-> insert.loc, added |-> insert.added + 1]
    BY <2>1, <2>2
  <2>4. insert'.added = added + 1
    BY <1>1, <2>3
  <2>5. n + len + 2 - (added + 1) <= MaxPages
    BY <1>2, <1>3
  <2> QED BY <1>1, <1>4, <2>1, <2>4, <2>5
<1>6. CASE ~(added < len)
  <2>1. phase' = "open"
    BY <1>1, <1>6 DEF InsertPosting
  <2> QED BY <1>1, <1>4, <2>1
<1> QED BY <1>5, <1>6

(* SplitLeaf keeps TInv. *)
LEMMA SplitKeepsT == ASSUME BInv, TInv, SplitRoom, SplitLeaf PROVE TInv' /\ SplitRoom'
<1> DEFINE n == shard.next_page_id
<1>0. /\ n < MaxPages /\ leaf_full' = FALSE /\ leaves' = leaves \cup {n}
      /\ phase = "inserting" => n + Len(Last(given).text) + 2 - insert.added <= MaxPages
      /\ UNCHANGED <<meta, phase, given, insert, deleted>>
  BY DEF SplitLeaf, SplitRoom
<1>1. /\ \A p \in Pages : mem'[p] = IF p = n THEN LeafPage ELSE mem[p]
      /\ Allocated(n + 1)
      /\ shard' = [next_page_id |-> n + 1, active_data_page_id |-> shard.active_data_page_id,
                   next_doc_id |-> shard.next_doc_id, total_docs |-> shard.total_docs]
  BY SplitEffect
<1>2. PagesTyped(mem') /\ PagesTyped(disk')
  <2>1. TypedPage(LeafPage)
    BY DEF TypedPage
  <2> QED BY <1>1, <2>1, AllocatedTyped DEF TInv, PagesTyped
<1>3. n \in Nat /\ n + 1 <= MaxPages /\ n \in Pages
  BY <1>0, Bounds DEF Pages
<1>4. file_pages' <= MaxPages
  <2>1. file_pages' = file_pages \/ file_pages' = n + 1
    BY <1>1, <1>3, AllocatedOk
  <2> QED BY <1>3, <2>1, Bounds
<1>5. shard'.next_page_id = n + 1 /\ shard'.total_docs = shard.total_docs
  BY <1>1
<1>6. phase = "inserting" => n + 1 + Len(Last(given).text) + 1 - insert.added <= MaxPages
  <2> HAVE phase = "inserting"
  <2>1. PICK len, added : len = Len(Last(given).text) /\ added = insert.added
    OBVIOUS
  <2>2. len \in Nat /\ added \in Nat
    BY <2>1, NextTerm, Bounds
  <2>3. n + len + 2 - added <= MaxPages
    BY <1>0, <2>1
  <2>4. n + 1 + len + 1 - added <= MaxPages
    BY <1>3, <2>2, <2>3, Bounds
  <2> QED BY <2>1, <2>4
<1>7. RoomInv'
  BY <1>0, <1>3, <1>4, <1>5, <1>6 DEF TInv, RoomInv
<1>8. SplitRoom'
  BY <1>0, <1>3 DEF SplitRoom
<1> QED BY <1>2, <1>7, <1>8 DEF TInv

(* Delete keeps TInv. *)
LEMMA DeleteKeepsT == ASSUME BInv, TInv, NEW node, Delete(node) PROVE TInv'
<1> DEFINE doc == given[node].doc
           bits == Marked(Bits(mem), doc)
<1>0. /\ mem' = [mem EXCEPT ![Tombstone] = TombstonePage(bits)]
      /\ deleted' = deleted \cup {node} /\ node \in DOMAIN given
      /\ UNCHANGED <<disk, file_pages, meta, shard, phase, given, insert>>
  BY DEF Delete
<1>1. /\ PagesOk(mem) /\ PagesTyped(mem) /\ PagesTyped(disk)
      /\ Tombstone \in Pages /\ given \in Seq([doc : Nat, text : Texts])
  BY ShardBoundsAssumption DEF BInv, CallOk, TInv, Tombstone, Pages, FirstFree
<1>2. doc \in Nat
  <2> DEFINE Given == [doc : Nat, text : Texts]
  <2>1. given \in Seq(Given) /\ \A r \in Given : r.doc \in Nat
    BY <1>1
  <2> HIDE DEF Given
  <2>2. given[node] \in Given
    BY <1>0, <2>1
  <2> QED BY <2>1, <2>2
<1>3. Bits(mem) \in SUBSET (0..(TombstoneRoom - 1))
  <2>1. TypedPage(mem[Tombstone])
    BY <1>1 DEF PagesTyped
  <2> QED BY <2>1 DEF Bits, TypedPage, ZeroPage, LeafPage, Slotted
<1>4. bits \in SUBSET (0..(TombstoneRoom - 1))
  <2>1. Bit(doc) \in Nat
    BY <1>2, TombstoneAssumption DEF Bit
  <2> HIDE DEF doc
  <2> QED BY <1>3, <2>1, TombstoneAssumption DEF Marked
<1> HIDE DEF bits
<1>5. TypedPage(TombstonePage(bits))
  BY <1>4 DEF TypedPage, TombstonePage
<1>6. PagesTyped(mem')
  BY <1>0, <1>1, <1>5, TypedWrite
<1>7. RoomInv'
  BY <1>0 DEF TInv, RoomInv
<1> QED BY <1>0, <1>1, <1>6, <1>7 DEF TInv

(* Save keeps TInv. *)
LEMMA SaveKeepsT == ASSUME BInv, TInv, NEW p \in Pages, Save(p) PROVE TInv'
<1>1. /\ disk' = [disk EXCEPT ![p] = mem[p]]
      /\ file_pages' = IF p < file_pages THEN file_pages ELSE p + 1
      /\ UNCHANGED <<mem, meta, shard, phase, given, insert, deleted>>
  BY DEF Save
<1>2. PagesTyped(mem') /\ PagesTyped(disk')
  <2>1. PagesOk(disk) /\ PagesTyped(disk) /\ TypedPage(mem[p]) /\ PagesTyped(mem)
    BY DEF BInv, TInv, PagesTyped
  <2>2. PICK q : q = mem[p]
    OBVIOUS
  <2>3. PagesTyped([disk EXCEPT ![p] = q])
    BY <2>1, <2>2, TypedWrite
  <2> QED BY <1>1, <2>1, <2>2, <2>3
<1>3. file_pages' <= MaxPages
  BY <1>1, Numbers DEF Pages
<1>4. RoomInv'
  BY <1>1, <1>3 DEF TInv, RoomInv
<1> QED BY <1>2, <1>4 DEF TInv

(* Flushing the dirty pages makes the file no longer than its pages need. *)
LEMMA FlushedLength == ASSUME BInv, TInv, CloseFlushes PROVE file_pages' <= MaxPages
<1> DEFINE ends == {file_pages} \cup {p + 1 : p \in {q \in Pages : disk[q] # mem[q]}}
<1>1. ends \in SUBSET Nat /\ \A n \in ends : n <= MaxPages
  <2>1. \A p \in Pages : p + 1 \in Nat /\ p + 1 <= MaxPages
    BY Numbers DEF Pages
  <2>2. file_pages \in Nat /\ file_pages <= MaxPages
    BY Numbers
  <2> QED BY <2>1, <2>2
<1>2. file_pages' = Max(ends) /\ ends # {}
  BY DEF CloseFlushes
<1> HIDE DEF ends
<1>3. \E n \in ends : \A k \in ends : k <= n
  BY <1>1, <1>2, ShardBoundsAssumption, GreatestOne
<1>4. \E n \in ends : \A k \in ends : n >= k
  BY <1>1, <1>3
<1>5. Max(ends) \in ends
  BY <1>4 DEF Max
<1> QED BY <1>1, <1>2, <1>5

(* Close keeps TInv. *)
LEMMA CloseKeepsT ==
    ASSUME BInv, TInv,
           CloseTruncates \/ CloseDescribes \/ CloseFailsToDescribe \/ CloseFlushes
    PROVE  TInv'
<1>1. CASE CloseTruncates
  <2>1. /\ UNCHANGED <<mem, disk, file_pages, shard, given, insert, deleted>>
        /\ meta' = NoMeta /\ phase' = "truncated"
    BY <1>1 DEF CloseTruncates
  <2>2. meta'.next_page_id <= MaxPages /\ meta'.total_docs <= Len(given)
    BY <2>1, Numbers DEF NoMeta
  <2> QED BY <2>1, <2>2 DEF TInv, RoomInv, PagesTyped
<1>2. CASE CloseDescribes
  <2>1. /\ UNCHANGED <<mem, disk, file_pages, shard, given, insert, deleted>>
        /\ meta' = SavedCounters /\ phase' = "described"
    BY <1>2 DEF CloseDescribes
  <2>2. meta'.next_page_id <= MaxPages /\ meta'.total_docs <= Len(given)
    BY <2>1, Numbers DEF SavedCounters
  <2> QED BY <2>1, <2>2 DEF TInv, RoomInv, PagesTyped
<1>3. CASE CloseFlushes
  <2>1. /\ UNCHANGED <<mem, meta, shard, given, insert, deleted>>
        /\ disk' = mem /\ phase' = "closed"
    BY <1>3 DEF CloseFlushes
  <2>2. file_pages' <= MaxPages
    BY <1>3, FlushedLength
  <2> QED BY <2>1, <2>2 DEF TInv, RoomInv, PagesTyped
<1>4. CASE CloseFailsToDescribe
  BY <1>4 DEF CloseFailsToDescribe, TInv, RoomInv, PagesTyped
<1> QED BY <1>1, <1>2, <1>3, <1>4

(* OpenStops keeps TInv. *)
LEMMA OpenStopsKeepsT == ASSUME BInv, TInv, OpenStops PROVE TInv'
<1>1. file_pages' <= MaxPages
  BY ShardBoundsAssumption DEF OpenStops, FirstFree
<1> QED BY <1>1 DEF OpenStops, TInv, RoomInv, PagesTyped

(* Crash keeps TInv. *)
LEMMA CrashKeepsT == ASSUME BInv, TInv, Crash PROVE TInv'
<1>1. /\ UNCHANGED <<disk, file_pages, meta, given, deleted>>
      /\ mem' = disk /\ shard' = Fresh /\ phase' = "closed"
  BY DEF Crash
<1>2. shard'.next_page_id <= MaxPages /\ shard'.total_docs <= Len(given)
  BY <1>1, Numbers DEF Fresh
<1> QED BY <1>1, <1>2 DEF TInv, RoomInv, PagesTyped

(* Every step keeps TInv. *)
LEMMA TStep ==
    ASSUME BInv, SplitInv, TInv, SplitRoom, [Next]_vars
    PROVE  TInv' /\ SplitRoom'
<1>1. CASE UNCHANGED vars
  BY <1>1 DEF vars, splits, TInv, RoomInv, PagesTyped, SplitRoom
<1>2. ASSUME NEW text \in Texts, InsertRecord(text) PROVE TInv'
  BY <1>2, InsertRecordKeepsT
<1>3. ASSUME NEW node \in 1..MaxDocs, Delete(node) PROVE TInv'
  BY <1>3, DeleteKeepsT
<1>4. ASSUME NEW p \in Pages, Save(p) PROVE TInv'
  BY <1>4, SaveKeepsT
<1>5. CASE SplitLeaf
  BY <1>5, SplitKeepsT
<1>6. CASE InsertPosting
  BY <1>6, InsertPostingKeepsT, SplitFits
<1>7. CASE ~leaf_full /\ Step /\ ~InsertPosting
  <2>1. TInv'
    BY <1>2, <1>3, <1>4, <1>7, OpenKeepsT, OpenStopsKeepsT, InsertRefusedKeepsT, CloseKeepsT,
       CrashKeepsT DEF Step
  <2>2. leaf_full' = FALSE /\ (leaves' = leaves \/ leaves' = {})
    BY <1>7 DEF Step, splits, Open, OpenStops, InsertRecord, InsertRefused, Delete, Save,
       CloseTruncates, CloseDescribes, CloseFailsToDescribe, CloseFlushes, Crash, SplitInv
  <2> QED BY <2>1, <2>2 DEF SplitRoom
<1> QED BY <1>1, <1>5, <1>6, <1>7 DEF Next

(* TInv is an invariant under every fault. *)
LEMMA TInvariant == Spec => []TInv /\ []SplitRoom
BY TInit, TStep, BInvariant, SplitsInCalls, PTL DEF Spec

(* Whatever fails and whenever the process is killed, every page, in       *)
(* memory and in the file, has one of the layouts within its bounds and    *)
(* names only places of the file: slotted_page_insert_tuple fills no page  *)
(* beyond its end, inverted_index_add_posting none beyond                  *)
(* MAX_POSTINGS_PER_PAGE, delete_document no bit past the page; and no     *)
(* counter leaves its bound.                                               *)
THEOREM ShardTypesOk == Spec => []TypeOK
BY TInvariant, BInvariant, SplitsInCalls, TInvTypes, PTL
-----------------------------------------------------------------------------
(* A page has one use, as long as no kill and no .meta left unsaved sets   *)
(* the counters back.  Every page of postings is one already allocated; it *)
(* is linked to an older one, so links lead downwards and never in a       *)
(* circle; no two pages, no two terms, and no page and term name the same  *)
(* page of postings.                                                       *)
Posts(m) == {p \in Pages : m[p].kind = "posting"}

OneUse(m, next) ==
    /\ m[Root].kind = "tree"
    /\ \A p \in Posts(m) : p >= FirstFree /\ p < next
    /\ \A p \in Posts(m) : m[p].next # NoPage => m[p].next \in Posts(m) /\ m[p].next < p
    /\ \A p, q \in Posts(m) : m[p].next # NoPage /\ m[p].next = m[q].next => p = q
    /\ \A t \in AllTerms : m[Root].head[t] # NoPage => m[Root].head[t] \in Posts(m)
    /\ \A s, t \in AllTerms : m[Root].head[s] # NoPage /\ m[Root].head[s] = m[Root].head[t]
                              => s = t
    /\ \A t \in AllTerms : \A p \in Posts(m) :
          m[p].next # NoPage => m[p].next # m[Root].head[t]

(* The pages the tree took when it split are still its leaves. *)
LeavesIn(s, m, next) == \A p \in s : m[p].kind = "leaf" /\ p >= FirstFree /\ p < next

UInv ==
    /\ phase # "closed" => OneUse(mem, shard.next_page_id) /\ LeavesIn(leaves, mem, shard.next_page_id)
    /\ phase = "described" => meta = SavedCounters
    /\ phase = "closed" =>
          IF meta = NoMeta THEN /\ file_pages = 0 \/ WriteFails
                                /\ leaves = {} /\ \A p \in Pages : disk[p] = ZeroPage
          ELSE /\ file_pages > 0
               /\ OneUse(disk, meta.next_page_id) /\ LeavesIn(leaves, disk, meta.next_page_id)

(* No step of another kind changes a leaf.                                 *)
LEMMA LeavesStay ==
    ASSUME NEW s, s \subseteq Pages, NEW m, NEW n \in Nat, LeavesIn(s, m, n),
           NEW m2, NEW n2 \in Nat, n <= n2,
           \A p \in Pages : m[p].kind = "leaf" /\ p >= FirstFree => m2[p].kind = "leaf"
    PROVE  LeavesIn(s, m2, n2)
<1>1. \A p \in s : p < n => p < n2
  BY DEF Pages
<1> QED BY <1>1 DEF LeavesIn

(* Writing pages that neither were nor become pages of postings.           *)
LEMMA OneUseSame ==
    ASSUME NEW m, NEW n, OneUse(m, n), NEW m2, NEW n2, n \in Nat, n2 \in Nat, n <= n2,
           Root \in Pages, m2[Root].kind = "tree", m2[Root].head = m[Root].head,
           \A p \in Pages : (m2[p].kind = "posting") <=> (m[p].kind = "posting"),
           \A p \in Posts(m) : m2[p].next = m[p].next
    PROVE  OneUse(m2, n2)
<1>1. Posts(m2) = Posts(m)
  BY DEF Posts
<1>2. \A p \in Posts(m) : p < n => p < n2
  BY DEF Posts, Pages
<1> QED BY <1>1, <1>2 DEF OneUse

(* A new page of postings in front of the chain of a term. *)
LEMMA OneUseGrows ==
    ASSUME NEW m, NEW n, OneUse(m, n), n \in Pages, n >= FirstFree,
           NEW t \in AllTerms, DOMAIN m[Root].head = AllTerms, NEW m2, Root \in Pages,
           m2[Root].kind = "tree", m2[Root].head = [m[Root].head EXCEPT ![t] = n],
           m2[n].kind = "posting", m2[n].next = m[Root].head[t],
           \A p \in Pages \ {Root, n} : m2[p] = m[p]
    PROVE  OneUse(m2, n + 1)
<1> DEFINE h == m[Root].head
           h2 == m2[Root].head
<1>0. n \in Nat /\ n # Root /\ NoPage \notin Pages /\ FirstFree = 3 /\ Root = 0
  BY DEF Pages, NoPage, FirstFree, Root
<1>1. Posts(m2) = Posts(m) \cup {n} /\ n \notin Posts(m) /\ Root \notin Posts(m)
      /\ Posts(m) \subseteq Pages
  BY <1>0 DEF Posts, OneUse, Pages
<1>2. \A p \in Posts(m) : m2[p] = m[p]
  BY <1>1
<1>3. /\ \A p \in Posts(m) : p >= FirstFree /\ p < n /\ p \in Nat
      /\ \A p \in Posts(m) : m[p].next # NoPage => m[p].next \in Posts(m) /\ m[p].next < p
      /\ \A p, q \in Posts(m) : m[p].next # NoPage /\ m[p].next = m[q].next => p = q
      /\ \A u \in AllTerms : h[u] # NoPage => h[u] \in Posts(m)
      /\ \A s, u \in AllTerms : h[s] # NoPage /\ h[s] = h[u] => s = u
      /\ \A u \in AllTerms : \A p \in Posts(m) : m[p].next # NoPage => m[p].next # h[u]
  BY <1>1 DEF OneUse, Pages
<1>4. h2[t] = n /\ \A u \in AllTerms \ {t} : h2[u] = h[u]
  OBVIOUS
<1>5. m2[n].next = h[t]
  OBVIOUS
<1> HIDE DEF h, h2
<1>6. \A p \in Posts(m2) : p >= FirstFree /\ p < n + 1
  BY <1>0, <1>1, <1>3
<1>7. \A p \in Posts(m2) : m2[p].next # NoPage => m2[p].next \in Posts(m2) /\ m2[p].next < p
  BY <1>1, <1>2, <1>3, <1>5
<1>8. \A p, q \in Posts(m2) : m2[p].next # NoPage /\ m2[p].next = m2[q].next => p = q
  BY <1>1, <1>2, <1>3, <1>5
<1>9. \A u \in AllTerms : h2[u] # NoPage => h2[u] \in Posts(m2)
  BY <1>1, <1>3, <1>4
<1>10. \A s, u \in AllTerms : h2[s] # NoPage /\ h2[s] = h2[u] => s = u
  BY <1>1, <1>3, <1>4
<1>11. \A u \in AllTerms : \A p \in Posts(m2) : m2[p].next # NoPage => m2[p].next # h2[u]
  BY <1>1, <1>2, <1>3, <1>4, <1>5
<1> QED BY <1>6, <1>7, <1>8, <1>9, <1>10, <1>11 DEF OneUse, h2

(* UInv holds at first. *)
LEMMA UInit == Init => UInv
BY DEF Init, UInv, SavedCounters

(* Without a kill and with .meta saved every step keeps UInv: a page is    *)
(* put in front of a chain, or becomes a leaf, right after its allocation. *)
LEMMA UStep ==
    ASSUME ~Crashes, ~MetaFails, BInv, SplitInv, TInv, SplitRoom, UInv, [Next]_vars
    PROVE  UInv'
<1>0. /\ shard.next_page_id \in Nat /\ shard.next_page_id >= 3 /\ Root \in Pages /\ Root = 0
      /\ Tombstone = 1 /\ FirstData = 2 /\ FirstFree = 3 /\ DOMAIN mem = Pages
      /\ MaxPages \in Nat /\ PagesTyped(mem) /\ PagesOk(mem)
      /\ shard \in [next_page_id : Nat, active_data_page_id : Nat,
                    next_doc_id : Nat, total_docs : Nat]
      /\ meta \in [next_page_id : Nat, next_doc_id : Nat, total_docs : Nat]
      /\ meta # NoMeta => meta.next_page_id >= FirstFree
      /\ leaves \subseteq Pages
  BY Numbers DEF Root, Tombstone, FirstData, Pages, BInv, TInv, PagesOk, CountersOk, SplitRoom
<1>1. ASSUME phase' \notin {"closed", "described"},
             OneUse(mem', shard'.next_page_id), LeavesIn(leaves', mem', shard'.next_page_id)
      PROVE  UInv'
  BY <1>1 DEF UInv
<1>a. ASSUME phase # "closed", leaves' = leaves, NEW m2, NEW n2 \in Nat, shard.next_page_id <= n2,
             \A p \in Pages : mem[p].kind = "leaf" /\ p >= FirstFree => m2[p].kind = "leaf"
      PROVE  LeavesIn(leaves', m2, n2)
  <2>1. LeavesIn(leaves, mem, shard.next_page_id)
    BY <1>a DEF UInv
  <2> QED BY <1>0, <1>a, <2>1, LeavesStay
<1>2. CASE Open
  <2>1. /\ phase' = "open" /\ mem' = OpenedPages /\ phase = "closed"
        /\ shard'.next_page_id = Counters.next_page_id /\ leaves' = leaves
    BY <1>2 DEF Open, splits
  <2>2. /\ OpenedPages[Root].kind = "tree"
        /\ \A p \in Pages \ {Root} : \/ OpenedPages[p] = disk[p]
                                     \/ /\ p < FirstFree
                                        /\ OpenedPages[p].kind # "posting"
    <3>1. file_pages > 0 \/ file_pages = 0
      BY Numbers
    <3>2. TombstonePage({}).kind # "posting" /\ DataPage(<<>>).kind # "posting"
      BY DEF TombstonePage, DataPage, SlottedPage
    <3> QED BY <1>0, <3>1, <3>2, OpenedPagesOk
  <2>3. CASE meta = NoMeta
    <3>1. leaves = {} /\ \A p \in Pages : disk[p] = ZeroPage
      BY <2>1, <2>3 DEF UInv
    <3>2. OpenedPages[Root] = TreePage([t \in AllTerms |-> NoPage])
      BY <1>0, <2>2, <3>1, OpenedPagesOk DEF ZeroPage
    <3>3. Posts(OpenedPages) = {}
      <4>1. \A p \in Pages : disk[p].kind # "posting"
        BY <3>1, Kinds
      <4>2. \A p \in Pages : OpenedPages[p].kind # "posting"
        BY <2>2, <4>1
      <4> QED BY <4>2 DEF Posts
    <3>4. \A t \in AllTerms : OpenedPages[Root].head[t] = NoPage
      BY <3>2 DEF TreePage
    <3>5. OneUse(OpenedPages, Counters.next_page_id)
      BY <2>2, <3>3, <3>4 DEF OneUse
    <3>6. LeavesIn(leaves', mem', shard'.next_page_id)
      BY <2>1, <3>1 DEF LeavesIn
    <3> QED BY <1>1, <2>1, <3>5, <3>6
  <2>4. CASE meta # NoMeta
    <3>1. OneUse(disk, meta.next_page_id) /\ Counters.next_page_id = meta.next_page_id
      BY <2>1, <2>4 DEF UInv, Counters
    <3>2. disk[Root].kind = "tree" /\ OpenedPages[Root] = disk[Root]
      BY <3>1, OpenedPagesOk DEF OneUse
    <3>3. \A p \in Pages : /\ (OpenedPages[p].kind = "posting") <=> (disk[p].kind = "posting")
                           /\ p \in Posts(disk) => OpenedPages[p] = disk[p]
      <4> TAKE p \in Pages
      <4>1. disk[p].kind = "posting" => p >= FirstFree
        BY <3>1 DEF OneUse, Posts
      <4>2. CASE p = Root
        BY <3>2, <4>2
      <4>3. CASE p # Root
        <5>1. p \in Nat
          BY DEF Pages
        <5> QED BY <1>0, <2>2, <4>1, <4>3, <5>1 DEF Posts
      <4> QED BY <4>2, <4>3
    <3>4. meta.next_page_id \in Nat
      BY <1>0
    <3>5. \A p \in Posts(disk) : OpenedPages[p].next = disk[p].next
      BY <3>3 DEF Posts
    <3>6. PICK m, n : m = OpenedPages /\ n = meta.next_page_id
      OBVIOUS
    <3>7. n <= n
      BY <3>4, <3>6
    <3>8. OneUse(m, n)
      BY <1>0, <3>1, <3>2, <3>3, <3>4, <3>5, <3>6, <3>7, OneUseSame
    <3>9. LeavesIn(leaves, m, n)
      <4>1. \A p \in Pages : disk[p].kind = "leaf" /\ p >= FirstFree => m[p].kind = "leaf"
        <5> SUFFICES ASSUME NEW p \in Pages, disk[p].kind = "leaf", p >= FirstFree
                     PROVE  m[p] = disk[p]
          OBVIOUS
        <5>1. p \in Nat /\ p # Root
          BY <1>0 DEF Pages
        <5> QED BY <1>0, <2>2, <3>6, <5>1
      <4>2. LeavesIn(leaves, disk, n)
        BY <2>1, <2>4, <3>6 DEF UInv
      <4> QED BY <1>0, <3>4, <3>6, <3>7, <4>1, <4>2, LeavesStay
    <3> QED BY <1>1, <2>1, <3>1, <3>6, <3>8, <3>9
  <2> QED BY <2>3, <2>4
<1>3. ASSUME NEW text \in Texts, InsertRecord(text) PROVE UInv'
  <2> DEFINE rec == [node |-> Len(given) + 1, doc |-> shard.next_doc_id]
             new == Placed(rec)
             next == shard.next_page_id
  <2>1. /\ mem' = new.pages /\ shard'.next_page_id = new.next
        /\ phase = "open" /\ phase' = "inserting" /\ leaves' = leaves
    BY <1>3 DEF InsertRecord, splits
  <2>2. rec \in Records /\ next < MaxPages /\ OneUse(mem, next)
    <3>1. OneUse(mem, next)
      BY <2>1 DEF UInv
    <3>2. Len(text) \in Nat
      BY ShardTermsAssumption
    <3>3. next + Len(text) + 2 <= MaxPages
      BY <1>3 DEF InsertRecord
    <3>4. next \in Nat /\ MaxPages \in Nat /\ Len(given) \in Nat /\ shard.next_doc_id \in Nat
      BY <1>0, Bounds
    <3>5. next < MaxPages
      BY <3>2, <3>3, <3>4
    <3>6. rec \in Records
      BY <3>4 DEF Records
    <3> QED BY <3>1, <3>5, <3>6
  <2>3. PICK q : /\ new.pages = [mem EXCEPT ![new.at] = q] /\ new.at \in Pages /\ Slotted(q)
                 /\ \/ /\ new.at = shard.active_data_page_id /\ new.next = next
                       /\ Slotted(mem[new.at]) \/ mem[new.at] = ZeroPage
                    \/ new.at = next /\ new.next = next + 1
    <3> HIDE DEF rec
    <3> QED BY <1>0, <2>2, PlacedCases
  <2>4. PICK at, n : at = new.at /\ n = new.next
    OBVIOUS
  <2> HIDE DEF new, rec
  <2>5. /\ at \in Pages /\ at # Root /\ mem[at].kind # "posting" /\ q.kind # "posting"
        /\ n \in Nat /\ next <= n /\ (mem[at].kind # "leaf" \/ at = next)
    <3>1. at = shard.active_data_page_id \/ at = next
      BY <2>3, <2>4
    <3>2. shard.active_data_page_id >= 2 /\ shard.active_data_page_id \in Nat
      BY DEF BInv, CountersOk, FirstData
    <3>3. at # Root
      BY <1>0, <3>1, <3>2
    <3>4. mem[next].kind # "posting"
      <4>1. next \in Posts(mem) => next < next
        BY <2>2 DEF OneUse
      <4> QED BY <1>0, <2>2, <4>1 DEF Posts, Pages
    <3>5. mem[at].kind # "posting"
      BY <2>3, <2>4, <3>4 DEF Slotted, ZeroPage
    <3>6. mem[at].kind # "leaf" \/ at = next
      BY <2>3, <2>4 DEF Slotted, ZeroPage
    <3> QED BY <1>0, <2>3, <2>4, <3>3, <3>5, <3>6 DEF Slotted
  <2>6. \A p \in Pages : mem'[p] = IF p = at THEN q ELSE mem[p]
    BY <1>0, <2>1, <2>3, <2>4
  <2>7. PICK m : m = mem'
    OBVIOUS
  <2>8. m[Root].kind = "tree" /\ m[Root].head = mem[Root].head
    BY <1>0, <2>2, <2>5, <2>6, <2>7 DEF OneUse
  <2>9. /\ \A p \in Pages : (m[p].kind = "posting") <=> (mem[p].kind = "posting")
        /\ \A p \in Posts(mem) : m[p].next = mem[p].next
    BY <2>5, <2>6, <2>7 DEF Posts
  <2>10. OneUse(m, n)
    BY <1>0, <2>2, <2>5, <2>8, <2>9, OneUseSame
  <2>11. LeavesIn(leaves, m, n)
    <3>1. LeavesIn(leaves, mem, next)
      BY <2>1 DEF UInv
    <3>2. \A p \in leaves : p # at /\ p \in Pages /\ p < n
      BY <1>0, <2>5, <3>1 DEF LeavesIn, Pages
    <3> QED BY <2>6, <2>7, <3>1, <3>2 DEF LeavesIn
  <2> QED BY <1>1, <2>1, <2>4, <2>7, <2>10, <2>11
<1>4. CASE InsertRefused
  <2>1. mem' = mem /\ phase = "open" /\ phase' = "open"
        /\ shard'.next_page_id = shard.next_page_id + 1 /\ leaves' = leaves
    BY <1>0, <1>4 DEF InsertRefused, splits
  <2>2. OneUse(mem, shard.next_page_id)
    BY <2>1 DEF UInv
  <2>3. PICK n \in Nat : n = shard.next_page_id + 1
    BY <1>0
  <2>4. shard.next_page_id <= n
    BY <1>0, <2>3
  <2>5. OneUse(mem, n)
    BY <1>0, <2>2, <2>4, OneUseSame DEF OneUse
  <2>6. LeavesIn(leaves', mem, n)
    BY <1>a, <2>1, <2>4
  <2> QED BY <1>1, <2>1, <2>3, <2>5, <2>6
<1>5. CASE InsertPosting
  <2> DEFINE next == shard.next_page_id
             h == mem[Root].head
  <2>1. /\ phase = "inserting" /\ phase' \in {"inserting", "open"}
        /\ OneUse(mem, next) /\ leaves' = leaves
    BY <1>5 DEF InsertPosting, UInv
  <2>2. /\ next < MaxPages /\ next \in Pages
    <3>1. /\ Len(Last(given).text) \in Nat /\ insert.added <= Len(Last(given).text)
          /\ next + Len(Last(given).text) + 1 - insert.added <= MaxPages
      BY <2>1, NextTerm DEF TInv, RoomInv
    <3>2. PICK len \in Nat : len = Len(Last(given).text)
      BY <3>1
    <3>3. insert.added <= len /\ next + len + 1 - insert.added <= MaxPages
      BY <3>1, <3>2
    <3> HIDE DEF next
    <3>4. next < MaxPages
      <4>1. next \in Nat /\ insert.added \in Nat /\ MaxPages \in Nat
        BY Numbers DEF next
      <4> QED BY <3>2, <3>3, <4>1
    <3> QED BY <1>0, <3>4 DEF Pages, next
  <2>3. DOMAIN h = AllTerms
    <3>1. mem[Root].kind = "tree"
      BY <2>1 DEF OneUse
    <3> QED BY <1>0, <3>1 DEF PagesOk
  <2>4. CASE PostingLost
    <3>1. mem' = mem /\ shard'.next_page_id = next + 1
      BY <1>0, <2>4 DEF PostingLost
    <3>2. PICK n \in Nat : n = next + 1
      BY <1>0
    <3>3. next <= n
      BY <1>0, <3>2
    <3>4. OneUse(mem, n)
      BY <1>0, <2>1, <3>3, OneUseSame DEF OneUse
    <3>5. LeavesIn(leaves', mem, n)
      BY <1>a, <2>1, <3>3
    <3> QED BY <1>1, <2>1, <3>1, <3>2, <3>4, <3>5
  <2>5. ASSUME NEW t \in AllTerms, NEW pos \in Nat, NEW q,
               PostingChanges(t, Last(given).doc, pos, q)
        PROVE  UInv'
    <3>1. TermHead(t) \in Posts(mem) /\ TermHead(t) # Root
      BY <1>0, <2>1, <2>5 DEF PostingChanges, TermHead, OneUse
    <3>2. AsPostings(mem[TermHead(t)]) = mem[TermHead(t)]
      BY <3>1 DEF Posts, AsPostings
    <3>3. q.kind = "posting" /\ q.next = mem[TermHead(t)].next
      BY <2>5, <3>2 DEF PostingChanges, PageAfter, PostingPage
    <3>4. PICK m : m = mem'
      OBVIOUS
    <3>5. \A p \in Pages : m[p] = IF p = Root THEN TreePage(h)
                                  ELSE IF p = TermHead(t) THEN q ELSE mem[p]
      BY <2>5, <3>4 DEF PostingChanges
    <3>6. m[Root].kind = "tree" /\ m[Root].head = h
      BY <1>0, <3>5 DEF TreePage
    <3>7. /\ \A p \in Pages : (m[p].kind = "posting") <=> (mem[p].kind = "posting")
          /\ \A p \in Posts(mem) : m[p].next = mem[p].next
      BY <1>0, <2>1, <3>1, <3>3, <3>5, <3>6 DEF Posts, OneUse
    <3>8. next <= next
      BY <1>0
    <3>9. OneUse(m, next)
      BY <1>0, <2>1, <3>6, <3>7, <3>8, OneUseSame
    <3>10. \A p \in Pages : mem[p].kind = "leaf" /\ p >= FirstFree => m[p].kind = "leaf"
      BY <1>0, <3>1, <3>5 DEF Posts
    <3>11. LeavesIn(leaves', m, next)
      BY <1>0, <1>a, <2>1, <3>8, <3>10
    <3> QED BY <1>1, <2>1, <2>5, <3>4, <3>9, <3>11 DEF PostingChanges
  <2>6. ASSUME NEW t \in AllTerms, NEW pos \in Nat, NEW q,
               PostingLinks(t, Last(given).doc, pos, q)
        PROVE  UInv'
    <3>1. q.kind = "posting" /\ q.next = h[t]
      BY <2>6 DEF PostingLinks, PostingPage, TermHead
    <3>2. PICK m : m = mem'
      OBVIOUS
    <3>3. \A p \in Pages : m[p] = IF p = Root THEN TreePage(NewHeads(t))
                                  ELSE IF p = next THEN q ELSE mem[p]
      BY <2>6, <3>2 DEF PostingLinks
    <3>4. m[Root].kind = "tree" /\ m[Root].head = [h EXCEPT ![t] = next]
      BY <1>0, <3>3 DEF TreePage, NewHeads
    <3>5. m[next] = q /\ \A p \in Pages \ {Root, next} : m[p] = mem[p]
      BY <1>0, <2>2, <3>3
    <3>6. OneUse(m, next + 1)
      BY <1>0, <2>1, <2>2, <2>3, <3>1, <3>4, <3>5, OneUseGrows
    <3>7. shard'.next_page_id = next + 1
      BY <1>0, <2>6 DEF PostingLinks
    <3>8. LeavesIn(leaves, mem, next)
      BY <2>1 DEF UInv
    <3>9. LeavesIn(leaves, m, next + 1)
      <4>1. \A p \in leaves : p \in Pages \ {Root, next} /\ p < next + 1
        BY <1>0, <3>8 DEF LeavesIn, Pages
      <4> QED BY <3>5, <3>8, <4>1 DEF LeavesIn
    <3> QED BY <1>1, <2>1, <3>2, <3>6, <3>7, <3>9
  <2> QED BY <1>5, <2>4, <2>5, <2>6, PostingCases
<1>6. ASSUME NEW node \in 1..MaxDocs, Delete(node) PROVE UInv'
  <2>1. PICK q : /\ q.kind = "tombstone" /\ mem' = [mem EXCEPT ![Tombstone] = q]
    BY <1>6 DEF Delete, TombstonePage
  <2>2. shard' = shard /\ phase = "open" /\ phase' = "open" /\ leaves' = leaves
    BY <1>6 DEF Delete, splits
  <2>3. OneUse(mem, shard.next_page_id)
    BY <2>2 DEF UInv
  <2>4. PICK m : m = mem'
    OBVIOUS
  <2>5. \A p \in Pages : m[p] = IF p = Tombstone THEN q ELSE mem[p]
    BY <1>0, <2>1, <2>4
  <2>6. mem[Tombstone].kind # "posting"
    <3>1. Tombstone \in Posts(mem) => Tombstone >= FirstFree
      BY <2>3 DEF OneUse
    <3>2. Tombstone \in Pages
      BY ShardBoundsAssumption DEF Tombstone, Pages, FirstFree
    <3> QED BY <1>0, <3>1, <3>2 DEF Posts
  <2>7. /\ m[Root].kind = "tree" /\ m[Root].head = mem[Root].head
        /\ \A p \in Pages : (m[p].kind = "posting") <=> (mem[p].kind = "posting")
        /\ \A p \in Posts(mem) : m[p].next = mem[p].next
    BY <1>0, <2>1, <2>3, <2>5, <2>6 DEF OneUse, Posts
  <2>8. PICK n \in Nat : n = shard.next_page_id /\ n <= n
    BY <1>0
  <2>9. OneUse(m, n)
    BY <1>0, <2>3, <2>7, <2>8, OneUseSame
  <2>10. \A p \in Pages : mem[p].kind = "leaf" /\ p >= FirstFree => m[p].kind = "leaf"
    BY <1>0, <2>5
  <2>11. LeavesIn(leaves', m, n)
    BY <1>a, <2>2, <2>8, <2>10
  <2> QED BY <1>1, <2>2, <2>4, <2>8, <2>9, <2>11
<1>7. ASSUME NEW p \in Pages, Save(p) PROVE UInv'
  BY <1>7 DEF Save, UInv, SavedCounters, splits
<1>8. CASE CloseTruncates
  BY <1>1, <1>8 DEF CloseTruncates, UInv, splits
<1>9. CASE CloseDescribes
  BY <1>9 DEF CloseDescribes, UInv, SavedCounters, splits
<1>10. CASE CloseFlushes
  <2>1. /\ disk' = mem /\ meta' = meta /\ phase' = "closed" /\ meta = SavedCounters
        /\ OneUse(mem, shard.next_page_id) /\ LeavesIn(leaves, mem, shard.next_page_id)
        /\ leaves' = leaves /\ phase = "described"
    BY <1>10 DEF CloseFlushes, UInv, splits
  <2>2. meta.next_page_id = shard.next_page_id /\ meta # NoMeta
    BY <1>0, <2>1 DEF SavedCounters, NoMeta
  <2>3. /\ OneUse(disk', meta'.next_page_id) /\ meta' # NoMeta
        /\ LeavesIn(leaves', disk', meta'.next_page_id)
    BY <2>1, <2>2 DEF NoMeta
  <2>4. file_pages' > 0
    <3>1. file_pages > 0 /\ file_pages \in Nat /\ file_pages' \in Nat /\ file_pages' >= file_pages
      BY <1>10, <2>1, FileGrows, Numbers DEF BInv, CallOk
    <3> QED BY <3>1
  <2> QED BY <2>1, <2>3, <2>4 DEF UInv, NoMeta
<1>11. CASE UNCHANGED vars
  BY <1>11 DEF vars, splits, UInv, SavedCounters
<1>12. ~Crash /\ ~CloseFailsToDescribe
  BY DEF Crash, CloseFailsToDescribe
<1>13. CASE OpenStops
  <2>1. /\ phase = "closed" /\ phase' = "closed" /\ file_pages = 0 /\ WriteFails
        /\ disk' = disk /\ meta' = meta /\ leaves' = leaves
    BY <1>13 DEF OpenStops, splits
  <2>2. meta = NoMeta
    BY <2>1 DEF UInv
  <2> QED BY <2>1, <2>2 DEF UInv
<1>14. CASE SplitLeaf
  <2>1. /\ phase' = phase /\ phase \in {"open", "inserting"} /\ leaves' = leaves \cup {shard.next_page_id}
        /\ shard.next_page_id < MaxPages
    BY <1>14 DEF SplitLeaf, SplitInv, SplitRoom
  <2>2. PICK n \in Nat : n = shard.next_page_id
    BY <1>0
  <2>3. OneUse(mem, n) /\ LeavesIn(leaves, mem, n)
    BY <2>1, <2>2 DEF UInv
  <2>4. n \in Pages /\ n # Root /\ n <= n + 1 /\ n + 1 \in Nat /\ n < n + 1
    BY <1>0, <2>1, <2>2 DEF Pages
  <2>5. PICK m : m = mem'
    OBVIOUS
  <2>6. \A p \in Pages : m[p] = IF p = n THEN LeafPage ELSE mem[p]
    BY <1>14, <2>2, <2>5, SplitEffect
  <2>7. shard'.next_page_id = n + 1
    BY <1>14, <2>2, SplitEffect
  <2>8. mem[n].kind # "posting"
    <3>1. n \in Posts(mem) => n < n
      BY <2>3 DEF OneUse
    <3> QED BY <2>2, <2>4, <3>1 DEF Posts
  <2>9. /\ m[Root].kind = "tree" /\ m[Root].head = mem[Root].head
        /\ \A p \in Pages : (m[p].kind = "posting") <=> (mem[p].kind = "posting")
        /\ \A p \in Posts(mem) : m[p].next = mem[p].next
    BY <1>0, <2>3, <2>4, <2>6, <2>8, Kinds DEF OneUse, Posts
  <2>10. OneUse(m, n + 1)
    BY <1>0, <2>3, <2>4, <2>9, OneUseSame
  <2>11. LeavesIn(leaves', m, n + 1)
    <3> SUFFICES ASSUME NEW p \in leaves'
                 PROVE  m[p].kind = "leaf" /\ p >= FirstFree /\ p < n + 1
      BY DEF LeavesIn
    <3>1. CASE p = n
      BY <1>0, <2>2, <2>4, <2>6, <3>1, Kinds
    <3>2. CASE p # n
      <4>1. p \in leaves /\ p \in Pages /\ mem[p].kind = "leaf" /\ p >= FirstFree /\ p < n
        BY <1>0, <2>1, <2>2, <2>3, <3>2 DEF LeavesIn
      <4> QED BY <2>4, <2>6, <3>2, <4>1 DEF Pages
    <3> QED BY <3>1, <3>2
  <2> QED BY <1>1, <2>1, <2>5, <2>7, <2>10, <2>11
<1> QED BY <1>2, <1>3, <1>4, <1>5, <1>6, <1>7, <1>8, <1>9, <1>10, <1>11, <1>12, <1>13, <1>14
        DEF Next, Step

(* UInv is an invariant as long as the process is not killed and the .meta *)
(* file is saved at every closing.                                         *)
LEMMA UInvariant == ASSUME ~Crashes, ~MetaFails PROVE Spec => []UInv
<1>1. BInv /\ SplitInv /\ TInv /\ SplitRoom /\ UInv /\ [Next]_vars => UInv'
  BY UStep
<1> QED BY <1>1, UInit, BInvariant, SplitsInCalls, TInvariant, PTL DEF Spec

(* The pages of a chain are pages of postings, and each is the head of the *)
(* chain or the one another page of it is linked to.                       *)
LEMMA ChainPages ==
    ASSUME BInv, OneUse(mem, shard.next_page_id), NEW t \in AllTerms
    PROVE  /\ Chain(t) \subseteq Posts(mem)
           /\ \A p \in Chain(t) : \/ p = mem[Root].head[t]
                                  \/ \E b \in Chain(t) : mem[b].next = p
<1> DEFINE N == MaxPages
           first == {Index.head[t]} \ {NoPage}
           after(s) == s \cup ({AsPostings(mem[p]).next : p \in s} \ {NoPage})
           step == [s \in SUBSET Posts(mem) |-> after(s)]
           IsOn(g) == g = [n \in 0..N |-> IF n = 0 THEN first
                                          ELSE LET so_far == g[n-1]
                                               IN  so_far \cup ({AsPostings(mem[p]).next : p \in so_far} \ {NoPage})]
           on == CHOOSE g : IsOn(g)
<1>0. N \in Nat /\ Index.head = mem[Root].head
  BY ShardBoundsAssumption DEF OneUse, Index
<1>1. Chain(t) = on[N]
  BY DEF Chain
<1>2. first \in SUBSET Posts(mem) /\ \A p \in first : p = mem[Root].head[t]
  BY <1>0 DEF OneUse
<1>3. \A s \in SUBSET Posts(mem) :
         /\ after(s) \in SUBSET Posts(mem) /\ s \subseteq after(s)
         /\ \A p \in after(s) : p \in s \/ \E b \in s : mem[b].next = p
  <2> TAKE s \in SUBSET Posts(mem)
  <2>1. \A p \in s : AsPostings(mem[p]).next = mem[p].next
    BY DEF AsPostings, Posts
  <2> QED BY <2>1 DEF OneUse
<1> HIDE DEF first
<1>4. PICK f : Repeats(N, first, step, f)
  <2> HIDE DEF step, N
  <2> QED BY <1>0, RepeatExists
<1>5. \A n \in 0..N : f[n] \in SUBSET Posts(mem)
  <2> DEFINE S == SUBSET Posts(mem)
  <2>1. \A s \in S : step[s] \in S
    BY <1>3
  <2>2. first \in S
    BY <1>2
  <2> HIDE DEF S, step, N
  <2>3. \A n \in 0..N : f[n] \in S
    BY <1>0, <1>4, <2>1, <2>2, RepeatTyped
  <2> QED BY <2>3 DEF S
<1>6. IsOn(f)
  <2>1. \A n \in 1..N : step[f[n-1]] = after(f[n-1])
    <3> TAKE n \in 1..N
    <3>1. n - 1 \in 0..N
      <4> HIDE DEF N
      <4> QED BY <1>0
    <3> QED BY <1>5, <3>1
  <2>2. f = [n \in 0..N |-> IF n = 0 THEN first ELSE step[f[n-1]]]
    BY <1>4 DEF Repeats
  <2> HIDE DEF step
  <2>3. [n \in 0..N |-> IF n = 0 THEN first ELSE step[f[n-1]]]
        = [n \in 0..N |-> IF n = 0 THEN first ELSE after(f[n-1])]
    <3> HIDE DEF after
    <3>1. \A n \in 0..N : (IF n = 0 THEN first ELSE step[f[n-1]])
                          = (IF n = 0 THEN first ELSE after(f[n-1]))
      BY <2>1
    <3> QED BY <3>1, Zenon
  <2> QED BY <2>2, <2>3
<1>7. IsOn(on)
  <2> HIDE DEF IsOn
  <2> QED BY <1>6
<1>8. \A n \in 0..N : on[n] = IF n = 0 THEN first ELSE after(on[n-1])
  <2> HIDE DEF on
  <2> QED BY <1>7
<1> HIDE DEF on, after
<1> DEFINE Linked(s) == \A p \in s : p = mem[Root].head[t] \/ \E b \in s : mem[b].next = p
           G == {n \in 0..N : on[n] \in SUBSET Posts(mem) /\ Linked(on[n])}
<1>9. 0 \in G
  BY <1>0, <1>2, <1>8
<1>10. ASSUME NEW n \in 1..N, n - 1 \in G PROVE n \in G
  <2>1. on[n - 1] \in SUBSET Posts(mem) /\ Linked(on[n - 1])
    BY <1>10
  <2>2. on[n] = after(on[n - 1]) /\ n \in 0..N
    BY <1>8
  <2>3. PICK s \in SUBSET Posts(mem) : s = on[n - 1]
    BY <2>1
  <2>4. after(s) \in SUBSET Posts(mem) /\ Linked(after(s))
    BY <1>3, <2>1, <2>3
  <2> QED BY <2>2, <2>3, <2>4
<1> HIDE DEF G
<1>11. \A n \in 0..N : n \in G
  <2> HIDE DEF N
  <2> QED BY <1>0, <1>9, <1>10, FromTheStart
<1>12. N \in G
  BY <1>0, <1>11
<1> QED BY <1>1, <1>12 DEF G

(* The chains of two terms have no page in common: from the last common    *)
(* one the pages linked to it would be common too.                         *)
LEMMA ChainsApart ==
    ASSUME BInv, OneUse(mem, shard.next_page_id),
           NEW s \in AllTerms, NEW t \in AllTerms, s # t
    PROVE  Chain(s) \cap Chain(t) = {}
<1> DEFINE C == Chain(s) \cap Chain(t)
<1>1. /\ Chain(s) \subseteq Posts(mem) /\ Chain(t) \subseteq Posts(mem)
      /\ \A p \in Chain(s) : p = mem[Root].head[s] \/ \E b \in Chain(s) : mem[b].next = p
      /\ \A p \in Chain(t) : p = mem[Root].head[t] \/ \E b \in Chain(t) : mem[b].next = p
  BY ChainPages
<1>2. ASSUME C # {} PROVE FALSE
  <2>1. C \in SUBSET Nat /\ MaxPages \in Nat /\ \A p \in C : p <= MaxPages
    BY <1>1, ShardBoundsAssumption DEF Posts, Pages
  <2>2. PICK p \in C : \A b \in C : b <= p
    <3> HIDE DEF C
    <3> QED BY <1>2, <2>1, GreatestOne
  <2>3. p \in Posts(mem) /\ p # NoPage
    BY <1>1 DEF Posts, Pages, NoPage
  <2>4. CASE \E b \in Chain(s) : mem[b].next = p
    <3>1. PICK b \in Chain(s) : mem[b].next = p
      BY <2>4
    <3>2. b \in Posts(mem) /\ p < b
      BY <1>1, <2>3, <3>1 DEF OneUse
    <3>3. b \notin Chain(t)
      <4>1. b \in C => b <= p
        BY <2>2
      <4> QED BY <2>1, <2>2, <3>1, <3>2, <4>1 DEF Posts, Pages
    <3>4. p # mem[Root].head[t]
      BY <2>3, <3>1, <3>2 DEF OneUse
    <3>5. PICK c \in Chain(t) : mem[c].next = p
      BY <1>1, <3>4
    <3>6. c = b
      BY <1>1, <2>3, <3>1, <3>2, <3>5 DEF OneUse
    <3> QED BY <3>3, <3>5, <3>6
  <2>5. CASE p = mem[Root].head[s]
    <3>1. p # mem[Root].head[t]
      BY <2>3, <2>5 DEF OneUse
    <3>2. PICK c \in Chain(t) : mem[c].next = p
      BY <1>1, <3>1
    <3> QED BY <1>1, <2>3, <2>5, <3>2 DEF OneUse
  <2> QED BY <1>1, <2>4, <2>5
<1> QED BY <1>2

(* PagesHaveOneUse follows from UInv. *)
LEMMA UInvUses == ASSUME BInv, SplitRoom, UInv PROVE PagesHaveOneUse
<1> SUFFICES ASSUME phase \in {"open", "inserting"} PROVE PagesHaveOneUse
  BY DEF PagesHaveOneUse
<1>1. OneUse(mem, shard.next_page_id) /\ shard.next_page_id \in Nat
  BY DEF UInv, BInv, CountersOk
<1>2. ASSUME NEW t \in AllTerms, NEW p \in Chain(t)
      PROVE  mem[p].kind = "posting" /\ p \in FirstFree..(shard.next_page_id - 1)
  <2>1. p \in Posts(mem)
    BY <1>1, ChainPages
  <2>2. p >= FirstFree /\ p < shard.next_page_id
    BY <1>1, <2>1 DEF OneUse
  <2> QED BY <1>1, <2>1, <2>2 DEF Posts, Pages, FirstFree
<1>3. \A s, t \in AllTerms : s # t => Chain(s) \cap Chain(t) = {}
  BY <1>1, ChainsApart
<1>4. ASSUME NEW p \in leaves
      PROVE  mem[p].kind = "leaf" /\ p \in FirstFree..(shard.next_page_id - 1)
  <2>1. mem[p].kind = "leaf" /\ p >= FirstFree /\ p < shard.next_page_id /\ p \in Pages
    BY DEF UInv, LeavesIn, SplitRoom
  <2> QED BY <1>1, <2>1 DEF Pages, FirstFree
<1> QED BY <1>2, <1>3, <1>4 DEF PagesHaveOneUse

(* As long as the process is not killed and every closing saves the .meta  *)
(* file, no page is allocated twice: every page a search through the index *)
(* walks over is a page of postings below next_page_id, and belongs to the *)
(* chain of one term only, and every page a split of the tree took is one  *)
(* of its leaves still, through every step of an insert, failed extensions *)
(* of the file, pages saved in any order, closing and opening.  The saved  *)
(* .meta file has the next page; after a kill, or a closing whose failure  *)
(* to save it is ignored (unified_shard.c:99), shard_init takes an older   *)
(* one or the length of the file (unified_shard.c:62).                     *)
THEOREM PagesAreUsedOnce ==
    ASSUME ~Crashes, ~MetaFails PROVE Spec => []PagesHaveOneUse
<1>1. BInv /\ SplitRoom /\ UInv => PagesHaveOneUse
  BY UInvUses
<1>2. Spec => []UInv
  BY UInvariant
<1> QED BY <1>1, <1>2, BInvariant, TInvariant, PTL
-----------------------------------------------------------------------------
(* What a search finds, as long as the process is not killed and no write  *)
(* fails.  Document j has doc_id j - 1; its record is on a page of         *)
(* records, all of which are allocated; the posting lists are chains in    *)
(* order; every entry names the record of its document, which has the      *)
(* term, and every posting added has left an entry.                        *)
Names(m, loc, j) ==
    /\ loc.page \in Pages /\ Slotted(m[loc.page])
    /\ loc.slot \in DOMAIN m[loc.page].slots
    /\ m[loc.page].slots[loc.slot] = [node |-> j, doc |-> j - 1]

HasIn(g, j, t) == t = AllDocs \/ t \in ToSet(g[j].text)

RecordsIn(m, n, g) ==
    \A p \in Pages : Slotted(m[p]) =>
       /\ m[p].kind = "data" /\ p < n
       /\ \A i \in DOMAIN m[p].slots :
             \E j \in DOMAIN g : m[p].slots[i] = [node |-> j, doc |-> j - 1]

KindsIn(m, n) == \A p \in FirstData..(n - 1) : m[p].kind \in {"data", "posting", "leaf"}

Chains(m, n, own) ==
    /\ own = [p \in Pages |-> own[p]]
    /\ Chained(m[Root].head, m, n, own) /\ Ascending(m, n)

EntriesIn(m, n, own, g) ==
    \A t \in AllTerms : \A e \in Entries(m, n, own, t) :
       e.doc + 1 \in DOMAIN g /\ Names(m, e.loc, e.doc + 1) /\ HasIn(g, e.doc + 1, t)

(* The terms a document has been added to, of the one whose insert is      *)
(* under way those the loop has come to.                                   *)
AddedIn(g, busy, k, j, t) ==
    IF busy /\ j = Len(g) THEN t \in {g[j].text[i] : i \in 1..k} ELSE HasIn(g, j, t)

AllAdded(m, n, own, g, busy, k) ==
    \A j \in DOMAIN g : \A t \in AllTerms :
       AddedIn(g, busy, k, j, t) => \E e \in Entries(m, n, own, t) : e.doc = j - 1

ListInv(m, n, g, busy, k) ==
    /\ RecordsIn(m, n, g) /\ KindsIn(m, n)
    /\ \E own : /\ Chains(m, n, own) /\ EntriesIn(m, n, own, g)
                /\ AllAdded(m, n, own, g, busy, k)

LInv ==
    /\ \A j \in DOMAIN given : given[j].doc = j - 1
    /\ phase # "closed" =>
          /\ shard.next_doc_id = Len(given)
          /\ ListInv(mem, shard.next_page_id, given, phase = "inserting", insert.added)
    /\ phase = "inserting" => Names(mem, insert.loc, Len(given))
    /\ phase = "closed" =>
          IF meta = NoMeta THEN given = <<>>
          ELSE /\ meta.next_doc_id = Len(given) /\ file_pages > 0
               /\ ListInv(disk, meta.next_page_id, given, FALSE, 0)

(* Pages that keep their postings have the entries they had. *)
LEMMA SamePostings ==
    ASSUME NEW m, NEW n \in Nat, NEW own, NEW m2, NEW n2 \in Nat,
           PostingPages(m2, n2) = PostingPages(m, n),
           \A p \in PostingPages(m, n) : m2[p] = m[p],
           NEW h, Chained(h, m, n, own), Ascending(m, n)
    PROVE  /\ Chained(h, m2, n2, own) /\ Ascending(m2, n2)
           /\ \A t : Entries(m2, n2, own, t) = Entries(m, n, own, t)
<1> DEFINE P == PostingPages(m, n)
<1>1. \A p \in P : m[p].next # NoPage => m[p].next \in P
  BY DEF Chained
<1>2. Chained(h, m2, n2, own)
  <2>1. /\ \A p \in P : m2[p].next # NoPage =>
              m2[p].next \in P /\ m2[p].next < p /\ own[m2[p].next] = own[p]
        /\ \A p \in P : own[p] \in DOMAIN h
        /\ \A p \in P : p = h[own[p]] \/ \E b \in P : m2[b].next = p
        /\ \A t \in DOMAIN h : h[t] # NoPage => h[t] \in P /\ own[h[t]] = t
    BY DEF Chained
  <2> HIDE DEF P
  <2> QED BY <2>1, Zenon DEF Chained, P
<1>3. Ascending(m2, n2)
  <2>1. /\ \A p \in P : Ascends(m2[p].postings)
        /\ \A p \in P : m2[p].next # NoPage =>
              \A i \in DOMAIN m2[m2[p].next].postings, j \in DOMAIN m2[p].postings :
                 m2[m2[p].next].postings[i].doc < m2[p].postings[j].doc
    BY <1>1 DEF Ascending
  <2> HIDE DEF P
  <2> QED BY <2>1, Zenon DEF Ascending, P
<1>4. ASSUME NEW t PROVE Entries(m2, n2, own, t) = Entries(m, n, own, t)
  <2>1. {q \in PostingPages(m2, n2) : own[q] = t} = {q \in P : own[q] = t}
    OBVIOUS
  <2>2. \A p \in {q \in P : own[q] = t} : ToSet(m2[p].postings) = ToSet(m[p].postings)
    OBVIOUS
  <2> HIDE DEF P
  <2> QED BY <2>1, <2>2 DEF Entries, P
<1> QED BY <1>2, <1>3, <1>4

(* A record that stays where it is keeps its name. *)
KeepsRecords(m, m2) ==
    \A p \in Pages : Slotted(m[p]) =>
       /\ Slotted(m2[p]) /\ DOMAIN m[p].slots \subseteq DOMAIN m2[p].slots
       /\ \A i \in DOMAIN m[p].slots : m2[p].slots[i] = m[p].slots[i]

(* A place names the record of its document as long as records stay. *)
LEMMA NamesStay ==
    ASSUME NEW m, NEW m2, KeepsRecords(m, m2), NEW loc, NEW j, Names(m, loc, j)
    PROVE  Names(m2, loc, j)
<1>1. /\ loc.page \in Pages /\ Slotted(m[loc.page]) /\ loc.slot \in DOMAIN m[loc.page].slots
      /\ m[loc.page].slots[loc.slot] = [node |-> j, doc |-> j - 1]
  BY DEF Names
<1>2. /\ Slotted(m2[loc.page]) /\ loc.slot \in DOMAIN m2[loc.page].slots
      /\ m2[loc.page].slots[loc.slot] = m[loc.page].slots[loc.slot]
  BY <1>1 DEF KeepsRecords
<1> QED BY <1>1, <1>2 DEF Names

(* Steps that add no posting, of a document placed last at most. *)
LEMMA ListInvKept ==
    ASSUME NEW m, NEW n \in Nat, NEW g, NEW busy, NEW k, ListInv(m, n, g, busy, k),
           NEW m2, NEW n2 \in Nat, NEW g2, NEW busy2, NEW k2,
           m2[Root].head = m[Root].head,
           PostingPages(m2, n2) = PostingPages(m, n),
           \A p \in PostingPages(m, n) : m2[p] = m[p],
           KeepsRecords(m, m2), RecordsIn(m2, n2, g2), KindsIn(m2, n2),
           \A j \in DOMAIN g : j \in DOMAIN g2 /\ g2[j] = g[j],
           \A j \in DOMAIN g2, t \in AllTerms :
              AddedIn(g2, busy2, k2, j, t) => j \in DOMAIN g /\ AddedIn(g, busy, k, j, t)
    PROVE  ListInv(m2, n2, g2, busy2, k2)
<1>1. PICK own : /\ Chains(m, n, own) /\ EntriesIn(m, n, own, g)
                 /\ AllAdded(m, n, own, g, busy, k)
  BY DEF ListInv
<1>2. /\ Chained(m2[Root].head, m2, n2, own) /\ Ascending(m2, n2)
      /\ \A t : Entries(m2, n2, own, t) = Entries(m, n, own, t)
  BY <1>1, SamePostings DEF Chains
<1>3. Chains(m2, n2, own)
  BY <1>1, <1>2 DEF Chains
<1>4. EntriesIn(m2, n2, own, g2)
  <2> SUFFICES ASSUME NEW t \in AllTerms, NEW e \in Entries(m, n, own, t)
               PROVE  /\ e.doc + 1 \in DOMAIN g2 /\ Names(m2, e.loc, e.doc + 1)
                      /\ HasIn(g2, e.doc + 1, t)
    BY <1>2, Zenon DEF EntriesIn
  <2>1. e.doc + 1 \in DOMAIN g /\ Names(m, e.loc, e.doc + 1) /\ HasIn(g, e.doc + 1, t)
    BY <1>1 DEF EntriesIn
  <2> QED BY <2>1, NamesStay DEF HasIn
<1>5. AllAdded(m2, n2, own, g2, busy2, k2)
  <2> SUFFICES ASSUME NEW j \in DOMAIN g2, NEW t \in AllTerms, AddedIn(g2, busy2, k2, j, t)
               PROVE  \E e \in Entries(m2, n2, own, t) : e.doc = j - 1
    BY DEF AllAdded
  <2>1. j \in DOMAIN g /\ AddedIn(g, busy, k, j, t)
    OBVIOUS
  <2>2. \E e \in Entries(m, n, own, t) : e.doc = j - 1
    BY <1>1, <2>1 DEF AllAdded
  <2> QED BY <1>2, <2>2
<1> QED BY <1>3, <1>4, <1>5 DEF ListInv

(* LInv holds at the start. *)
LEMMA LInit == Init => LInv
<1> SUFFICES ASSUME Init PROVE LInv
  OBVIOUS
<1>1. phase = "closed" /\ meta = NoMeta /\ given = <<>>
  BY DEF Init
<1>2. DOMAIN given = {}
  BY <1>1
<1> QED BY <1>1, <1>2 DEF LInv

(* shard_init goes on with the pages of the file, or with those of an      *)
(* empty shard.                                                            *)
LEMMA OpenKeepsL == ASSUME ~WriteFails, BInv, TInv, UInv, NInv, LInv, Open PROVE LInv'
<1> DEFINE n == Counters.next_page_id
<1>0. /\ phase = "closed" /\ phase' = "open" /\ mem' = OpenedPages /\ given' = given
      /\ insert' = insert
      /\ shard'.next_page_id = n /\ shard'.next_doc_id = Counters.next_doc_id
      /\ Root = 0 /\ Tombstone = 1 /\ FirstData = 2 /\ FirstFree = 3 /\ Root \in Pages
      /\ {0, 1, 2} \subseteq Pages
      /\ \A j \in DOMAIN given : given[j].doc = j - 1
  BY ShardBoundsAssumption DEF Open, Root, Tombstone, FirstData, FirstFree, Pages, LInv
<1>1. CASE meta = NoMeta
  <2>1. given = <<>> /\ file_pages = 0 /\ \A p \in Pages : disk[p] = ZeroPage
    BY <1>0, <1>1 DEF LInv, UInv
  <2>2. n = 3 /\ Counters.next_doc_id = 0
    BY <1>0, <1>1, <2>1 DEF Counters, CountersFromLength
  <2> DEFINE m == OpenedPages
  <2>3. /\ m[Root] = TreePage([t \in AllTerms |-> NoPage])
        /\ m[Tombstone] = TombstonePage({}) /\ m[FirstData] = DataPage(<<>>)
        /\ \A p \in Pages \ {Root, Tombstone, FirstData} : m[p] = ZeroPage
    BY <1>0, <2>1, OpenedPagesOk DEF ZeroPage
  <2> HIDE DEF m, n
  <2>4. PostingPages(m, n) = {}
    BY <1>0, <2>2 DEF PostingPages
  <2>5. RecordsIn(m, n, given)
    <3>1. /\ ~Slotted(m[Root]) /\ ~Slotted(m[Tombstone]) /\ ~Slotted(ZeroPage)
          /\ m[FirstData].kind = "data" /\ m[FirstData].slots = <<>>
      BY <2>3 DEF TreePage, TombstonePage, ZeroPage, DataPage, SlottedPage, Slotted
    <3>2. DOMAIN m[FirstData].slots = {} /\ FirstData < n
      BY <1>0, <2>2, <3>1
    <3>3. \A p \in Pages : Slotted(m[p]) => p = FirstData
      BY <2>3, <3>1
    <3> QED BY <3>1, <3>2, <3>3 DEF RecordsIn
  <2>6. KindsIn(m, n)
    <3>1. \A p \in FirstData..(n - 1) : p = FirstData
      BY <1>0, <2>2
    <3>2. m[FirstData].kind = "data"
      BY <2>3 DEF DataPage, SlottedPage
    <3> QED BY <3>1, <3>2 DEF KindsIn
  <2> DEFINE own == [p \in Pages |-> 0]
  <2>7. Chains(m, n, own) /\ \A t : Entries(m, n, own, t) = {}
    <3>1. \A t \in DOMAIN m[Root].head : m[Root].head[t] = NoPage
      BY <2>3 DEF TreePage
    <3>2. own = [p \in Pages |-> own[p]]
      OBVIOUS
    <3> HIDE DEF own
    <3>3. Chained(m[Root].head, m, n, own) /\ Ascending(m, n)
      BY <2>4, <3>1 DEF Chained, Ascending
    <3> QED BY <2>4, <3>2, <3>3 DEF Chains, Entries
  <2> HIDE DEF own
  <2>8. DOMAIN given = {}
    BY <2>1
  <2>9. EntriesIn(m, n, own, given) /\ AllAdded(m, n, own, given, FALSE, insert.added)
    BY <2>7, <2>8 DEF EntriesIn, AllAdded
  <2>10. ListInv(m, n, given, FALSE, insert.added)
    BY <2>5, <2>6, <2>7, <2>9 DEF ListInv
  <2>11. Len(given) = 0
    BY <2>1
  <2> QED BY <1>0, <2>2, <2>10, <2>11 DEF LInv, m, n
<1>2. CASE meta # NoMeta
  <2>1. /\ meta.next_doc_id = Len(given) /\ file_pages > 0 /\ ListInv(disk, meta.next_page_id, given, FALSE, 0)
        /\ OneUse(disk, meta.next_page_id)
    BY <1>0, <1>2 DEF LInv, UInv
  <2>2. n = meta.next_page_id /\ Counters.next_doc_id = meta.next_doc_id
    BY <1>2 DEF Counters
  <2>3. file_pages > 0 /\ OpenedPages = disk
    <3>1. disk[Root].kind = "tree"
      BY <2>1 DEF OneUse
    <3> QED BY <2>1, <3>1 DEF OpenedPages
  <2>4. ListInv(disk, n, given, FALSE, insert.added)
    <3>1. \A b : AllAdded(disk, n, b, given, FALSE, 0) => AllAdded(disk, n, b, given, FALSE, insert.added)
      BY DEF AllAdded, AddedIn
    <3> QED BY <2>1, <2>2, <3>1 DEF ListInv
  <2> QED BY <1>0, <2>1, <2>2, <2>3, <2>4 DEF LInv
<1> QED BY <1>1, <1>2

(* What the first step of an insert does to the pages: the record goes     *)
(* behind those of the active page, or on a page of its own.               *)
RecordPlaced(at, i, rec) ==
    /\ at \in Pages /\ at >= FirstData /\ insert'.loc = [page |-> at, slot |-> i]
    /\ \E q : /\ \A p \in Pages : mem'[p] = IF p = at THEN q ELSE mem[p]
             /\ q.kind = "data" /\ q.slots[i] = rec
             /\ \/ /\ at < shard.next_page_id /\ shard'.next_page_id = shard.next_page_id
                   /\ mem[at].kind = "data" /\ mem[at].slots \in Seq(Records)
                   /\ i = Len(mem[at].slots) + 1 /\ q.slots = Append(mem[at].slots, rec)
                \/ /\ at = shard.next_page_id /\ shard'.next_page_id = shard.next_page_id + 1
                   /\ i = 1 /\ q.slots = <<rec>>

(* The record of a new document goes to a place of its own. *)
LEMMA RecordGoes ==
    ASSUME BInv, TInv, LInv, NEW text \in Texts, InsertRecord(text)
    PROVE  \E at, i : RecordPlaced(at, i, [node |-> Len(given) + 1, doc |-> Len(given)])
<1> DEFINE rec == [node |-> Len(given) + 1, doc |-> Len(given)]
           new == Placed(rec)
           next == shard.next_page_id
           active == shard.active_data_page_id
<1>0. /\ next \in Nat /\ next >= 3 /\ Root = 0 /\ FirstData = 2 /\ FirstFree = 3
      /\ DOMAIN mem = Pages /\ MaxPages \in Nat /\ PagesTyped(mem)
      /\ active \in FirstData..(next - 1)
      /\ phase = "open" /\ shard.next_doc_id = Len(given) /\ Len(given) \in Nat
      /\ KindsIn(mem, next)
  BY Numbers DEF Root, FirstData, BInv, TInv, PagesOk, CountersOk, InsertRecord, LInv, ListInv
<1>1. next < MaxPages
  BY <1>0, ShardTermsAssumption DEF InsertRecord
<1>2. rec \in Records /\ rec = [node |-> Len(given) + 1, doc |-> shard.next_doc_id]
  BY <1>0 DEF Records
<1>3. /\ mem' = new.pages /\ shard'.next_page_id = new.next
      /\ insert'.loc = [page |-> new.at, slot |-> new.slot]
  BY <1>2 DEF InsertRecord
<1>4. active \in Pages /\ mem[active].kind \in {"data", "posting", "leaf"} /\ Fetched(active) = mem[active]
  <2>1. active \in Pages
    BY <1>0, <1>1 DEF Pages
  <2>2. mem[active].kind \in {"data", "posting", "leaf"}
    BY <1>0 DEF KindsIn
  <2>3. mem[active] # ZeroPage
    BY <2>2 DEF ZeroPage
  <2> QED BY <2>1, <2>2, <2>3 DEF Fetched
<1> HIDE DEF rec
<1>5. PICK q : /\ new.pages = [mem EXCEPT ![new.at] = q]
               /\ new.slot = Len(q.slots) /\ new.at \in Pages
               /\ q.slots \in Seq(Records) /\ Len(q.slots) \in 1..SlotsPerPage
               /\ q.slots[Len(q.slots)] = rec
               /\ \/ /\ new.at = active /\ new.next = next
                     /\ HasSlot(mem[active]) /\ mem[active].slots \in Seq(Records)
                     /\ q = SlottedPage(mem[active].kind, Append(mem[active].slots, rec))
                  \/ /\ new.at = next /\ new.next = next + 1
                     /\ q = DataPage(<<rec>>)
  <2>1. \E q : /\ new.pages = [mem EXCEPT ![new.at] = q]
               /\ new.slot = Len(q.slots)
               /\ new.at \in Pages
               /\ Slotted(q) /\ q.slots \in Seq(Records)
               /\ Len(q.slots) \in 1..SlotsPerPage /\ q.slots[Len(q.slots)] = rec
               /\ \/ /\ new.at = active /\ new.next = next
                     /\ HasSlot(Fetched(active)) /\ Fetched(active).slots \in Seq(Records)
                     /\ q = SlottedPage(Fetched(active).kind, Append(Fetched(active).slots, rec))
                     /\ Slotted(mem[active]) \/ mem[active] = ZeroPage
                  \/ /\ new.at = next /\ new.next = next + 1
                     /\ q = DataPage(<<rec>>)
    BY <1>0, <1>1, <1>2, PlacedCases
  <2>2. PICK page : page = Fetched(active) /\ page = mem[active]
    BY <1>4
  <2> HIDE DEF new
  <2> QED BY <2>1, <2>2
<1>6. PICK at, i : at = new.at /\ i = new.slot
  OBVIOUS
<1> HIDE DEF new
<1>7. \A p \in Pages : mem'[p] = IF p = at THEN q ELSE mem[p]
  BY <1>0, <1>3, <1>5, <1>6
<1>8. CASE /\ new.at = active /\ new.next = next
           /\ HasSlot(mem[active]) /\ mem[active].slots \in Seq(Records)
           /\ q = SlottedPage(mem[active].kind, Append(mem[active].slots, rec))
  <2>1. mem[active].kind = "data"
    BY <1>4, <1>8 DEF HasSlot, Slotted
  <2>2. q.kind = "data" /\ q.slots = Append(mem[active].slots, rec)
    BY <1>8, <2>1 DEF SlottedPage
  <2>3. i = Len(mem[active].slots) + 1
    <3>1. i = Len(Append(mem[active].slots, rec))
      BY <1>5, <1>6, <2>2
    <3>2. PICK s \in Seq(Records) : s = mem[active].slots
      BY <1>8
    <3>3. Len(Append(s, rec)) = Len(s) + 1
      OBVIOUS
    <3> QED BY <3>1, <3>2, <3>3
  <2>4. active < next /\ active >= FirstData
    BY <1>0
  <2>5. RecordPlaced(at, i, rec)
    BY <1>3, <1>5, <1>6, <1>7, <1>8, <2>1, <2>2, <2>3, <2>4 DEF RecordPlaced
  <2> QED BY <2>5 DEF rec
<1>9. CASE new.at = next /\ new.next = next + 1 /\ q = DataPage(<<rec>>)
  <2>1. q.kind = "data" /\ q.slots = <<rec>>
    BY <1>9 DEF DataPage, SlottedPage
  <2>2. i = 1
    BY <1>5, <1>6, <2>1
  <2>3. next >= FirstData
    BY <1>0
  <2>4. RecordPlaced(at, i, rec)
    BY <1>3, <1>5, <1>6, <1>7, <1>9, <2>1, <2>2, <2>3 DEF RecordPlaced
  <2> QED BY <2>4 DEF rec
<1> QED BY <1>5, <1>8, <1>9

(* The insert of a record keeps LInv: the new document is under no term    *)
(* yet.                                                                    *)
LEMMA InsertRecordKeepsL ==
    ASSUME BInv, TInv, UInv, LInv, NEW text \in Texts, InsertRecord(text)
    PROVE  LInv'
<1> DEFINE len == Len(given)
           rec == [node |-> len + 1, doc |-> len]
           next == shard.next_page_id
           G == [doc : Nat, text : Texts]
<1>0. /\ next \in Nat /\ next >= 3 /\ Root = 0 /\ FirstData = 2 /\ FirstFree = 3
      /\ Root \in Pages /\ Pages \subseteq Nat
      /\ phase = "open" /\ shard.next_doc_id = len /\ len \in Nat
      /\ given \in Seq(G)
      /\ ListInv(mem, next, given, FALSE, insert.added) /\ OneUse(mem, next)
      /\ \A j \in DOMAIN given : given[j].doc = j - 1
  <2>1. phase = "open"
    BY DEF InsertRecord
  <2>2. (phase = "inserting") = FALSE /\ phase # "closed"
    BY <2>1
  <2>3. ListInv(mem, next, given, FALSE, insert.added) /\ OneUse(mem, next)
    BY <2>2 DEF LInv, UInv
  <2>4. given \in Seq(G)
    BY DEF BInv, CallOk
  <2>5. shard.next_doc_id = len /\ \A j \in DOMAIN given : given[j].doc = j - 1
    BY <2>2 DEF LInv
  <2>6. /\ next \in Nat /\ next >= 3 /\ Root = 0 /\ FirstData = 2 /\ FirstFree = 3
        /\ Root \in Pages /\ Pages \subseteq Nat /\ len \in Nat
    BY Numbers DEF Root, FirstData, Pages
  <2> HIDE DEF G, len, next
  <2> QED BY <2>1, <2>3, <2>4, <2>5, <2>6
<1>1. /\ phase' = "inserting" /\ given' = Append(given, [doc |-> len, text |-> text])
      /\ insert'.added = 0 /\ shard'.next_doc_id = len + 1
  BY <1>0 DEF InsertRecord
<1>2. PICK at, i : RecordPlaced(at, i, rec)
  BY RecordGoes
<1>3. PICK r, m2, n2, q :
        /\ r = rec /\ m2 = mem' /\ n2 = shard'.next_page_id
        /\ at \in Pages /\ at >= FirstData /\ insert'.loc = [page |-> at, slot |-> i]
        /\ \A p \in Pages : m2[p] = IF p = at THEN q ELSE mem[p]
        /\ q.kind = "data" /\ q.slots[i] = r
        /\ \/ /\ at < next /\ n2 = next
              /\ mem[at].kind = "data" /\ mem[at].slots \in Seq(Records)
              /\ i = Len(mem[at].slots) + 1 /\ q.slots = Append(mem[at].slots, r)
           \/ /\ at = next /\ n2 = next + 1
              /\ i = 1 /\ q.slots = <<r>>
  BY <1>2 DEF RecordPlaced
<1>4. PICK g2 : /\ g2 = given' /\ Len(g2) = len + 1 /\ DOMAIN g2 = 1..(len + 1)
                /\ DOMAIN given = 1..len
                /\ g2[len + 1] = [doc |-> len, text |-> text]
                /\ \A j \in 1..len : j \in DOMAIN g2 /\ g2[j] = given[j]
  <2> HIDE DEF rec
  <2>1. given' = Append(given, [doc |-> len, text |-> text])
    BY <1>1
  <2>2. [doc |-> len, text |-> text] \in G
    BY <1>0
  <2>3. PICK e \in G : e = [doc |-> len, text |-> text]
    BY <2>2
  <2>4. given \in Seq(G) /\ given' = Append(given, e)
    BY <1>0, <2>1, <2>3
  <2> HIDE DEF G
  <2> QED BY <2>3, <2>4
<1>5. r.node = len + 1 /\ r.doc = len /\ r = [node |-> len + 1, doc |-> (len + 1) - 1]
  BY <1>0, <1>3
<1>6. PICK n : n = next /\ n \in Nat /\ n >= 3
  BY <1>0
<1>7. ListInv(mem, n, given, FALSE, insert.added) /\ OneUse(mem, n)
      /\ n2 \in Nat /\ n <= n2 /\ at \in Nat /\ at < n2 /\ n2 <= n + 1
  <2>1. ListInv(mem, n, given, FALSE, insert.added) /\ OneUse(mem, n)
    BY <1>0, <1>6
  <2>2. at \in Nat /\ ((at < n /\ n2 = n) \/ (at = n /\ n2 = n + 1))
    <3> HIDE DEF rec
    <3> QED BY <1>0, <1>3, <1>6
  <2>3. n2 \in Nat /\ n <= n2 /\ at < n2 /\ n2 <= n + 1
    BY <1>6, <2>2
  <2> QED BY <2>1, <2>2, <2>3
<1> HIDE DEF rec, len, next, G
<1>8. mem[at].kind # "posting" /\ at # Root
  <2>1. at = n => at \notin Posts(mem)
    BY <1>6, <1>7 DEF OneUse
  <2>2. CASE at = n
    BY <1>0, <1>3, <2>1, <2>2 DEF Posts
  <2>3. CASE at # n
    BY <1>0, <1>3, <1>6, <2>3
  <2> QED BY <1>0, <1>3, <2>2, <2>3
<1>9. PostingPages(m2, n2) = PostingPages(mem, n)
  <2>1. \A p \in Posts(mem) : p >= FirstFree /\ p < n
    BY <1>7 DEF OneUse
  <2>2. \A p \in FirstFree..(n2 - 1) : p \in Pages
    <3>1. at < MaxPages /\ MaxPages \in Nat /\ shard.next_page_id <= MaxPages
      BY <1>3, Numbers DEF Pages
    <3>2. n2 <= MaxPages
      BY <1>3, <1>6, <1>7, <3>1 DEF next
    <3> QED BY <1>0, <1>7, <3>1, <3>2 DEF Pages
  <2>3. \A p \in Pages : m2[p].kind = "posting" <=> mem[p].kind = "posting"
    BY <1>3, <1>8
  <2>4. ASSUME NEW p \in PostingPages(m2, n2) PROVE p \in PostingPages(mem, n)
    <3>1. p \in FirstFree..(n2 - 1) /\ p \in Pages /\ m2[p].kind = "posting"
      BY <2>2, <2>4 DEF PostingPages
    <3>2. mem[p].kind = "posting" /\ p \in Posts(mem)
      BY <2>3, <3>1 DEF Posts
    <3>3. p < n /\ p \in FirstFree..(n - 1)
      BY <1>0, <1>6, <1>7, <2>1, <3>1, <3>2
    <3> QED BY <3>2, <3>3 DEF PostingPages
  <2>5. ASSUME NEW p \in PostingPages(mem, n) PROVE p \in PostingPages(m2, n2)
    <3>1. p \in FirstFree..(n - 1) /\ mem[p].kind = "posting"
      BY <2>5 DEF PostingPages
    <3>2. p \in FirstFree..(n2 - 1)
      BY <1>0, <1>6, <1>7, <3>1
    <3>3. m2[p].kind = "posting"
      BY <2>2, <2>3, <3>1, <3>2
    <3> QED BY <3>2, <3>3 DEF PostingPages
  <2> QED BY <2>4, <2>5
<1>10. \A p \in PostingPages(mem, n) : m2[p] = mem[p]
  <2> TAKE p \in PostingPages(mem, n)
  <2>1. p \in FirstFree..(n - 1) /\ mem[p].kind = "posting"
    BY DEF PostingPages
  <2>2. p \in Pages
    <3>1. shard.next_page_id <= MaxPages /\ MaxPages \in Nat
      BY Numbers
    <3> QED BY <1>0, <1>6, <2>1, <3>1 DEF Pages, next
  <2> QED BY <1>3, <1>8, <2>1, <2>2
<1>11. m2[Root].head = mem[Root].head
  BY <1>0, <1>3, <1>8
<1>12. RecordsIn(mem, n, given) /\ KindsIn(mem, n)
  BY <1>7 DEF ListInv
<1>13. CASE \/ /\ at < n /\ n2 = n
               /\ mem[at].kind = "data" /\ mem[at].slots \in Seq(Records)
               /\ i = Len(mem[at].slots) + 1 /\ q.slots = Append(mem[at].slots, r)
            \/ /\ at = n /\ n2 = n + 1 /\ i = 1 /\ q.slots = <<r>> 
  <2>1. /\ i \in DOMAIN q.slots /\ Slotted(q)
        /\ \A k \in DOMAIN q.slots :
              \/ k = i
              \/ /\ Slotted(mem[at]) /\ k \in DOMAIN mem[at].slots
                 /\ q.slots[k] = mem[at].slots[k]
        /\ Slotted(mem[at]) =>
              /\ DOMAIN mem[at].slots \subseteq DOMAIN q.slots
              /\ \A k \in DOMAIN mem[at].slots : q.slots[k] = mem[at].slots[k]
    <3>0. Slotted(q)
      BY <1>3 DEF Slotted
    <3>1. CASE /\ mem[at].kind = "data" /\ mem[at].slots \in Seq(Records)
               /\ i = Len(mem[at].slots) + 1 /\ q.slots = Append(mem[at].slots, r)
      <4>1. PICK s \in Seq(Records) : s = mem[at].slots
        BY <3>1
      <4>2. r \in Records
        BY <1>0, <1>5 DEF Records, len
      <4>3. /\ DOMAIN Append(s, r) = 1..(Len(s) + 1) /\ DOMAIN s = 1..Len(s) /\ Len(s) \in Nat
            /\ \A k \in 1..Len(s) : Append(s, r)[k] = s[k]
        BY <4>2
      <4>4. Slotted(mem[at])
        BY <3>1 DEF Slotted
      <4>5. \A k \in 1..(Len(s) + 1) : k = Len(s) + 1 \/ k \in 1..Len(s)
        BY <4>3
      <4>6. q.slots = Append(s, r) /\ i = Len(s) + 1 /\ i \in 1..(Len(s) + 1)
            /\ 1..Len(s) \subseteq 1..(Len(s) + 1)
        BY <3>1, <4>1, <4>3
      <4> QED BY <3>0, <4>1, <4>3, <4>4, <4>5, <4>6
    <3>2. CASE at = n /\ i = 1 /\ q.slots = <<r>>
      <4>1. DOMAIN <<r>> = {1}
        OBVIOUS
      <4>2. ~Slotted(mem[at])
        BY <1>3, <1>6, <1>12, <3>2 DEF RecordsIn
      <4> QED BY <3>0, <3>2, <4>1, <4>2
    <3> QED BY <1>13, <3>1, <3>2
  <2>2. KeepsRecords(mem, m2)
    BY <1>3, <2>1 DEF KeepsRecords
  <2>3. RecordsIn(m2, n2, g2)
    <3> SUFFICES ASSUME NEW p \in Pages, Slotted(m2[p])
                 PROVE  /\ m2[p].kind = "data" /\ p < n2
                        /\ \A k \in DOMAIN m2[p].slots :
                              \E j \in DOMAIN g2 : m2[p].slots[k] = [node |-> j, doc |-> j - 1]
      BY Zenon DEF RecordsIn
    <3>1. ASSUME NEW j \in DOMAIN given PROVE j \in DOMAIN g2
      BY <1>4
    <3>2. CASE p # at
      <4>1. m2[p] = mem[p]
        BY <1>3, <3>2
      <4>2. /\ mem[p].kind = "data" /\ p < n
            /\ \A k \in DOMAIN mem[p].slots :
                  \E j \in DOMAIN given : mem[p].slots[k] = [node |-> j, doc |-> j - 1]
        BY <1>12, <4>1 DEF RecordsIn
      <4>3. p < n2
        BY <1>0, <1>6, <1>7, <4>2
      <4> QED BY <3>1, <4>1, <4>2, <4>3
    <3>3. CASE p = at
      <4>1. m2[p] = q
        BY <1>3, <3>3
      <4>2. ASSUME NEW k \in DOMAIN q.slots
            PROVE  \E j \in DOMAIN g2 : q.slots[k] = [node |-> j, doc |-> j - 1]
        <5>1. CASE k = i
          <6>1. len + 1 \in DOMAIN g2
            BY <1>0, <1>4 DEF len
          <6> QED BY <1>3, <1>5, <5>1, <6>1
        <5>2. CASE /\ Slotted(mem[at]) /\ k \in DOMAIN mem[at].slots
                   /\ q.slots[k] = mem[at].slots[k]
          <6>1. \E j \in DOMAIN given : mem[at].slots[k] = [node |-> j, doc |-> j - 1]
            BY <1>3, <1>12, <5>2 DEF RecordsIn
          <6> QED BY <3>1, <5>2, <6>1
        <5> QED BY <2>1, <5>1, <5>2
      <4>3. q.kind = "data" /\ p < n2
        BY <1>3, <1>7, <3>3
      <4> QED BY <4>1, <4>2, <4>3
    <3> QED BY <3>2, <3>3
  <2>4. KindsIn(m2, n2)
    <3> SUFFICES ASSUME NEW p \in FirstData..(n2 - 1) PROVE m2[p].kind \in {"data", "posting", "leaf"}
      BY DEF KindsIn
    <3>1. p \in Pages
      <4>1. at < MaxPages /\ MaxPages \in Nat /\ shard.next_page_id <= MaxPages
        BY <1>3, Numbers DEF Pages
      <4>2. n2 <= MaxPages
        BY <1>3, <1>6, <1>7, <4>1 DEF next
      <4> QED BY <1>0, <1>7, <4>1, <4>2 DEF Pages
    <3>2. CASE p = at
      BY <1>3, <3>1, <3>2
    <3>3. CASE p # at
      <4>1. p \in FirstData..(n - 1)
        BY <1>0, <1>6, <1>7, <1>13, <3>3
      <4>2. m2[p] = mem[p]
        BY <1>3, <3>1, <3>3
      <4> QED BY <1>12, <4>1, <4>2 DEF KindsIn
    <3> QED BY <3>2, <3>3
  <2>5. \A j \in DOMAIN given : j \in DOMAIN g2 /\ g2[j] = given[j]
    BY <1>4
  <2>6. ASSUME NEW j \in DOMAIN g2, NEW t \in AllTerms, AddedIn(g2, TRUE, 0, j, t)
        PROVE  j \in DOMAIN given /\ AddedIn(given, FALSE, insert.added, j, t)
    <3>1. j # len + 1
      <4>1. SUFFICES ASSUME j = len + 1 PROVE FALSE
        OBVIOUS
      <4>2. t \in {g2[j].text[k] : k \in 1..0}
        BY <1>4, <2>6, <4>1 DEF AddedIn
      <4>3. 1..0 = {}
        OBVIOUS
      <4> QED BY <4>2, <4>3
    <3>2. j \in 1..len
      BY <1>0, <1>4, <3>1 DEF len
    <3>3. HasIn(g2, j, t)
      BY <1>4, <2>6, <3>1 DEF AddedIn
    <3>4. HasIn(given, j, t)
      BY <1>4, <3>2, <3>3 DEF HasIn
    <3> QED BY <1>4, <3>2, <3>4 DEF AddedIn
  <2>7. ListInv(m2, n2, g2, TRUE, 0)
    <3>1. PICK k : k = insert.added
      OBVIOUS
    <3>2. \A j \in DOMAIN g2, t \in AllTerms :
             AddedIn(g2, TRUE, 0, j, t) => j \in DOMAIN given /\ AddedIn(given, FALSE, k, j, t)
      BY <2>6, <3>1
    <3>3. ListInv(mem, n, given, FALSE, k)
      BY <1>7, <3>1
    <3> QED BY <1>6, <1>7, <1>9, <1>10, <1>11, <2>2, <2>3, <2>4, <2>5, <3>2, <3>3, ListInvKept
  <2>8. Names(m2, [page |-> at, slot |-> i], len + 1)
    <3>1. m2[at] = q
      BY <1>3
    <3> QED BY <1>3, <1>5, <2>1, <3>1 DEF Names
  <2>9. \A j \in DOMAIN g2 : g2[j].doc = j - 1
    <3> TAKE j \in DOMAIN g2
    <3>1. CASE j = len + 1
      BY <1>0, <1>4, <3>1 DEF len
    <3>2. CASE j # len + 1
      <4>1. j \in 1..len
        BY <1>0, <1>4, <3>2 DEF len
      <4> QED BY <1>0, <1>4, <4>1
    <3> QED BY <3>1, <3>2
  <2>10. shard'.next_doc_id = Len(g2)
    BY <1>1, <1>4
  <2>11. /\ (phase = "inserting")' = TRUE /\ insert'.added = 0 /\ phase' # "closed"
         /\ insert'.loc = [page |-> at, slot |-> i] /\ Len(g2) = len + 1
    BY <1>1, <1>3, <1>4
  <2>12. /\ m2 = mem' /\ n2 = shard'.next_page_id /\ g2 = given'
    BY <1>3, <1>4
  <2>13. /\ \A j \in DOMAIN given' : given'[j].doc = j - 1
         /\ shard'.next_doc_id = Len(given')
         /\ ListInv(mem', shard'.next_page_id, given', TRUE, insert'.added)
         /\ Names(mem', insert'.loc, Len(given'))
    BY <2>7, <2>8, <2>9, <2>10, <2>11, <2>12
  <2> QED BY <1>1, <2>13 DEF LInv
<1> QED BY <1>3, <1>6, <1>13 DEF next
-----------------------------------------------------------------------------
(* What a posting added for a document leads to. *)
LEMMA EntryAddedKeeps ==
    ASSUME NEW m, NEW n, NEW own, NEW g, NEW k, NEW t \in AllTerms, NEW doc \in Nat, NEW loc, NEW pos,
           doc + 1 = Len(g), DOMAIN g = 1..Len(g), Len(g) \in Nat,
           EntriesIn(m, n, own, g), AllAdded(m, n, own, g, TRUE, k),
           Names(m, loc, Len(g)), HasIn(g, Len(g), t),
           NEW m2, NEW n2, NEW own2, NEW busy2, NEW k2,
           OneEntryMore(m, n, own, m2, n2, own2, AllTerms, t, doc, loc, pos),
           KeepsRecords(m, m2),
           \A s \in AllTerms : AddedIn(g, busy2, k2, Len(g), s) =>
              s = t \/ AddedIn(g, TRUE, k, Len(g), s)
    PROVE  EntriesIn(m2, n2, own2, g) /\ AllAdded(m2, n2, own2, g, busy2, k2)
<1> DEFINE old(s) == Entries(m, n, own, s)
           new(s) == Entries(m2, n2, own2, s)
<1>1. EntryAdded(old(t), new(t), doc, loc, pos) /\ \A s \in AllTerms \ {t} : new(s) = old(s)
  BY DEF OneEntryMore
<1>2. PICK x \in new(t) : /\ x.doc = doc
                          /\ x.loc = loc \/ \E e \in old(t) : e.doc = doc /\ e.loc = x.loc
                          /\ new(t) \subseteq old(t) \cup {x}
                          /\ \A e \in old(t) : e.doc # doc => e \in new(t)
  BY <1>1 DEF EntryAdded, Begun, Grown
<1>3. \A s \in AllTerms : \A e \in old(s) :
         e.doc + 1 \in DOMAIN g /\ Names(m, e.loc, e.doc + 1) /\ HasIn(g, e.doc + 1, s)
  BY DEF EntriesIn
<1>4. \A j \in DOMAIN g : \A s \in AllTerms :
         AddedIn(g, TRUE, k, j, s) => \E e \in old(s) : e.doc = j - 1
  BY DEF AllAdded
<1> HIDE DEF old, new
<1>5. Len(g) \in DOMAIN g
  OBVIOUS
<1>6. Names(m, x.loc, Len(g))
  BY <1>2, <1>3
<1>7. EntriesIn(m2, n2, own2, g)
  <2> SUFFICES ASSUME NEW s \in AllTerms, NEW e \in new(s)
               PROVE  /\ e.doc + 1 \in DOMAIN g /\ Names(m2, e.loc, e.doc + 1)
                      /\ HasIn(g, e.doc + 1, s)
    BY DEF EntriesIn, new
  <2>1. CASE e \in old(s)
    BY <1>3, <2>1, NamesStay
  <2>2. CASE s = t /\ e = x
    BY <1>2, <1>5, <1>6, <2>2, NamesStay
  <2> QED BY <1>1, <1>2, <2>1, <2>2
<1>8. AllAdded(m2, n2, own2, g, busy2, k2)
  <2> SUFFICES ASSUME NEW j \in DOMAIN g, NEW s \in AllTerms, AddedIn(g, busy2, k2, j, s)
               PROVE  \E e \in new(s) : e.doc = j - 1
    BY DEF AllAdded, new
  <2>1. CASE j = Len(g) /\ s = t
    BY <1>2, <2>1
  <2>2. CASE j = Len(g) /\ s # t
    <3>1. AddedIn(g, TRUE, k, j, s)
      BY <2>2
    <3> QED BY <1>1, <1>4, <2>2, <3>1
  <2>3. CASE j # Len(g)
    <3>1. AddedIn(g, TRUE, k, j, s) /\ j - 1 # doc
      BY <2>3 DEF AddedIn
    <3>2. PICK e \in old(s) : e.doc = j - 1
      BY <1>4, <3>1
    <3> QED BY <1>1, <1>2, <3>1, <3>2
  <2> QED BY <2>1, <2>2, <2>3
<1> QED BY <1>7, <1>8

(* Changing the tree and a page of postings, the records stay. *)
TreeAndPage(m, m2, tree, at, q) ==
    /\ q.kind = "posting" /\ tree.kind = "tree" /\ m[Root].kind = "tree"
    /\ at \in Pages => ~Slotted(m[at])
    /\ \A p \in Pages : m2[p] = IF p = Root THEN tree ELSE IF p = at THEN q ELSE m[p]

GrowsBy(at, n, n2) ==
    /\ n \in Nat /\ n2 \in Nat /\ n <= n2
    /\ \A p \in FirstData..(n2 - 1) : p \in Pages /\ (p = at \/ p \in FirstData..(n - 1))

(* Writing the tree and a page of postings touches no record. *)
LEMMA RecordsUntouched ==
    ASSUME NEW m, NEW n, NEW g, RecordsIn(m, n, g), KindsIn(m, n),
           NEW at, NEW q, NEW tree, NEW m2, NEW n2,
           TreeAndPage(m, m2, tree, at, q), GrowsBy(at, n, n2)
    PROVE  KeepsRecords(m, m2) /\ RecordsIn(m2, n2, g) /\ KindsIn(m2, n2)
<1>0. /\ q.kind = "posting" /\ tree.kind = "tree" /\ m[Root].kind = "tree"
      /\ at \in Pages => ~Slotted(m[at])
      /\ \A p \in Pages : m2[p] = IF p = Root THEN tree ELSE IF p = at THEN q ELSE m[p]
      /\ n \in Nat /\ n2 \in Nat /\ n <= n2
      /\ \A p \in FirstData..(n2 - 1) : p \in Pages /\ (p = at \/ p \in FirstData..(n - 1))
  BY DEF TreeAndPage, GrowsBy
<1>1. ~Slotted(q) /\ ~Slotted(tree) /\ ~Slotted(m[Root])
  BY <1>0 DEF Slotted
<1>2. \A p \in Pages : Slotted(m[p]) \/ Slotted(m2[p]) => m2[p] = m[p]
  BY <1>0, <1>1
<1>3. KeepsRecords(m, m2)
  BY <1>2 DEF KeepsRecords
<1>4. RecordsIn(m2, n2, g)
  <2> SUFFICES ASSUME NEW p \in Pages, Slotted(m2[p])
               PROVE  /\ m2[p].kind = "data" /\ p < n2
                      /\ \A k \in DOMAIN m2[p].slots :
                            \E j \in DOMAIN g : m2[p].slots[k] = [node |-> j, doc |-> j - 1]
    BY Zenon DEF RecordsIn
  <2>1. m2[p] = m[p] /\ Slotted(m[p])
    BY <1>2
  <2>2. /\ m[p].kind = "data" /\ p < n
        /\ \A k \in DOMAIN m[p].slots :
              \E j \in DOMAIN g : m[p].slots[k] = [node |-> j, doc |-> j - 1]
    BY <2>1 DEF RecordsIn
  <2>3. p < n2
    BY <1>0, <2>2 DEF Pages
  <2> QED BY <2>1, <2>2, <2>3
<1>5. KindsIn(m2, n2)
  <2> SUFFICES ASSUME NEW p \in FirstData..(n2 - 1) PROVE m2[p].kind \in {"data", "posting", "leaf"}
    BY DEF KindsIn
  <2>1. p \in Pages /\ (p = at \/ p \in FirstData..(n - 1)) /\ p # Root
    BY <1>0 DEF FirstData, Root
  <2>2. p \in FirstData..(n - 1) => m[p].kind \in {"data", "posting", "leaf"}
    BY DEF KindsIn
  <2> QED BY <1>0, <2>1, <2>2
<1> QED BY <1>3, <1>4, <1>5

(* The postings of allocated pages, as the types have them. *)
LEMMA TypedIsFilled ==
    ASSUME NEW m, PagesTyped(m), NEW n \in Nat, n <= MaxPages, MaxPages \in Nat
    PROVE  /\ Filled(m, n, Locations)
           /\ \A own, t : \A e \in Entries(m, n, own, t) : e.doc \in Nat
           /\ PostingPages(m, n) \subseteq Posts(m)
<1>1. ASSUME NEW p \in PostingPages(m, n)
      PROVE  /\ p \in Pages /\ m[p].kind = "posting"
             /\ m[p].postings \in Seq(Posting(Locations)) /\ m[p].postings # <<>>
  <2>1. p \in FirstFree..(n - 1) /\ m[p].kind = "posting"
    BY DEF PostingPages
  <2>2. p \in Pages
    BY <2>1 DEF FirstFree, Pages
  <2>3. m[p].postings \in Seq(Posting(Locations)) /\ Len(m[p].postings) \in 1..MaxPostings
    BY <2>1, <2>2 DEF PagesTyped, TypedPage, ZeroPage, LeafPage, Slotted
  <2>4. m[p].postings # <<>>
    <3>1. Len(<<>>) = 0 /\ 0 \notin 1..MaxPostings
      OBVIOUS
    <3> QED BY <2>3, <3>1
  <2> QED BY <2>1, <2>2, <2>3, <2>4
<1>2. Filled(m, n, Locations)
  BY <1>1 DEF Filled
<1>3. ASSUME NEW own, NEW t, NEW e \in Entries(m, n, own, t) PROVE e.doc \in Nat
  <2>1. PICK p \in PostingPages(m, n) : e \in ToSet(m[p].postings)
    BY DEF Entries
  <2> DEFINE P == Posting(Locations)
  <2>2. \A x \in P : x.doc \in Nat
    BY DEF Posting
  <2>3. m[p].postings \in Seq(P)
    BY <1>1
  <2> HIDE DEF P
  <2>4. \A i \in DOMAIN m[p].postings : m[p].postings[i] \in P
    BY <2>3
  <2>5. e \in P
    BY <2>1, <2>4 DEF ToSet
  <2> QED BY <2>2, <2>5
<1> QED BY <1>1, <1>2, <1>3 DEF Posts

(* The posting added next is one of the document inserted last, and with   *)
(* it the document has one term more.                                      *)
PostingIs(g, k, t, doc) ==
    /\ g = given /\ k = insert.added /\ t \in AllTerms /\ doc \in Nat /\ doc = Last(given).doc
    /\ doc + 1 = Len(g) /\ DOMAIN g = 1..Len(g) /\ Len(g) \in Nat /\ given' = given
    /\ HasIn(g, Len(g), t)
    /\ insert.loc \in Locations
    /\ shard.next_page_id + 1 <= MaxPages
    /\ \/ /\ phase' = "inserting" /\ insert'.loc = insert.loc /\ insert'.added = k + 1
          /\ \A s \in AllTerms :
                AddedIn(g, TRUE, k + 1, Len(g), s) => s = t \/ AddedIn(g, TRUE, k, Len(g), s)
       \/ /\ phase' = "open"
          /\ \A b : \A s \in AllTerms :
                AddedIn(g, FALSE, b, Len(g), s) => s = t \/ AddedIn(g, TRUE, k, Len(g), s)

(* The posting an insert adds next is of the document given last, under    *)
(* the next term of its text.                                              *)
LEMMA PostingIsNext ==
    ASSUME BInv, TInv, LInv, InsertPosting
    PROVE  PostingIs(given, insert.added, TermAdded, Last(given).doc)
<1> DEFINE G == [doc : Nat, text : Texts]
           len == Len(given)
           text == Last(given).text
           k == insert.added
<1>0. /\ phase = "inserting" /\ given \in Seq(G) /\ given # <<>> /\ k \in Nat
      /\ insert = [loc |-> insert.loc, added |-> k]
      /\ given' = given
  BY DEF InsertPosting, BInv, CallOk
<1>1. /\ len \in Nat /\ len \in 1..len /\ DOMAIN given = 1..len /\ Last(given) = given[len]
  <2> HIDE DEF G
  <2> QED BY <1>0 DEF Last
<1>2. given[len].doc = len - 1
  BY <1>0, <1>1 DEF LInv
<1>3. /\ TermAdded \in AllTerms /\ Last(given).doc \in Nat /\ text \in Seq(Terms)
  BY <1>0, NextTerm DEF TermAdded
<1>4. /\ insert.loc \in Locations /\ k <= Len(text)
      /\ shard.next_page_id + Len(text) + 1 - k <= MaxPages
  BY <1>0 DEF TInv, RoomInv
<1>5. shard.next_page_id + 1 <= MaxPages
  <2>1. Len(text) \in Nat
    BY <1>3
  <2>2. PICK l, n : l = Len(text) /\ n = shard.next_page_id
    OBVIOUS
  <2> HIDE DEF text, k
  <2>3. l \in Nat /\ n \in Nat /\ k \in Nat /\ MaxPages \in Nat
    BY <2>1, <2>2, Numbers DEF k
  <2>4. k <= l /\ n + l + 1 - k <= MaxPages
    BY <1>4, <2>2
  <2>5. n + 1 <= MaxPages
    BY <2>3, <2>4
  <2> QED BY <2>2, <2>5
<1>6. TermAdded = IF k + 1 <= Len(text) THEN text[k + 1] ELSE AllDocs
  BY DEF TermAdded, TermToAdd
<1>7. /\ Len(text) \in Nat /\ DOMAIN text = 1..Len(text) /\ text = given[len].text
      /\ ToSet(text) = {text[i] : i \in 1..Len(text)}
  <2>1. PICK s \in Seq(Terms) : s = text
    BY <1>3
  <2>2. /\ Len(s) \in Nat /\ DOMAIN s = 1..Len(s)
        /\ ToSet(s) = {s[i] : i \in 1..Len(s)}
    BY DEF ToSet
  <2> QED BY <1>1, <2>1, <2>2
<1> HIDE DEF G, text
<1>8. HasIn(given, len, TermAdded)
  <2>1. CASE k + 1 <= Len(text)
    <3>1. k + 1 \in 1..Len(text)
      BY <1>0, <1>7, <2>1
    <3> QED BY <1>6, <1>7, <2>1, <3>1 DEF HasIn
  <2> QED BY <1>6, <2>1 DEF HasIn
<1>9. CASE k < Len(text)
  <2>1. phase' = "inserting" /\ insert' = [insert EXCEPT !.added = k + 1]
    BY <1>0, <1>9 DEF InsertPosting, text
  <2>2. insert'.loc = insert.loc /\ insert'.added = k + 1
    BY <1>0, <2>1
  <2>3. k + 1 <= Len(text) /\ TermAdded = text[k + 1]
    BY <1>0, <1>6, <1>7, <1>9
  <2>4. ASSUME NEW s \in AllTerms, AddedIn(given, TRUE, k + 1, len, s)
        PROVE  s = TermAdded \/ AddedIn(given, TRUE, k, len, s)
    <3>1. PICK i \in 1..(k + 1) : s = text[i]
      BY <1>7, <2>4 DEF AddedIn
    <3>2. CASE i = k + 1
      BY <2>3, <3>1, <3>2
    <3>3. CASE i # k + 1
      <4>1. i \in 1..k
        BY <1>0, <3>3
      <4> QED BY <1>7, <3>1, <4>1 DEF AddedIn
    <3> QED BY <3>2, <3>3
  <2>5. len - 1 + 1 = len
    BY <1>1
  <2> QED BY <1>0, <1>1, <1>2, <1>3, <1>4, <1>5, <1>8, <2>1, <2>2, <2>4, <2>5, Zenon DEF PostingIs
<1>10. CASE ~(k < Len(text))
  <2>1. phase' = "open" /\ k = Len(text)
    <3>1. ~(insert.added < Len(Last(given).text))
      BY <1>10 DEF text
    <3>2. phase' = "open"
      BY <3>1 DEF InsertPosting
    <3>3. k = Len(text)
      BY <1>0, <1>4, <1>7, <1>10
    <3> QED BY <3>2, <3>3
  <2>2. TermAdded = AllDocs
    BY <1>6, <1>7, <2>1
  <2>3. ASSUME NEW b, NEW s \in AllTerms, AddedIn(given, FALSE, b, len, s)
        PROVE  s = TermAdded \/ AddedIn(given, TRUE, k, len, s)
    <3>1. s = AllDocs \/ s \in ToSet(text)
      BY <1>7, <2>3 DEF AddedIn, HasIn
    <3> QED BY <1>7, <2>1, <2>2, <3>1 DEF AddedIn
  <2>4. len - 1 + 1 = len
    BY <1>1
  <2> QED BY <1>0, <1>1, <1>2, <1>3, <1>4, <1>5, <1>8, <2>1, <2>3, <2>4, Zenon DEF PostingIs
<1> QED BY <1>9, <1>10

(* The head page of the term changes. *)
LEMMA ChangingKeepsLists ==
    ASSUME BInv, TInv, UInv, LInv, NEW g, NEW k, NEW t, NEW doc, PostingIs(g, k, t, doc),
           phase = "inserting", NEW pos \in Nat, NEW q, PostingChanges(t, doc, pos, q)
    PROVE  /\ KeepsRecords(mem, mem')
           /\ \A busy2, k2 : (\A s \in AllTerms : AddedIn(g, busy2, k2, Len(g), s) =>
                                 s = t \/ AddedIn(g, TRUE, k, Len(g), s))
                 => ListInv(mem', shard'.next_page_id, g, busy2, k2)
<1> DEFINE n == shard.next_page_id
           h == mem[Root].head
           c == h[t]
<1>0. /\ n \in Nat /\ n >= 3 /\ n <= MaxPages /\ MaxPages \in Nat /\ Root = 0 /\ Root \in Pages
      /\ FirstData = 2 /\ FirstFree = 3 /\ PagesTyped(mem) /\ OneUse(mem, n)
      /\ mem[Root].kind = "tree" /\ DOMAIN h = AllTerms
      /\ ListInv(mem, n, g, TRUE, k) /\ Names(mem, insert.loc, Len(g))
      /\ insert.loc \in Locations /\ t \in AllTerms /\ doc \in Nat
      /\ NoPage = -1
  <2>1. /\ OneUse(mem, n) /\ ListInv(mem, n, g, TRUE, k) /\ Names(mem, insert.loc, Len(g))
    BY DEF UInv, LInv, PostingIs
  <2>2. mem[Root].kind = "tree" /\ DOMAIN h = AllTerms
    BY <2>1 DEF OneUse, BInv, PagesOk
  <2>3. n \in Nat /\ n >= 3 /\ n <= MaxPages /\ MaxPages \in Nat /\ FirstFree = 3 /\ MaxPages > 3
    BY Numbers
  <2>4. Root = 0 /\ FirstData = 2 /\ NoPage = -1 /\ Root \in Pages
    BY <2>3 DEF Root, FirstData, Pages, NoPage
  <2>5. insert.loc \in Locations /\ t \in AllTerms /\ doc \in Nat
    BY DEF PostingIs
  <2>6. PagesTyped(mem)
    BY DEF TInv
  <2> HIDE DEF n, h
  <2> QED BY <2>1, <2>2, <2>3, <2>4, <2>5, <2>6
<1>1. PICK own : /\ Chains(mem, n, own) /\ EntriesIn(mem, n, own, g)
                 /\ AllAdded(mem, n, own, g, TRUE, k)
  BY <1>0 DEF ListInv
<1>2. Chained(h, mem, n, own) /\ Ascending(mem, n) /\ own = [p \in Pages |-> own[p]]
  BY <1>1 DEF Chains
<1>3. /\ Filled(mem, n, Locations)
      /\ \A e \in Entries(mem, n, own, t) : e.doc \in Nat
      /\ PostingPages(mem, n) \subseteq Posts(mem)
  BY <1>0, TypedIsFilled
<1>4. /\ c # NoPage /\ PageAfter(AsPostings(mem[c]), doc, insert.loc, pos, q)
      /\ \A p \in Pages : mem'[p] = IF p = Root THEN TreePage(h) ELSE IF p = c THEN q ELSE mem[p]
      /\ shard' = shard
  BY DEF PostingChanges, TermHead
<1>5. c \in PostingPages(mem, n) /\ own[c] = t
  BY <1>0, <1>2, <1>4 DEF Chained
<1>6. /\ c \in Pages /\ mem[c].kind = "posting" /\ AsPostings(mem[c]) = mem[c]
      /\ c \in FirstFree..(n - 1)
  BY <1>3, <1>5 DEF PostingPages, Posts, AsPostings
<1>7. \A p \in PostingPages(mem, n) : mem[p].next # c
  BY <1>0, <1>3, <1>4 DEF OneUse
<1>8. \A e \in Entries(mem, n, own, t) : e.doc <= doc
  <2> TAKE e \in Entries(mem, n, own, t)
  <2>1. e.doc + 1 \in 1..Len(g) /\ doc + 1 = Len(g) /\ Len(g) \in Nat
    BY <1>0, <1>1 DEF EntriesIn, PostingIs
  <2>2. PICK d \in Nat : d = e.doc
    BY <1>3
  <2> QED BY <1>0, <2>1, <2>2
<1>9. PICK m2 : m2 = mem'
  OBVIOUS
<1>10. m2[c] = q /\ \A p \in FirstFree..(n - 1) : p # c => m2[p] = mem[p]
  <2>1. c # Root
    BY <1>0, <1>6
  <2>2. \A p \in FirstFree..(n - 1) : p \in Pages /\ p # Root
    BY <1>0 DEF Pages
  <2> QED BY <1>4, <1>6, <1>9, <2>1, <2>2
<1>11. m2[Root].head = h
  BY <1>0, <1>4, <1>9 DEF TreePage
<1>12. PICK hh : hh = h
  OBVIOUS
<1>13. q.kind = "posting"
  <2>1. \A a, b : PostingPage(a, b).kind = "posting"
    BY DEF PostingPage
  <2> QED BY <1>4, <2>1 DEF PageAfter
<1>14. /\ Chained(hh, m2, n, own) /\ Ascending(m2, n)
       /\ OneEntryMore(mem, n, own, m2, n, own, AllTerms, t, doc, insert.loc, pos)
  <2>1. PICK loc : loc = insert.loc
    OBVIOUS
  <2>2. /\ Chained(hh, mem, n, own) /\ t \in DOMAIN hh /\ hh[t] # NoPage /\ DOMAIN hh = AllTerms
        /\ \A p \in PostingPages(mem, n) : mem[p].next # hh[t]
        /\ PageAfter(mem[hh[t]], doc, loc, pos, q) /\ m2[hh[t]] = q
        /\ \A p \in FirstFree..(n - 1) : p # hh[t] => m2[p] = mem[p]
        /\ loc \in Locations
    BY <1>0, <1>2, <1>4, <1>6, <1>7, <1>10, <1>12, <2>1
  <2> HIDE DEF n, h, c
  <2> QED BY <1>0, <1>2, <1>3, <1>8, <2>1, <2>2, HeadChanged
<1>15. KeepsRecords(mem, m2) /\ RecordsIn(m2, n, g) /\ KindsIn(m2, n)
  <2>1. RecordsIn(mem, n, g) /\ KindsIn(mem, n)
    BY <1>0 DEF ListInv
  <2>2. TreePage(h).kind = "tree" /\ ~Slotted(mem[c]) /\ n <= n
    BY <1>0, <1>6 DEF TreePage, Slotted
  <2>3. \A p \in FirstData..(n - 1) : p \in Pages /\ (p = c \/ p \in FirstData..(n - 1))
    BY <1>0 DEF Pages
  <2>4. PICK tree, at, k1 : tree = TreePage(h) /\ at = c /\ k1 = n
    OBVIOUS
  <2>5. \A p \in Pages : m2[p] = IF p = Root THEN tree ELSE IF p = at THEN q ELSE mem[p]
    BY <1>4, <1>9, <2>4
  <2>6. RecordsIn(mem, k1, g) /\ KindsIn(mem, k1) /\ GrowsBy(at, k1, k1)
    BY <1>0, <2>1, <2>2, <2>3, <2>4 DEF GrowsBy
  <2>7. TreeAndPage(mem, m2, tree, at, q)
    BY <1>0, <1>13, <2>2, <2>4, <2>5 DEF TreeAndPage
  <2>8. KeepsRecords(mem, m2) /\ RecordsIn(m2, k1, g) /\ KindsIn(m2, k1)
    BY <2>6, <2>7, RecordsUntouched
  <2> QED BY <2>4, <2>8
<1>16. Chains(m2, n, own)
  BY <1>2, <1>11, <1>12, <1>14 DEF Chains
<1>17. shard'.next_page_id = n
  BY <1>4
<1>18. ASSUME NEW busy2, NEW k2,
              \A s \in AllTerms : AddedIn(g, busy2, k2, Len(g), s) =>
                 s = t \/ AddedIn(g, TRUE, k, Len(g), s)
       PROVE  ListInv(m2, n, g, busy2, k2)
  <2>1. /\ doc + 1 = Len(g) /\ DOMAIN g = 1..Len(g) /\ Len(g) \in Nat /\ HasIn(g, Len(g), t)
    BY DEF PostingIs
  <2>2. EntriesIn(m2, n, own, g) /\ AllAdded(m2, n, own, g, busy2, k2)
    <3>1. PICK loc : loc = insert.loc
      OBVIOUS
    <3>2. /\ OneEntryMore(mem, n, own, m2, n, own, AllTerms, t, doc, loc, pos)
          /\ Names(mem, loc, Len(g))
      BY <1>0, <1>14, <3>1
    <3> HIDE DEF n, h, c
    <3> QED BY <1>0, <1>1, <1>15, <1>18, <2>1, <3>2, EntryAddedKeeps
  <2> QED BY <1>15, <1>16, <2>2 DEF ListInv
<1> QED BY <1>9, <1>15, <1>17, <1>18

(* A new page is put in front of the chain of the term. *)
LEMMA LinkingKeepsLists ==
    ASSUME BInv, TInv, UInv, LInv, NEW g, NEW k, NEW t, NEW doc, PostingIs(g, k, t, doc),
           phase = "inserting", NEW pos \in Nat, NEW q, PostingLinks(t, doc, pos, q)
    PROVE  /\ KeepsRecords(mem, mem')
           /\ \A busy2, k2 : (\A s \in AllTerms : AddedIn(g, busy2, k2, Len(g), s) =>
                                 s = t \/ AddedIn(g, TRUE, k, Len(g), s))
                 => ListInv(mem', shard'.next_page_id, g, busy2, k2)
<1> DEFINE n == shard.next_page_id
           h == mem[Root].head
           h2 == [h EXCEPT ![t] = n]
<1>0. /\ n \in Nat /\ n >= 3 /\ n + 1 <= MaxPages /\ MaxPages \in Nat /\ Root = 0 /\ Root \in Pages
      /\ FirstData = 2 /\ FirstFree = 3 /\ PagesTyped(mem) /\ OneUse(mem, n)
      /\ mem[Root].kind = "tree" /\ DOMAIN h = AllTerms
      /\ ListInv(mem, n, g, TRUE, k) /\ Names(mem, insert.loc, Len(g))
      /\ insert.loc \in Locations /\ t \in AllTerms /\ doc \in Nat
      /\ n \in Pages /\ n <= MaxPages
  <2>1. /\ OneUse(mem, n) /\ ListInv(mem, n, g, TRUE, k) /\ Names(mem, insert.loc, Len(g))
    BY DEF UInv, LInv, PostingIs
  <2>2. mem[Root].kind = "tree" /\ DOMAIN h = AllTerms
    BY <2>1 DEF OneUse, BInv, PagesOk
  <2>3. n \in Nat /\ n >= 3 /\ MaxPages \in Nat /\ FirstFree = 3 /\ MaxPages > 3
    BY Numbers
  <2>4. Root = 0 /\ FirstData = 2 /\ Root \in Pages
    BY <2>3 DEF Root, FirstData, Pages
  <2>5. insert.loc \in Locations /\ t \in AllTerms /\ doc \in Nat /\ n + 1 <= MaxPages
    BY DEF PostingIs
  <2>6. PagesTyped(mem)
    BY DEF TInv
  <2>7. n \in Pages /\ n <= MaxPages
    <3> HIDE DEF n
    <3> QED BY <2>3, <2>5 DEF Pages
  <2> HIDE DEF n, h
  <2> QED BY <2>1, <2>2, <2>3, <2>4, <2>5, <2>6, <2>7
<1>1. PICK own : /\ Chains(mem, n, own) /\ EntriesIn(mem, n, own, g)
                 /\ AllAdded(mem, n, own, g, TRUE, k)
  BY <1>0 DEF ListInv
<1>2. Chained(h, mem, n, own) /\ Ascending(mem, n) /\ own = [p \in Pages |-> own[p]]
  BY <1>1 DEF Chains
<1>3. /\ Filled(mem, n, Locations)
      /\ \A e \in Entries(mem, n, own, t) : e.doc \in Nat
      /\ PostingPages(mem, n) \subseteq Posts(mem)
  BY <1>0, TypedIsFilled
<1>4. /\ h[t] = NoPage \/ ~EndsWith(AsPostings(mem[h[t]]).postings, doc)
      /\ q = PostingPage(<<NewPosting(doc, insert.loc, pos)>>, h[t])
      /\ \A p \in Pages : mem'[p] = IF p = Root THEN TreePage(h2) ELSE IF p = n THEN q ELSE mem[p]
      /\ shard'.next_page_id = n + 1
  BY Numbers DEF PostingLinks, TermHead, NewHeads
<1>5. h[t] # NoPage => ~EndsWith(mem[h[t]].postings, doc)
  <2>1. h[t] # NoPage => mem[h[t]].kind = "posting"
    BY <1>0 DEF OneUse, Posts
  <2> QED BY <1>4, <2>1 DEF AsPostings
<1>6. \A e \in Entries(mem, n, own, t) : e.doc <= doc
  <2> TAKE e \in Entries(mem, n, own, t)
  <2>1. e.doc + 1 \in 1..Len(g) /\ doc + 1 = Len(g) /\ Len(g) \in Nat
    BY <1>0, <1>1 DEF EntriesIn, PostingIs
  <2>2. PICK d \in Nat : d = e.doc
    BY <1>3
  <2> QED BY <1>0, <2>1, <2>2
<1>7. PICK m2, hh, hh2, loc, tree, n1, own2 :
        /\ m2 = mem' /\ hh = h /\ hh2 = h2 /\ loc = insert.loc /\ tree = TreePage(h2)
        /\ n1 = n /\ own2 = [own EXCEPT ![n1] = t]
  OBVIOUS
<1>8. /\ n1 \in Nat /\ n1 >= FirstFree /\ n1 + 1 \in Nat /\ n1 <= n1 + 1 /\ n1 \in Pages
      /\ n1 >= 3 /\ n1 + 1 <= MaxPages
  <2> HIDE DEF n
  <2> QED BY <1>0, <1>7
<1>9. /\ Chained(hh, mem, n1, own) /\ Ascending(mem, n1) /\ Filled(mem, n1, Locations)
      /\ t \in DOMAIN hh /\ DOMAIN hh = AllTerms /\ loc \in Locations
      /\ hh[t] # NoPage => ~EndsWith(mem[hh[t]].postings, doc)
      /\ \A e \in Entries(mem, n1, own, t) : e.doc <= doc
      /\ hh2 = [hh EXCEPT ![t] = n1]
      /\ EntriesIn(mem, n1, own, g) /\ AllAdded(mem, n1, own, g, TRUE, k)
      /\ Names(mem, loc, Len(g)) /\ OneUse(mem, n1)
  BY <1>0, <1>1, <1>2, <1>3, <1>5, <1>6, <1>7
<1>10. \A p \in Pages : m2[p] = IF p = Root THEN tree ELSE IF p = n1 THEN q ELSE mem[p]
  BY <1>4, <1>7
<1>11. /\ q = PostingPage(<<NewPosting(doc, loc, pos)>>, hh[t]) /\ q.kind = "posting"
       /\ tree.kind = "tree" /\ tree.head = hh2 /\ shard'.next_page_id = n1 + 1
  BY <1>4, <1>7 DEF PostingPage, TreePage
<1> HIDE DEF n, h, h2
<1>12. /\ m2[n1] = PostingPage(<<NewPosting(doc, loc, pos)>>, hh[t])
       /\ \A p \in FirstFree..(n1 - 1) : m2[p] = mem[p]
       /\ m2[Root].head = hh2
       /\ \A p \in FirstData..(n1 + 1 - 1) : p \in Pages /\ (p = n1 \/ p \in FirstData..(n1 - 1))
  <2>1. n1 # Root /\ \A p \in FirstFree..(n1 - 1) : p \in Pages /\ p # Root /\ p # n1
    BY <1>0, <1>8 DEF Pages
  <2>2. \A p \in FirstData..(n1 + 1 - 1) : p \in Pages /\ (p = n1 \/ p \in FirstData..(n1 - 1))
    BY <1>0, <1>8 DEF Pages
  <2> QED BY <1>0, <1>8, <1>10, <1>11, <2>1, <2>2
<1>13. own2[n1] = t /\ (\A p \in FirstFree..(n1 - 1) : own2[p] = own[p])
       /\ own2 = [p \in Pages |-> own2[p]]
  <2>1. \A p \in FirstFree..(n1 - 1) : p \in Pages /\ p # n1
    BY <1>0, <1>8 DEF Pages
  <2> QED BY <1>2, <1>7, <1>8, <2>1
<1>14. /\ Chained(hh2, m2, n1 + 1, own2) /\ Ascending(m2, n1 + 1)
       /\ OneEntryMore(mem, n1, own, m2, n1 + 1, own2, AllTerms, t, doc, loc, pos)
  <2>1. /\ Chained(hh2, m2, n1 + 1, own2) /\ Ascending(m2, n1 + 1)
        /\ OneEntryMore(mem, n1, own, m2, n1 + 1, own2, DOMAIN hh, t, doc, loc, pos)
    <3>1. /\ Chained(hh, mem, n1, own) /\ Ascending(mem, n1) /\ Filled(mem, n1, Locations)
          /\ t \in DOMAIN hh /\ loc \in Locations /\ doc \in Nat
          /\ hh[t] # NoPage => ~EndsWith(mem[hh[t]].postings, doc)
          /\ \A e \in Entries(mem, n1, own, t) : e.doc <= doc
      BY <1>0, <1>9
    <3>2. n1 \in Nat /\ n1 >= FirstFree
      BY <1>8
    <3>3. PutInFront(hh, mem, n1, own, t, NewPosting(doc, loc, pos), hh2, m2, own2)
      BY <1>9, <1>12, <1>13 DEF PutInFront
    <3> QED BY <3>1, <3>2, <3>3, HeadLinked
  <2> QED BY <1>9, <2>1
<1>15. KeepsRecords(mem, m2) /\ RecordsIn(m2, n1 + 1, g) /\ KindsIn(m2, n1 + 1)
  <2>1. RecordsIn(mem, n1, g) /\ KindsIn(mem, n1)
    BY <1>0, <1>7 DEF ListInv
  <2>2. ~Slotted(mem[n1])
    BY <1>8, <2>1 DEF RecordsIn
  <2>3. PICK n2 : n2 = n1 + 1
    OBVIOUS
  <2>4. /\ n2 \in Nat /\ n1 <= n2
        /\ \A p \in FirstData..(n2 - 1) : p \in Pages /\ (p = n1 \/ p \in FirstData..(n1 - 1))
    BY <1>8, <1>12, <2>3
  <2>5. KeepsRecords(mem, m2) /\ RecordsIn(m2, n2, g) /\ KindsIn(m2, n2)
    <3>1. RecordsIn(mem, n1, g) /\ KindsIn(mem, n1) /\ GrowsBy(n1, n1, n2)
      BY <1>8, <2>1, <2>4 DEF GrowsBy
    <3>2. TreeAndPage(mem, m2, tree, n1, q)
      BY <1>0, <1>10, <1>11, <2>2 DEF TreeAndPage
    <3> QED BY <3>1, <3>2, RecordsUntouched
  <2> QED BY <2>3, <2>5
<1>16. Chains(m2, n1 + 1, own2)
  BY <1>12, <1>13, <1>14 DEF Chains
<1>17. ASSUME NEW busy2, NEW k2,
              \A s \in AllTerms : AddedIn(g, busy2, k2, Len(g), s) =>
                 s = t \/ AddedIn(g, TRUE, k, Len(g), s)
       PROVE  ListInv(m2, n1 + 1, g, busy2, k2)
  <2>1. /\ doc + 1 = Len(g) /\ DOMAIN g = 1..Len(g) /\ Len(g) \in Nat /\ HasIn(g, Len(g), t)
    BY DEF PostingIs
  <2>2. EntriesIn(m2, n1 + 1, own2, g) /\ AllAdded(m2, n1 + 1, own2, g, busy2, k2)
    BY <1>0, <1>9, <1>14, <1>15, <1>17, <2>1, EntryAddedKeeps
  <2> QED BY <1>15, <1>16, <2>2 DEF ListInv
<1> QED BY <1>7, <1>11, <1>15, <1>17

(* The insert of a posting keeps LInv, on the head of its chain or in      *)
(* front of it.                                                            *)
LEMMA InsertPostingKeepsL ==
    ASSUME ~WriteFails, BInv, TInv, UInv, LInv, InsertPosting
    PROVE  LInv'
<1> DEFINE g == given
           k == insert.added
           t == TermAdded
           doc == Last(given).doc
<1>1. PostingIs(g, k, t, doc) /\ phase = "inserting" /\ given' = given
  BY PostingIsNext DEF InsertPosting
<1> HIDE DEF t, doc
<1>2. /\ KeepsRecords(mem, mem')
      /\ \A busy2, k2 : (\A s \in AllTerms : AddedIn(g, busy2, k2, Len(g), s) =>
                            s = t \/ AddedIn(g, TRUE, k, Len(g), s))
            => ListInv(mem', shard'.next_page_id, g, busy2, k2)
  <2>0. PICK u \in AllTerms, pos \in Nat : \E q :
           /\ u = t
           /\ PostingChanges(u, doc, pos, q) \/ PostingLinks(u, doc, pos, q)
    BY PostingCases DEF t, doc
  <2>1. PICK q : /\ u = t
                 /\ PostingChanges(u, doc, pos, q) \/ PostingLinks(u, doc, pos, q)
    BY <2>0
  <2>2. PICK b, kk, dd : b = g /\ kk = k /\ dd = doc
    OBVIOUS
  <2>3. PostingIs(b, kk, u, dd)
    BY <1>1, <2>1, <2>2
  <2>4. PostingChanges(u, dd, pos, q) \/ PostingLinks(u, dd, pos, q)
    BY <2>1, <2>2
  <2>5. /\ KeepsRecords(mem, mem')
        /\ \A busy2, k2 : (\A s \in AllTerms : AddedIn(b, busy2, k2, Len(b), s) =>
                              s = u \/ AddedIn(b, TRUE, kk, Len(b), s))
              => ListInv(mem', shard'.next_page_id, b, busy2, k2)
    <3>1. CASE PostingChanges(u, dd, pos, q)
      BY <1>1, <2>3, <3>1, ChangingKeepsLists
    <3>2. CASE PostingLinks(u, dd, pos, q)
      BY <1>1, <2>3, <3>2, LinkingKeepsLists
    <3> QED BY <2>4, <3>1, <3>2
  <2> QED BY <2>1, <2>2, <2>5
<1>3. /\ \A j \in DOMAIN given : given[j].doc = j - 1
      /\ shard.next_doc_id = Len(given) /\ Names(mem, insert.loc, Len(given))
  BY <1>1 DEF LInv
<1>4. shard'.next_doc_id = Len(given)
  <2>1. PICK n : shard' = [shard EXCEPT !.next_page_id = n]
    BY DEF InsertPosting
  <2> QED BY <1>3, <2>1, Numbers
<1>5. CASE /\ phase' = "inserting" /\ insert'.loc = insert.loc /\ insert'.added = k + 1
           /\ \A s \in AllTerms :
                 AddedIn(g, TRUE, k + 1, Len(g), s) => s = t \/ AddedIn(g, TRUE, k, Len(g), s)
  <2>1. ListInv(mem', shard'.next_page_id, g, TRUE, insert'.added)
    BY <1>2, <1>5
  <2>2. Names(mem', insert'.loc, Len(given))
    BY <1>2, <1>3, <1>5, NamesStay
  <2>3. phase' # "closed" /\ (phase = "inserting")' = TRUE
    BY <1>5
  <2> QED BY <1>1, <1>3, <1>4, <2>1, <2>2, <2>3 DEF LInv
<1>6. CASE /\ phase' = "open"
           /\ \A b : \A s \in AllTerms :
                 AddedIn(g, FALSE, b, Len(g), s) => s = t \/ AddedIn(g, TRUE, k, Len(g), s)
  <2>1. ListInv(mem', shard'.next_page_id, g, FALSE, insert'.added)
    BY <1>2, <1>6
  <2>2. phase' # "closed" /\ (phase = "inserting")' = FALSE
    BY <1>6
  <2> QED BY <1>1, <1>3, <1>4, <2>1, <2>2 DEF LInv
<1> QED BY <1>1, <1>5, <1>6 DEF PostingIs

(* A deletion changes none of the pages of records and of postings. *)
LEMMA DeleteKeepsL == ASSUME BInv, TInv, LInv, NEW node, Delete(node) PROVE LInv'
<1> DEFINE n == shard.next_page_id
<1>0. /\ phase = "open" /\ phase' = "open" /\ shard' = shard /\ given' = given /\ insert' = insert
      /\ \A p \in Pages : p # Tombstone => mem'[p] = mem[p]
      /\ Slotted(mem'[Tombstone]) = FALSE
      /\ n \in Nat /\ Root = 0 /\ Tombstone = 1 /\ FirstData = 2 /\ FirstFree = 3
      /\ Pages \subseteq Nat /\ {Root, Tombstone} \subseteq Pages
      /\ PagesOk(mem) /\ n <= MaxPages /\ MaxPages \in Nat
  <2>1. \A b : ~Slotted(TombstonePage(b))
    BY DEF Slotted, TombstonePage
  <2>2. PICK b : mem' = [mem EXCEPT ![Tombstone] = TombstonePage(b)]
    BY DEF Delete
  <2>3. {Root, Tombstone} \subseteq Pages /\ Pages \subseteq Nat
    BY Numbers DEF Root, Tombstone, Pages
  <2>4. PagesOk(mem) /\ mem = [p \in Pages |-> mem[p]]
    BY DEF BInv, PagesOk
  <2>5. /\ \A p \in Pages : p # Tombstone => mem'[p] = mem[p]
        /\ Slotted(mem'[Tombstone]) = FALSE
    BY <2>1, <2>2, <2>3, <2>4
  <2> QED BY <2>3, <2>4, <2>5, Numbers DEF Delete, Root, Tombstone, FirstData
<1>1. ListInv(mem, n, given, FALSE, insert.added)
  <2>1. (phase = "inserting") = FALSE /\ phase # "closed"
    BY <1>0
  <2> QED BY <2>1 DEF LInv
<1>2. RecordsIn(mem, n, given) /\ KindsIn(mem, n)
  BY <1>1 DEF ListInv
<1>3. PICK m2 : m2 = mem'
  OBVIOUS
<1>4. PICK k, n1 : k = insert.added /\ n1 = n
  OBVIOUS
<1>5. KeepsRecords(mem, m2)
  <2>1. \A p \in Pages : Slotted(mem[p]) => p # Tombstone
    BY <1>0 DEF PagesOk
  <2> QED BY <1>0, <1>3, <2>1 DEF KeepsRecords
<1>6. RecordsIn(m2, n1, given)
  <2>1. \A p \in Pages : Slotted(m2[p]) => m2[p] = mem[p] /\ Slotted(mem[p])
    BY <1>0, <1>3
  <2> QED BY <1>2, <1>4, <2>1 DEF RecordsIn
<1>7. KindsIn(m2, n1) /\ PostingPages(m2, n1) = PostingPages(mem, n1)
      /\ \A p \in PostingPages(mem, n1) : m2[p] = mem[p]
  <2>1. \A p \in FirstData..(n1 - 1) : p \in Pages /\ p # Tombstone
    BY <1>0, <1>4 DEF Pages
  <2>2. \A p \in FirstData..(n1 - 1) : m2[p] = mem[p]
    BY <1>0, <1>3, <2>1
  <2>3. \A p \in FirstFree..(n1 - 1) : p \in FirstData..(n1 - 1)
    BY <1>0, <1>4
  <2> QED BY <1>2, <1>4, <2>2, <2>3 DEF KindsIn, PostingPages
<1>8. m2[Root].head = mem[Root].head
  BY <1>0, <1>3
<1>9. n1 \in Nat /\ ListInv(mem, n1, given, FALSE, k)
  BY <1>0, <1>1, <1>4
<1>10. ListInv(m2, n1, given, FALSE, k)
  <2>1. PICK g : g = given
    OBVIOUS
  <2>2. /\ \A j \in DOMAIN g : j \in DOMAIN g /\ g[j] = g[j]
        /\ \A j \in DOMAIN g, t \in AllTerms :
              AddedIn(g, FALSE, k, j, t) => j \in DOMAIN g /\ AddedIn(g, FALSE, k, j, t)
    OBVIOUS
  <2>3. ListInv(mem, n1, g, FALSE, k) /\ RecordsIn(m2, n1, g)
    BY <1>6, <1>9, <2>1
  <2>4. ListInv(m2, n1, g, FALSE, k)
    BY <1>5, <1>7, <1>8, <1>9, <2>2, <2>3, ListInvKept
  <2> QED BY <2>1, <2>4
<1>11. (phase = "inserting")' = FALSE /\ phase' # "closed"
  BY <1>0
<1>12. /\ \A j \in DOMAIN given : given[j].doc = j - 1
       /\ shard.next_doc_id = Len(given)
  BY <1>0 DEF LInv
<1> QED BY <1>0, <1>3, <1>4, <1>10, <1>11, <1>12 DEF LInv

(* A leaf the tree takes is no page of records and none of postings. *)
LEMMA SplitKeepsL ==
    ASSUME BInv, SplitInv, TInv, SplitRoom, UInv, LInv, SplitLeaf PROVE LInv'
<1>1. PICK n, n2, m2, k, g, busy :
        /\ n = shard.next_page_id /\ n2 = n + 1 /\ m2 = mem' /\ k = insert.added /\ g = given
        /\ busy = (phase = "inserting")
  OBVIOUS
<1>2. /\ phase # "closed" /\ phase' = phase /\ given' = given /\ insert' = insert
      /\ shard'.next_page_id = n2 /\ shard'.next_doc_id = shard.next_doc_id
      /\ \A p \in Pages : m2[p] = IF p = n THEN LeafPage ELSE mem[p]
      /\ m2[Root] = mem[Root]
  BY <1>1, SplitEffect DEF SplitLeaf, SplitInv
<1>3. /\ n \in Nat /\ n >= 3 /\ n2 \in Nat /\ n2 = n + 1 /\ n <= MaxPages
      /\ MaxPages \in Nat /\ FirstFree = 3 /\ FirstData = 2
  BY <1>1, Numbers DEF FirstData
<1>in. n \in Pages
  BY <1>1, <1>3 DEF Pages, SplitRoom, SplitLeaf
<1>4. LeafPage.kind = "leaf" /\ ~Slotted(LeafPage)
  BY DEF LeafPage, Slotted
<1>5. /\ \A j \in DOMAIN given : given[j].doc = j - 1
      /\ shard.next_doc_id = Len(given)
      /\ ListInv(mem, n, g, busy, k)
      /\ phase = "inserting" => Names(mem, insert.loc, Len(given))
  BY <1>1, <1>2 DEF LInv
<1>6. RecordsIn(mem, n, g) /\ KindsIn(mem, n)
  BY <1>5 DEF ListInv
<1>7. \A p \in Pages : Slotted(mem[p]) => p < n /\ p # n
  BY <1>3, <1>6 DEF RecordsIn, Pages
<1>8. KeepsRecords(mem, m2)
  BY <1>2, <1>7 DEF KeepsRecords
<1>9. RecordsIn(m2, n2, g)
  <2>1. \A p \in Pages : Slotted(m2[p]) => m2[p] = mem[p] /\ Slotted(mem[p]) /\ p < n2
    BY <1>2, <1>3, <1>4, <1>7 DEF Pages
  <2> QED BY <1>6, <2>1 DEF RecordsIn
<1>10. KindsIn(m2, n2)
  <2> SUFFICES ASSUME NEW p \in FirstData..(n2 - 1)
               PROVE  m2[p].kind \in {"data", "posting", "leaf"}
    BY DEF KindsIn
  <2>1. CASE p = n
    <3>1. m2[n].kind = "leaf"
      BY <1>2, <1>4, <1>in
    <3> QED BY <2>1, <3>1
  <2>2. CASE p # n
    <3>1. p \in FirstData..(n - 1) /\ p \in Pages
      BY <1>3, <2>2 DEF Pages
    <3>2. mem[p].kind \in {"data", "posting", "leaf"}
      BY <1>6, <3>1 DEF KindsIn
    <3>3. m2[p] = mem[p]
      BY <1>2, <2>2, <3>1
    <3> QED BY <3>2, <3>3
  <2> QED BY <2>1, <2>2
<1>11. /\ PostingPages(m2, n2) = PostingPages(mem, n)
       /\ \A p \in PostingPages(mem, n) : m2[p] = mem[p]
  <2>1. \A p \in FirstFree..(n - 1) : p \in Pages /\ p # n /\ p \in FirstFree..(n2 - 1)
    BY <1>3 DEF Pages
  <2>2. \A p \in FirstFree..(n2 - 1) : p = n \/ p \in FirstFree..(n - 1)
    BY <1>3
  <2>3. \A p \in FirstFree..(n - 1) : m2[p] = mem[p]
    BY <1>2, <2>1
  <2>4. m2[n].kind # "posting"
    <3>1. m2[n] = LeafPage
      BY <1>2, <1>in
    <3> QED BY <1>4, <3>1
  <2>6. PostingPages(m2, n2) = PostingPages(mem, n)
    <3>1. \A p \in FirstFree..(n - 1) : (m2[p].kind = "posting") <=> (mem[p].kind = "posting")
      BY <2>3
    <3> DEFINE A == FirstFree..(n - 1)
               B == FirstFree..(n2 - 1)
    <3>2. A \subseteq B /\ \A p \in B : p = n \/ p \in A
      BY <2>1, <2>2
    <3>3. {p \in B : m2[p].kind = "posting"} = {p \in A : mem[p].kind = "posting"}
      <4> HIDE DEF A, B
      <4>1. \A p \in A : (m2[p].kind = "posting") <=> (mem[p].kind = "posting")
        BY <3>1 DEF A
      <4> QED BY <2>4, <3>2, <4>1
    <3> QED BY <3>3 DEF PostingPages
  <2> QED BY <2>3, <2>6 DEF PostingPages
<1>12. ListInv(m2, n2, g, busy, k)
  <2>1. /\ \A j \in DOMAIN g : j \in DOMAIN g /\ g[j] = g[j]
        /\ \A j \in DOMAIN g, t \in AllTerms :
              AddedIn(g, busy, k, j, t) => j \in DOMAIN g /\ AddedIn(g, busy, k, j, t)
    OBVIOUS
  <2>2. m2[Root].head = mem[Root].head
    BY <1>2
  <2> QED BY <1>3, <1>5, <1>8, <1>9, <1>10, <1>11, <2>1, <2>2, ListInvKept
<1>13. phase = "inserting" => Names(m2, insert.loc, Len(given))
  BY <1>5, <1>8, NamesStay
<1> QED BY <1>1, <1>2, <1>5, <1>12, <1>13 DEF LInv

(* Without a kill, a failed write or a .meta left unsaved every step keeps *)
(* LInv.                                                                   *)
LEMMA LStep ==
    ASSUME ~Crashes, ~WriteFails, ~MetaFails,
           BInv, SplitInv, TInv, SplitRoom, UInv, NInv, LInv, [Next]_vars
    PROVE  LInv'
<1>1. ASSUME mem' = mem, given' = given, insert' = insert,
             shard'.next_page_id = shard.next_page_id, shard'.next_doc_id = shard.next_doc_id,
             phase # "closed", phase' # "closed",
             (phase = "inserting") = (phase = "inserting")'
      PROVE  LInv'
  <2>1. /\ \A j \in DOMAIN given : given[j].doc = j - 1
        /\ shard.next_doc_id = Len(given)
        /\ ListInv(mem, shard.next_page_id, given, phase = "inserting", insert.added)
        /\ phase = "inserting" => Names(mem, insert.loc, Len(given))
    BY <1>1 DEF LInv
  <2>2. ListInv(mem', shard'.next_page_id, given', (phase = "inserting")', insert'.added)
    BY <1>1, <2>1
  <2>3. /\ \A j \in DOMAIN given' : given'[j].doc = j - 1
        /\ shard'.next_doc_id = Len(given')
        /\ (phase = "inserting")' => Names(mem', insert'.loc, Len(given'))
    BY <1>1, <2>1
  <2> QED BY <1>1, <2>2, <2>3 DEF LInv
<1>2. ASSUME NEW p \in Pages, Save(p) PROVE LInv'
  BY <1>1, <1>2 DEF Save
<1>3. CASE CloseTruncates
  BY <1>1, <1>3 DEF CloseTruncates
<1>4. CASE CloseDescribes
  BY <1>1, <1>4 DEF CloseDescribes
<1>5. CASE CloseFlushes
  <2>1. /\ phase = "described" /\ disk' = mem /\ phase' = "closed"
        /\ UNCHANGED <<mem, meta, shard, given, insert>>
    BY <1>5 DEF CloseFlushes
  <2>2. meta = SavedCounters
    BY <2>1 DEF UInv
  <2>3. /\ meta.next_page_id = shard.next_page_id /\ meta.next_doc_id = shard.next_doc_id
        /\ meta # NoMeta
    <3>1. shard.next_page_id # 0
      BY Numbers
    <3> QED BY <2>2, <3>1 DEF SavedCounters, NoMeta
  <2>4. file_pages' > 0
    <3>1. file_pages > 0 /\ file_pages \in Nat
      BY <2>1, Numbers DEF BInv, CallOk
    <3> QED BY <1>5, <3>1, FileGrows
  <2>5. /\ ListInv(mem, shard.next_page_id, given, FALSE, insert.added)
        /\ shard.next_doc_id = Len(given) /\ \A j \in DOMAIN given : given[j].doc = j - 1
    <3>1. (phase = "inserting") = FALSE /\ phase # "closed"
      BY <2>1
    <3> QED BY <3>1 DEF LInv
  <2>6. ListInv(mem, shard.next_page_id, given, FALSE, 0)
    <3>1. \A b : AllAdded(mem, shard.next_page_id, b, given, FALSE, insert.added)
                    => AllAdded(mem, shard.next_page_id, b, given, FALSE, 0)
      BY DEF AllAdded, AddedIn
    <3> QED BY <2>5, <3>1 DEF ListInv
  <2>7. ListInv(disk', meta'.next_page_id, given', FALSE, 0)
    BY <2>1, <2>3, <2>6
  <2>8. phase' = "closed" /\ meta' # NoMeta /\ meta'.next_doc_id = Len(given')
        /\ \A j \in DOMAIN given' : given'[j].doc = j - 1
    BY <2>1, <2>3, <2>5
  <2> QED BY <2>4, <2>7, <2>8 DEF LInv
<1>6. CASE UNCHANGED vars
  BY <1>6, Zenon DEF vars, LInv
<1>7. ~InsertRefused /\ ~Crash /\ ~OpenStops /\ ~CloseFailsToDescribe
  BY DEF InsertRefused, Crash, OpenStops, CloseFailsToDescribe
<1> QED BY <1>2, <1>3, <1>4, <1>5, <1>6, <1>7, OpenKeepsL, InsertRecordKeepsL,
           InsertPostingKeepsL, DeleteKeepsL, SplitKeepsL DEF Next, Step

(* LInv is an invariant as long as the process is not killed, no write     *)
(* fails and every closing saves the .meta file.                           *)
LEMMA LInvariant == ASSUME ~Crashes, ~WriteFails, ~MetaFails PROVE Spec => []LInv
<1>1. BInv /\ SplitInv /\ TInv /\ SplitRoom /\ UInv /\ NInv /\ LInv /\ [Next]_vars => LInv'
  BY LStep
<1>2. BInv /\ SplitInv /\ NInv /\ [Next]_vars => NInv'
  BY NStep
<1>3. Spec => []BInv /\ []SplitInv
  BY BInvariant, SplitsInCalls, PTL
<1>4. Spec => []TInv /\ []SplitRoom
  BY TInvariant
<1>5. Spec => []UInv
  BY UInvariant
<1> QED BY <1>1, <1>2, <1>3, <1>4, <1>5, NInit, LInit, PTL DEF Spec
-----------------------------------------------------------------------------
(* What the lists say of the postings a search gets: they are those of the *)
(* documents with the term, each names the record of its document, and no  *)
(* document comes twice.                                                   *)
Found(t) == {j \in DOMAIN given : HasIn(given, j, t) /\ ~IsDeleted(j - 1)}

Searchable(busy, k) ==
    mem[Root].kind = "tree" /\ ListInv(mem, shard.next_page_id, given, busy, k)

PostingsFound(t, s) ==
    /\ \A i \in DOMAIN s : /\ s[i].doc \in Nat /\ s[i].doc + 1 \in DOMAIN given
                           /\ Names(mem, s[i].loc, s[i].doc + 1)
                           /\ HasIn(given, s[i].doc + 1, t)
    /\ \A i, j \in DOMAIN s : s[i].doc = s[j].doc => i = j

(* GetPostings returns, for a term, places of documents that have it, each *)
(* document once and all that were added.                                  *)
LEMMA SearchGets ==
    ASSUME MaxDocs <= MaxListed, BInv, TInv, NEW busy, NEW k, Searchable(busy, k),
           NEW t \in AllTerms, NEW s, s = GetPostings(Index, t)
    PROVE  /\ PostingsFound(t, s)
           /\ \A j \in DOMAIN given :
                 AddedIn(given, busy, k, j, t) => \E i \in DOMAIN s : s[i].doc = j - 1
<1>1. PICK n, h, m, g :
        n = shard.next_page_id /\ h = mem[Root].head /\ m = mem /\ g = given
  OBVIOUS
<1>2. /\ n \in Nat /\ n <= MaxPages /\ MaxPages \in Nat /\ PagesTyped(m)
      /\ Len(g) \in Nat /\ Len(g) <= MaxDocs /\ MaxDocs \in Nat
  <2>1. PagesTyped(m)
    BY <1>1 DEF TInv
  <2> QED BY <1>1, <2>1, Numbers
<1>3. /\ mem[Root].kind = "tree" /\ DOMAIN h = AllTerms
      /\ ListInv(m, n, g, busy, k) /\ h = m[Root].head
  <2>1. mem[Root].kind = "tree" /\ DOMAIN mem[Root].head = AllTerms
    BY DEF Searchable, BInv, PagesOk
  <2>2. ListInv(mem, shard.next_page_id, given, busy, k)
    BY DEF Searchable
  <2> QED BY <1>1, <2>1, <2>2
<1>4. DOMAIN g = 1..Len(g)
  <2> DEFINE G == [doc : Nat, text : Texts]
  <2>1. g \in Seq(G)
    BY <1>1 DEF BInv, CallOk
  <2> HIDE DEF G
  <2> QED BY <2>1
<1>5. PICK own : /\ Chains(m, n, own) /\ EntriesIn(m, n, own, g)
                 /\ AllAdded(m, n, own, g, busy, k)
  BY <1>3 DEF ListInv
<1>6. Chained(h, m, n, own) /\ Ascending(m, n)
  BY <1>3, <1>5 DEF Chains
<1>7. /\ Filled(m, n, Locations)
      /\ \A u : \A e \in Entries(m, n, own, u) : e.doc \in Nat
  BY <1>2, TypedIsFilled
<1>8. \A p \in PostingPages(m, n) : TopOf(m[p].postings) <= MaxListed
  <2> TAKE p \in PostingPages(m, n)
  <2>1. own[p] \in AllTerms
    BY <1>3, <1>6 DEF Chained
  <2>2. m[p].postings \in Seq(Posting(Locations)) /\ m[p].postings # <<>>
    BY <1>7 DEF Filled
  <2>3. PICK z \in Seq(Posting(Locations)) : z = m[p].postings
    BY <2>2
  <2>4. Len(z) \in DOMAIN z
    BY <2>2, <2>3
  <2>5. z[Len(z)] \in Entries(m, n, own, own[p])
    BY <2>3, <2>4 DEF Entries, ToSet
  <2>6. z[Len(z)].doc + 1 \in DOMAIN g /\ z[Len(z)].doc \in Nat
    BY <1>5, <1>7, <2>1, <2>5 DEF EntriesIn
  <2>7. PICK d \in Nat : d = z[Len(z)].doc
    BY <2>6
  <2>8. d + 1 <= MaxListed
    BY <1>2, <1>4, <2>6, <2>7, MaxListedAssumption
  <2> QED BY <2>3, <2>7, <2>8 DEF TopOf
<1>9. s = GetPostings([head |-> h, pages |-> m, next_page_id |-> n], t)
  <2>1. Index = [head |-> h, pages |-> m, next_page_id |-> n]
    BY <1>1, <1>3 DEF Index
  <2> QED BY <2>1
<1>10. /\ ToSet(s) = Entries(m, n, own, t)
       /\ \A i, j \in DOMAIN s : s[i].doc = s[j].doc => i = j
  <2>1. t \in DOMAIN h
    BY <1>3
  <2>2. PICK Locs : Locs = Locations
    OBVIOUS
  <2>3. /\ n \in Nat /\ Chained(h, m, n, own) /\ Ascending(m, n) /\ Filled(m, n, Locs)
        /\ RoomForAll(m, n)
    BY <1>2, <1>6, <1>7, <1>8, <2>2 DEF RoomForAll
  <2> QED BY <1>9, <2>1, <2>3, GetPostingsListsEntries
<1>11. ASSUME NEW i \in DOMAIN s
       PROVE  /\ s[i].doc \in Nat /\ s[i].doc + 1 \in DOMAIN g
              /\ Names(m, s[i].loc, s[i].doc + 1) /\ HasIn(g, s[i].doc + 1, t)
  <2>1. s[i] \in Entries(m, n, own, t)
    BY <1>10 DEF ToSet
  <2> QED BY <1>5, <1>7, <2>1 DEF EntriesIn
<1>12. ASSUME NEW j \in DOMAIN g, AddedIn(g, busy, k, j, t)
       PROVE  \E i \in DOMAIN s : s[i].doc = j - 1
  <2>1. PICK e \in Entries(m, n, own, t) : e.doc = j - 1
    BY <1>5, <1>12 DEF AllAdded
  <2>2. \E i \in DOMAIN s : s[i] = e
    BY <1>10, <2>1 DEF ToSet
  <2> QED BY <2>1, <2>2
<1>13. PostingsFound(t, s)
  BY <1>1, <1>10, <1>11 DEF PostingsFound
<1> QED BY <1>1, <1>12, <1>13

(* So a search lists documents that have the term and are not deleted, and *)
(* all whose inserts have returned.                                        *)
LEMMA SearchLists ==
    ASSUME MaxDocs <= MaxListed, BInv, TInv, NEW busy, NEW k, Searchable(busy, k),
           NEW t \in AllTerms
    PROVE  /\ \A i, j \in DOMAIN Search(t) : Search(t)[i].node = Search(t)[j].node => i = j
           /\ Listed(t) \subseteq Found(t)
           /\ \A j \in Found(t) : AddedIn(given, busy, k, j, t) => j \in Listed(t)
<1>1. PICK s : s = GetPostings(Index, t)
  OBVIOUS
<1>2. /\ PostingsFound(t, s)
      /\ \A j \in DOMAIN given :
            AddedIn(given, busy, k, j, t) => \E i \in DOMAIN s : s[i].doc = j - 1
  BY <1>1, SearchGets
<1> DEFINE found == {i \in DOMAIN s : HasRecord(s[i].loc) /\ ~IsDeleted(RecordAt(s[i].loc).doc)}
           records == [i \in found |-> RecordAt(s[i].loc)]
<1>3. Search(t) = records
  BY <1>1 DEF Search
<1>4. ASSUME NEW i \in DOMAIN s
      PROVE  /\ HasRecord(s[i].loc) /\ s[i].doc \in Nat /\ s[i].doc + 1 \in DOMAIN given
             /\ RecordAt(s[i].loc).node = s[i].doc + 1 /\ RecordAt(s[i].loc).doc = s[i].doc
             /\ HasIn(given, s[i].doc + 1, t)
  <2>1. /\ s[i].doc \in Nat /\ s[i].doc + 1 \in DOMAIN given
        /\ Names(mem, s[i].loc, s[i].doc + 1) /\ HasIn(given, s[i].doc + 1, t)
    BY <1>2 DEF PostingsFound
  <2>2. PICK d \in Nat : d = s[i].doc
    BY <2>1
  <2>3. RecordAt(s[i].loc) = [node |-> d + 1, doc |-> d + 1 - 1] /\ HasRecord(s[i].loc)
    BY <2>1, <2>2 DEF Names, HasRecord, RecordAt
  <2>4. d + 1 - 1 = d
    OBVIOUS
  <2> QED BY <2>1, <2>2, <2>3, <2>4
<1>5. /\ DOMAIN records = found
      /\ \A i \in found : i \in DOMAIN s /\ records[i] = RecordAt(s[i].loc) /\ ~IsDeleted(s[i].doc)
      /\ \A i \in DOMAIN s : ~IsDeleted(s[i].doc) => i \in found
  BY <1>4
<1> HIDE DEF records, found
<1>6. ASSUME NEW i \in found, NEW j \in found, records[i].node = records[j].node PROVE i = j
  <2>1. s[i].doc + 1 = s[j].doc + 1 /\ s[i].doc \in Nat /\ s[j].doc \in Nat
    BY <1>4, <1>5, <1>6
  <2>2. s[i].doc = s[j].doc
    BY <2>1
  <2> QED BY <1>2, <1>5, <2>2 DEF PostingsFound
<1>7. Listed(t) = {records[i].node : i \in found}
  BY <1>3, <1>5 DEF Listed, NodesOf
<1>8. ASSUME NEW i \in found PROVE records[i].node \in Found(t)
  <2>1. PICK d \in Nat : d = s[i].doc
    BY <1>4, <1>5
  <2>2. records[i].node = d + 1 /\ d + 1 - 1 = d
    BY <1>4, <1>5, <2>1
  <2> QED BY <1>4, <1>5, <2>1, <2>2 DEF Found
<1>9. ASSUME NEW j \in Found(t), AddedIn(given, busy, k, j, t)
      PROVE  j \in {records[i].node : i \in found}
  <2>1. j \in DOMAIN given /\ ~IsDeleted(j - 1)
    BY DEF Found
  <2>2. PICK i \in DOMAIN s : s[i].doc = j - 1
    BY <1>2, <1>9, <2>1
  <2>3. i \in found /\ records[i].node = j - 1 + 1
    BY <1>4, <1>5, <2>1, <2>2
  <2>4. j \in Nat
    <3> DEFINE G == [doc : Nat, text : Texts]
    <3>1. given \in Seq(G)
      BY DEF BInv, CallOk
    <3> HIDE DEF G
    <3> QED BY <2>1, <3>1
  <2>5. j - 1 + 1 = j
    BY <2>4
  <2> QED BY <2>3, <2>5
<1> QED BY <1>3, <1>5, <1>6, <1>7, <1>8, <1>9

(* A scan finds the records of all documents that are not deleted. *)
LEMMA ScanFinds ==
    ASSUME BInv, TInv, NEW busy, NEW k, Searchable(busy, k)
    PROVE  /\ Scan \subseteq {j \in DOMAIN given : ~IsDeleted(j - 1)}
           /\ \A j \in DOMAIN given :
                 AddedIn(given, busy, k, j, AllDocs) /\ ~IsDeleted(j - 1) => j \in Scan
<1>1. PICK n, g : n = shard.next_page_id /\ g = given
  OBVIOUS
<1>2. /\ ListInv(mem, n, g, busy, k) /\ PagesOk(mem) /\ n \in Nat
  BY <1>1, Numbers DEF Searchable, BInv
<1>3. RecordsIn(mem, n, g)
  BY <1>2 DEF ListInv
<1> DEFINE pages == {q \in FirstData..shard.next_page_id : q \in Pages /\ mem[q].kind = "data"}
           undeleted(p) == {r.node : r \in {r \in ToSet(mem[p].slots) : ~IsDeleted(r.doc)}}
<1>4. Scan = UNION {undeleted(p) : p \in pages}
  BY Zenon DEF Scan
<1>5. ASSUME NEW p \in pages, NEW j \in undeleted(p)
      PROVE  j \in DOMAIN given /\ ~IsDeleted(j - 1)
  <2>1. PICK i \in DOMAIN mem[p].slots : mem[p].slots[i].node = j /\ ~IsDeleted(mem[p].slots[i].doc)
    BY DEF ToSet
  <2>2. p \in Pages /\ Slotted(mem[p])
    BY DEF Slotted
  <2>3. PICK b \in DOMAIN g : mem[p].slots[i] = [node |-> b, doc |-> b - 1]
    BY <1>3, <2>1, <2>2 DEF RecordsIn
  <2>4. b = j
    BY <2>1, <2>3
  <2> QED BY <1>1, <2>1, <2>3, <2>4
<1>6. ASSUME NEW j \in DOMAIN given, ~IsDeleted(j - 1),
             AddedIn(given, busy, k, j, AllDocs)
      PROVE  \E p \in pages : j \in undeleted(p)
  <2>1. AllDocs \in AllTerms
    BY DEF AllTerms
  <2>2. PICK own : EntriesIn(mem, n, own, g) /\ AllAdded(mem, n, own, g, busy, k)
    BY <1>2 DEF ListInv
  <2>3. PICK e \in Entries(mem, n, own, AllDocs) : e.doc = j - 1
    BY <1>1, <1>6, <2>1, <2>2 DEF AllAdded
  <2>4. Names(mem, e.loc, j - 1 + 1)
    BY <2>1, <2>2, <2>3 DEF EntriesIn
  <2>5. j - 1 + 1 = j
    <3> DEFINE G == [doc : Nat, text : Texts]
    <3>1. given \in Seq(G)
      BY DEF BInv, CallOk
    <3> HIDE DEF G
    <3>2. j \in Nat
      BY <3>1
    <3> QED BY <3>2
  <2>6. PICK p, i : p = e.loc.page /\ i = e.loc.slot
    OBVIOUS
  <2>7. /\ p \in Pages /\ Slotted(mem[p]) /\ i \in DOMAIN mem[p].slots
        /\ mem[p].slots[i] = [node |-> j, doc |-> j - 1]
    BY <2>4, <2>5, <2>6 DEF Names
  <2>8. mem[p].kind = "data" /\ p < n /\ p >= FirstData
    BY <1>2, <1>3, <2>7 DEF RecordsIn, PagesOk
  <2>9. p \in FirstData..n
    BY <1>2, <2>7, <2>8 DEF Pages, FirstData
  <2>10. PICK r : r = mem[p].slots[i]
    OBVIOUS
  <2>11. r \in ToSet(mem[p].slots) /\ r.node = j /\ r.doc = j - 1
    BY <2>7, <2>10 DEF ToSet
  <2>12. j \in undeleted(p)
    BY <1>6, <2>11
  <2>13. p \in pages
    BY <1>1, <2>7, <2>8, <2>9
  <2> QED BY <2>12, <2>13
<1> HIDE DEF pages, undeleted
<1> QED BY <1>4, <1>5, <1>6

(* While the shard is open, its pages are as the lemmas about searches     *)
(* want them.                                                              *)
LEMMA OpenIsSearchable ==
    ASSUME UInv, LInv, phase # "closed"
    PROVE  Searchable(phase = "inserting", insert.added)
<1>1. OneUse(mem, shard.next_page_id)
  BY DEF UInv
<1>2. ListInv(mem, shard.next_page_id, given, phase = "inserting", insert.added)
  BY DEF LInv
<1> QED BY <1>1, <1>2 DEF Searchable, OneUse

(* A search finds what a scan finds: both give the documents that have the *)
(* term and are not deleted.                                               *)
LEMMA LInvAgrees ==
    ASSUME MaxDocs <= MaxListed, BInv, TInv, UInv, LInv
    PROVE  IndexAgreesWithScan
<1> SUFFICES ASSUME phase = "open" PROVE IndexAgreesWithScan
  BY DEF IndexAgreesWithScan
<1>1. Searchable(FALSE, insert.added)
  <2>1. Searchable(phase = "inserting", insert.added)
    BY OpenIsSearchable
  <2>2. (phase = "inserting") = FALSE
    OBVIOUS
  <2> QED BY <2>1, <2>2
<1>2. \A j \in DOMAIN given : \A t : AddedIn(given, FALSE, insert.added, j, t) <=> HasIn(given, j, t)
  BY DEF AddedIn
<1>3. AllDocs \in AllTerms /\ \A j : HasIn(given, j, AllDocs)
  BY DEF AllTerms, HasIn
<1>4. Listed(AllDocs) = Found(AllDocs)
  <2>1. Listed(AllDocs) \subseteq Found(AllDocs)
    BY <1>1, <1>3, SearchLists
  <2>2. \A j \in Found(AllDocs) : AddedIn(given, FALSE, insert.added, j, AllDocs)
                                  => j \in Listed(AllDocs)
    BY <1>1, <1>3, SearchLists
  <2> QED BY <1>2, <1>3, <2>1, <2>2 DEF Found
<1>5. Scan = {j \in DOMAIN given : ~IsDeleted(j - 1)}
  BY <1>1, <1>2, <1>3, ScanFinds
<1>6. Found(AllDocs) = {j \in DOMAIN given : ~IsDeleted(j - 1)}
  BY <1>3 DEF Found
<1>7. \A t \in AllTerms : \A i, j \in DOMAIN Search(t) :
         Search(t)[i].node = Search(t)[j].node => i = j
  BY <1>1, SearchLists
<1> QED BY <1>4, <1>5, <1>6, <1>7 DEF IndexAgreesWithScan

(* A search through the index lists what a scan of the records finds, each *)
(* document once, for every number of documents within the most a search   *)
(* lists (max_possible_postings of inverted_index_get_postings), however   *)
(* many pages their postings take and wherever the tree splits, across     *)
(* closing and opening, as long as the process is not killed, no write of  *)
(* a new page fails and every closing saves the .meta file.                *)
THEOREM SearchAgreesWithScan ==
    ASSUME ~Crashes, ~WriteFails, ~MetaFails, MaxDocs <= MaxListed
    PROVE  Spec => []IndexAgreesWithScan
<1>1. BInv /\ TInv /\ UInv /\ LInv => IndexAgreesWithScan
  BY LInvAgrees
<1>2. Spec => []UInv
  BY UInvariant
<1>3. Spec => []LInv
  BY LInvariant
<1> QED BY <1>1, <1>2, <1>3, BInvariant, TInvariant, PTL
-----------------------------------------------------------------------------
(* The refinement of the document store.  The bit of a document is its     *)
(* own as long as the tombstone page has one for every document; a closed  *)
(* shard is as its file has it.                                            *)
Marks == {j - 1 : j \in deleted}

SInv ==
    /\ phase = "inserting" => Len(given) \notin deleted
    /\ phase # "closed" => Bits(mem) = Marks
    /\ phase = "closed" =>
          /\ mem = disk
          /\ IF meta = NoMeta THEN deleted = {}
             ELSE Bits(disk) = Marks /\ shard.next_page_id = meta.next_page_id

(* SInv holds at the start. *)
LEMMA SInit == Init => SInv
BY DEF Init, SInv

(* Documents are numbered from 1 and deleted by these numbers. *)
LEMMA DocNumbers ==
    ASSUME BInv, TInv
    PROVE  /\ \A j \in DOMAIN given : j \in Nat /\ j - 1 \in Nat /\ j \in 1..MaxDocs /\ j <= Len(given)
           /\ deleted \subseteq DOMAIN given /\ DOMAIN given = 1..Len(given) /\ Len(given) \in Nat
<1> DEFINE G == [doc : Nat, text : Texts]
<1>1. given \in Seq(G)
  BY DEF BInv, CallOk
<1> HIDE DEF G
<1>2. DOMAIN given = 1..Len(given) /\ Len(given) \in Nat
  BY <1>1
<1> QED BY <1>2, Numbers

(* With one tombstone page for all documents a document has a bit of its   *)
(* own.                                                                    *)
LEMMA BitOf ==
    ASSUME MaxDocs <= TombstoneRoom, NEW d \in Nat, d < MaxDocs
    PROVE  Bit(d) = d /\ Bit(d) < TombstoneRoom
<1>1. TombstoneBits \in Nat /\ TombstoneRoom \in Nat /\ MaxDocs \in Nat /\ TombstoneRoom <= TombstoneBits
  BY TombstoneAssumption, ShardBoundsAssumption
<1>2. d < TombstoneBits /\ d < TombstoneRoom
  BY <1>1
<1>3. d % TombstoneBits = d
  BY <1>1, <1>2
<1> QED BY <1>2, <1>3 DEF Bit

(* A document counts as deleted just when delete_document was called for   *)
(* it.                                                                     *)
LEMMA MarksDelete ==
    ASSUME MaxDocs <= TombstoneRoom, BInv, TInv, Bits(mem) = Marks, NEW j \in DOMAIN given
    PROVE  IsDeleted(j - 1) <=> j \in deleted
<1>1. j \in Nat /\ j - 1 \in Nat /\ \A i \in deleted : i \in Nat
  BY DocNumbers
<1>2. j \in 1..MaxDocs /\ MaxDocs \in Nat
  BY DocNumbers, ShardBoundsAssumption
<1>3. Bit(j - 1) = j - 1
  <2>1. PICK d \in Nat : d = j - 1
    BY <1>1
  <2>2. d < MaxDocs
    BY <1>1, <1>2, <2>1
  <2> QED BY <2>1, <2>2, BitOf
<1>4. IsDeleted(j - 1) <=> j - 1 \in Marks
  BY <1>3 DEF IsDeleted
<1>5. j - 1 \in Marks <=> j \in deleted
  BY <1>1 DEF Marks
<1> QED BY <1>4, <1>5

(* Without a kill, a failed write or a .meta left unsaved every step keeps *)
(* SInv.                                                                   *)
LEMMA SStep ==
    ASSUME ~Crashes, ~WriteFails, ~MetaFails, MaxDocs <= TombstoneRoom,
           BInv, SplitInv, TInv, UInv, LInv, SInv, [Next]_vars
    PROVE  SInv'
<1>0. /\ Root = 0 /\ Tombstone = 1 /\ FirstData = 2 /\ FirstFree = 3
      /\ Root \in Pages /\ Tombstone \in Pages /\ shard.next_page_id \in Nat
      /\ shard.next_page_id >= 3 /\ mem = [p \in Pages |-> mem[p]]
  BY Numbers DEF Root, Tombstone, FirstData, Pages, BInv, PagesOk
<1>1. ASSUME phase # "closed", phase' # "closed", mem'[Tombstone] = mem[Tombstone],
             deleted' = deleted, phase' = "inserting" => Len(given') \notin deleted
      PROVE  SInv'
  <2>1. Bits(mem') = Bits(mem)
    BY <1>1 DEF Bits
  <2>2. Bits(mem) = Marks
    BY <1>1 DEF SInv
  <2> QED BY <1>1, <2>1, <2>2 DEF SInv, Marks
<1>2. CASE Open
  <2>1. phase = "closed" /\ phase' = "open" /\ mem' = OpenedPages /\ deleted' = deleted
    BY <1>2 DEF Open
  <2>2. Bits(OpenedPages) = Marks
    <3>1. CASE meta = NoMeta
      <4>1. file_pages = 0 /\ deleted = {}
        BY <2>1, <3>1 DEF UInv, SInv
      <4>2. OpenedPages[Tombstone] = TombstonePage({})
        BY <1>0, <4>1, OpenedPagesOk
      <4> QED BY <4>1, <4>2 DEF Bits, Marks, TombstonePage
    <3>2. CASE meta # NoMeta
      <4>1. file_pages > 0 /\ disk[Root].kind = "tree" /\ Bits(disk) = Marks
        BY <2>1, <3>2 DEF LInv, UInv, SInv, OneUse
      <4> QED BY <4>1 DEF OpenedPages
    <3> QED BY <3>1, <3>2
  <2>3. Bits(mem') = Marks' /\ phase' # "closed" /\ phase' # "inserting"
    BY <2>1, <2>2 DEF Marks
  <2> QED BY <2>3 DEF SInv
<1>3. ASSUME NEW text \in Texts, InsertRecord(text) PROVE SInv'
  <2>1. phase = "open" /\ phase' = "inserting" /\ deleted' = deleted
        /\ \E e : given' = Append(given, e)
    BY <1>3 DEF InsertRecord
  <2>2. mem'[Tombstone] = mem[Tombstone]
    <3>1. PICK at, i : RecordPlaced(at, i, [node |-> Len(given) + 1, doc |-> Len(given)])
      BY <1>3, RecordGoes
    <3>2. at # Tombstone
      BY <1>0, <3>1 DEF RecordPlaced
    <3> QED BY <1>0, <3>1, <3>2 DEF RecordPlaced
  <2>3. Len(given') = Len(given) + 1
    <3>1. given' = Append(given, [doc |-> shard.next_doc_id, text |-> text])
      BY <1>3 DEF InsertRecord
    <3> DEFINE G == [doc : Nat, text : Texts]
    <3>2. given \in Seq(G) /\ shard.next_doc_id \in Nat
      BY Numbers DEF BInv, CallOk
    <3>3. PICK e \in G : e = [doc |-> shard.next_doc_id, text |-> text]
      BY <3>2
    <3> HIDE DEF G
    <3> QED BY <3>1, <3>2, <3>3
  <2>4. Len(given') \notin deleted
    BY <2>3, DocNumbers
  <2> QED BY <1>1, <2>1, <2>2, <2>4
<1>4. CASE InsertPosting
  <2>1. phase = "inserting" /\ phase' \in {"inserting", "open"}
        /\ deleted' = deleted /\ given' = given
    BY <1>4 DEF InsertPosting
  <2>2. mem'[Tombstone] = mem[Tombstone]
    <3>0. PICK t \in AllTerms, pos \in Nat : \E q :
             \/ PostingChanges(t, Last(given).doc, pos, q)
             \/ PostingLinks(t, Last(given).doc, pos, q)
      BY <1>4, PostingCases
    <3>1. PICK q : \/ PostingChanges(t, Last(given).doc, pos, q)
                   \/ PostingLinks(t, Last(given).doc, pos, q)
      BY <3>0
    <3>2. CASE PostingChanges(t, Last(given).doc, pos, q)
      <4>1. TermHead(t) # Tombstone
        BY <1>0, <3>2 DEF PostingChanges
      <4> QED BY <1>0, <3>2, <4>1 DEF PostingChanges
    <3>3. CASE PostingLinks(t, Last(given).doc, pos, q)
      BY <1>0, <3>3 DEF PostingLinks
    <3> QED BY <3>1, <3>2, <3>3
  <2>3. Len(given) \notin deleted
    BY <2>1 DEF SInv
  <2>4. phase # "closed" /\ phase' # "closed"
    BY <2>1
  <2> QED BY <1>1, <2>1, <2>2, <2>3, <2>4
<1>5. ASSUME NEW node \in 1..MaxDocs, Delete(node) PROVE SInv'
  <2>1. /\ phase = "open" /\ phase' = "open" /\ node \in DOMAIN given \ deleted
        /\ mem' = [mem EXCEPT ![Tombstone] = TombstonePage(Marked(Bits(mem), given[node].doc))]
        /\ deleted' = deleted \cup {node}
    BY <1>5 DEF Delete
  <2>2. given[node].doc = node - 1 /\ node - 1 \in Nat /\ node - 1 < MaxDocs
    BY <2>1, ShardBoundsAssumption DEF LInv
  <2>3. PICK d \in Nat : d = node - 1
    BY <2>2
  <2>4. Marked(Bits(mem), d) = Bits(mem) \cup {d}
    <3>1. Bit(d) = d /\ Bit(d) < TombstoneRoom
      BY <2>2, <2>3, BitOf
    <3> QED BY <3>1 DEF Marked
  <2>5. mem'[Tombstone] = TombstonePage(Bits(mem) \cup {d})
    <3>1. mem'[Tombstone] = TombstonePage(Marked(Bits(mem), given[node].doc))
      BY <1>0, <2>1
    <3> QED BY <2>2, <2>3, <2>4, <3>1
  <2>6. Bits(mem') = Bits(mem) \cup {d}
    BY <2>5 DEF Bits, TombstonePage
  <2>7. Bits(mem) = Marks
    BY <2>1 DEF SInv
  <2>8. Marks' = Marks \cup {d}
    BY <2>1, <2>3 DEF Marks
  <2>9. Bits(mem') = Marks'
    BY <2>6, <2>7, <2>8
  <2>10. phase' # "closed" /\ phase' # "inserting"
    BY <2>1
  <2> QED BY <2>9, <2>10 DEF SInv
<1>6. ASSUME NEW p \in Pages, Save(p) PROVE SInv'
  BY <1>1, <1>6 DEF Save, SInv
<1>7. CASE CloseTruncates \/ CloseDescribes
  <2>1. /\ phase # "closed" /\ phase' # "closed" /\ phase' # "inserting"
        /\ mem' = mem /\ deleted' = deleted
    BY <1>7 DEF CloseTruncates, CloseDescribes
  <2> QED BY <1>1, <2>1
<1>8. CASE CloseFlushes
  <2>1. /\ phase = "described" /\ phase' = "closed" /\ disk' = mem
        /\ UNCHANGED <<mem, meta, shard, deleted>>
    BY <1>8 DEF CloseFlushes
  <2>2. meta = SavedCounters /\ Bits(mem) = Marks
    BY <2>1 DEF UInv, SInv
  <2>3. meta.next_page_id = shard.next_page_id /\ meta # NoMeta
    <3>1. shard.next_page_id # 0
      BY <1>0
    <3> QED BY <2>2, <3>1 DEF SavedCounters, NoMeta
  <2>4. Bits(disk') = Marks' /\ mem' = disk'
    BY <2>1, <2>2 DEF Marks
  <2> QED BY <2>1, <2>3, <2>4 DEF SInv
<1>9. CASE UNCHANGED vars
  BY <1>9, Zenon DEF vars, SInv, Marks
<1>10. ~InsertRefused /\ ~Crash /\ ~OpenStops /\ ~CloseFailsToDescribe
  BY DEF InsertRefused, Crash, OpenStops, CloseFailsToDescribe
<1>11. CASE SplitLeaf
  <2>1. /\ phase' = phase /\ phase # "closed" /\ given' = given /\ deleted' = deleted
        /\ mem'[Tombstone] = mem[Tombstone]
    <3>1. Tombstone # shard.next_page_id
      BY <1>0
    <3> QED BY <1>0, <1>11, <3>1, SplitEffect DEF SplitLeaf, SplitInv
  <2> QED BY <1>1, <2>1 DEF SInv
<1> QED BY <1>2, <1>3, <1>4, <1>5, <1>6, <1>7, <1>8, <1>9, <1>10, <1>11 DEF Next, Step

(* What the document store is mapped to, and what it holds: the documents  *)
(* given and not deleted, each under its terms, but for one whose insert   *)
(* has not returned.                                                       *)
InStore == [t \in AllTerms |-> Listed(t) \ IF phase = "inserting" THEN {Len(given)} ELSE {}]

Live(t) == {j \in DOMAIN given : /\ HasIn(given, j, t) /\ j \notin deleted
                                 /\ phase = "inserting" => j # Len(given)}

StoreHolds == InStore = [t \in AllTerms |-> Live(t)]

(* What an open shard lists under its terms is what is alive. *)
LEMMA ListedIsLive ==
    ASSUME MaxDocs <= MaxListed, MaxDocs <= TombstoneRoom, BInv, TInv,
           NEW k, Searchable(phase = "inserting", k), Bits(mem) = Marks
    PROVE  StoreHolds
<1>1. PICK busy \in BOOLEAN : busy = (phase = "inserting")
  OBVIOUS
<1>2. ASSUME NEW t \in AllTerms
      PROVE  Listed(t) \ (IF phase = "inserting" THEN {Len(given)} ELSE {}) = Live(t)
  <2>1. /\ Listed(t) \subseteq Found(t)
        /\ \A j \in Found(t) : AddedIn(given, busy, k, j, t) => j \in Listed(t)
    <3>1. Searchable(busy, k)
      BY <1>1
    <3> QED BY <3>1, SearchLists
  <2>2. Found(t) = {j \in DOMAIN given : HasIn(given, j, t) /\ j \notin deleted}
    BY MarksDelete DEF Found
  <2>3. ASSUME NEW j \in Found(t), busy => j # Len(given) PROVE AddedIn(given, busy, k, j, t)
    BY <2>2, <2>3 DEF AddedIn
  <2>4. CASE phase = "inserting"
    <3>1. busy = TRUE
      BY <1>1, <2>4
    <3>2. \A j \in Found(t) : j # Len(given) => j \in Listed(t)
      BY <2>1, <2>3, <3>1
    <3> QED BY <2>1, <2>2, <2>4, <3>2 DEF Live
  <2>5. CASE phase # "inserting"
    <3>1. busy = FALSE
      BY <1>1, <2>5
    <3>2. \A j \in Found(t) : j \in Listed(t)
      BY <2>1, <2>3, <3>1
    <3> QED BY <2>1, <2>2, <2>5, <3>2 DEF Live
  <2> QED BY <2>4, <2>5
<1> QED BY <1>2, Zenon DEF StoreHolds, InStore

(* The scan of an index without a posting page finds nothing. *)
Unlisted(h, m, n) == PostingPages(m, n) = {} /\ \A t \in DOMAIN h : h[t] = NoPage

LEMMA NoPagesNoPostings ==
    ASSUME NEW h, NEW m, NEW n, Unlisted(h, m, n), NEW t, n \in Nat /\ t \in DOMAIN h
    PROVE  DOMAIN GetPostings([head |-> h, pages |-> m, next_page_id |-> n], t) = {}
<1>1. PICK s : s = GetPostings([head |-> h, pages |-> m, next_page_id |-> n], t)
  OBVIOUS
<1>2. PICK own, Locs : Locs = Locations
  OBVIOUS
<1>3. Chained(h, m, n, own)
  BY DEF Chained, Unlisted
<1>4. Ascending(m, n) /\ Filled(m, n, Locs) /\ RoomForAll(m, n)
  BY DEF Ascending, Filled, RoomForAll, Unlisted
<1>5. /\ s \in Seq(Posting(Locs))
      /\ ToSet(s) = Entries(m, n, own, t)
      /\ \A i, j \in DOMAIN s : s[i].doc = s[j].doc => i = j
  BY <1>1, <1>3, <1>4, GetPostingsListsEntries
<1>6. ToSet(s) = {}
  BY <1>5 DEF Entries, Unlisted
<1>7. DOMAIN s = {}
  BY <1>6 DEF ToSet
<1> QED BY <1>1, <1>7

(* A shard that was never opened has no postings. *)
LEMMA EmptyHolds ==
    ASSUME BInv, TInv, given = <<>>, \A p \in Pages : mem[p] = ZeroPage, phase = "closed"
    PROVE  StoreHolds
<1>1. PICK n, h, m : n = shard.next_page_id /\ h = [t \in AllTerms |-> NoPage] /\ m = mem
  OBVIOUS
<1>2. Index = [head |-> h, pages |-> m, next_page_id |-> n]
  <2>1. mem[Root].kind # "tree"
    BY Numbers DEF Root, Pages, ZeroPage
  <2> QED BY <1>1, <2>1 DEF Index
<1>3. n \in Nat /\ Unlisted(h, m, n) /\ DOMAIN h = AllTerms
  <2>1. n \in Nat /\ n <= MaxPages /\ MaxPages \in Nat /\ FirstFree = 3
    BY <1>1, Numbers
  <2>2. \A p \in FirstFree..(n - 1) : p \in Pages
    BY <2>1 DEF Pages
  <2>3. \A p \in FirstFree..(n - 1) : m[p].kind # "posting"
    BY <1>1, <2>2 DEF ZeroPage
  <2> QED BY <1>1, <2>1, <2>3 DEF PostingPages, Unlisted
<1>4. ASSUME NEW t \in AllTerms PROVE Listed(t) = {}
  <2>1. DOMAIN GetPostings([head |-> h, pages |-> m, next_page_id |-> n], t) = {}
    BY <1>3, NoPagesNoPostings
  <2>2. DOMAIN Search(t) = {}
    BY <1>2, <2>1 DEF Search
  <2> QED BY <2>2 DEF Listed, NodesOf
<1>5. DOMAIN given = {}
  OBVIOUS
<1>6. \A t \in AllTerms : Live(t) = {} /\ Listed(t) \ (IF phase = "inserting" THEN {Len(given)} ELSE {}) = {}
  BY <1>4, <1>5 DEF Live
<1> QED BY <1>6, Zenon DEF StoreHolds, InStore

(* In every state, a closed shard included, the store is held. *)
LEMMA StoreIsHeld ==
    ASSUME MaxDocs <= MaxListed, MaxDocs <= TombstoneRoom, BInv, TInv, UInv, LInv, SInv
    PROVE  StoreHolds
<1>1. CASE phase # "closed"
  BY <1>1, OpenIsSearchable, ListedIsLive DEF SInv
<1>2. CASE phase = "closed" /\ meta = NoMeta
  <2>1. given = <<>> /\ \A p \in Pages : mem[p] = ZeroPage
    BY <1>2 DEF LInv, UInv, SInv
  <2> QED BY <1>2, <2>1, EmptyHolds
<1>3. CASE phase = "closed" /\ meta # NoMeta
  <2>1. /\ ListInv(disk, meta.next_page_id, given, FALSE, 0) /\ disk[Root].kind = "tree"
        /\ mem = disk /\ Bits(disk) = Marks /\ shard.next_page_id = meta.next_page_id
    BY <1>3 DEF LInv, UInv, OneUse, SInv
  <2>2. (phase = "inserting") = FALSE /\ Bits(mem) = Marks
    BY <1>3, <2>1
  <2>3. Searchable(phase = "inserting", 0)
    BY <2>1, <2>2 DEF Searchable
  <2> QED BY <2>2, <2>3, ListedIsLive
<1> QED BY <1>1, <1>2, <1>3

(* Each step maps to a step of the store or to none. *)
LEMMA InsertsInStore ==
    ASSUME NEW n \in 1..MaxDocs, NEW text \in Texts,
           \A t \in AllTerms : n \notin InStore[t],
           InStore' = [t \in AllTerms |-> IF t \in ToSet(text) \cup {AllDocs}
                                          THEN InStore[t] \cup {n} ELSE InStore[t]]
    PROVE  Store!Next
<1>1. Store!Insert(n, text)
  BY DEF Store!Insert, Store!Live, InStore
<1> QED BY <1>1 DEF Store!Next

(* A document that leaves every term is a deletion of the store. *)
LEMMA DeletesInStore ==
    ASSUME NEW n \in 1..MaxDocs, \E t \in AllTerms : n \in InStore[t],
           InStore' = [t \in AllTerms |-> InStore[t] \ {n}]
    PROVE  Store!Next
<1>1. Store!Delete(n)
  BY DEF Store!Delete, Store!Live, InStore
<1> QED BY <1>1 DEF Store!Next

(* Every step of a shard is a step of the document store or leaves it as   *)
(* it is.                                                                  *)
LEMMA StoreStep ==
    ASSUME ~Crashes, ~WriteFails, ~MetaFails,
           BInv, TInv, LInv, SInv, StoreHolds, StoreHolds', [Next]_vars
    PROVE  Store!Next \/ InStore' = InStore
<1>0. InStore = [t \in AllTerms |-> Live(t)] /\ InStore' = [t \in AllTerms |-> Live(t)']
  BY DEF StoreHolds
<1>1. ASSUME given' = given, deleted' = deleted, phase # "inserting", phase' # "inserting"
      PROVE  InStore' = InStore
  <2>1. \A t : Live(t)' = Live(t)
    BY <1>1 DEF Live
  <2> QED BY <1>0, <2>1
<1>2. CASE Open
  BY <1>1, <1>2 DEF Open
<1>3. ASSUME NEW text \in Texts, InsertRecord(text) PROVE InStore' = InStore
  <2> DEFINE G == [doc : Nat, text : Texts]
  <2>1. /\ phase = "open" /\ phase' = "inserting" /\ deleted' = deleted
        /\ given' = Append(given, [doc |-> shard.next_doc_id, text |-> text])
    BY <1>3 DEF InsertRecord
  <2>2. given \in Seq(G) /\ shard.next_doc_id \in Nat
    BY Numbers DEF BInv, CallOk
  <2>3. PICK e \in G : e = [doc |-> shard.next_doc_id, text |-> text]
    BY <2>2
  <2> HIDE DEF G
  <2>4. /\ Len(given) \in Nat /\ DOMAIN given = 1..Len(given) /\ Len(given') = Len(given) + 1
        /\ DOMAIN given' = 1..(Len(given) + 1) /\ \A j \in 1..Len(given) : given'[j] = given[j]
    BY <2>1, <2>2, <2>3
  <2>5. ASSUME NEW t PROVE Live(t)' = Live(t)
    <3>1. \A j \in DOMAIN given : j \in DOMAIN given' /\ j # Len(given')
                                  /\ (HasIn(given', j, t) <=> HasIn(given, j, t))
      BY <2>4 DEF HasIn
    <3>2. \A j \in DOMAIN given' : j # Len(given') => j \in DOMAIN given
      BY <2>4
    <3> QED BY <2>1, <3>1, <3>2 DEF Live
  <2> QED BY <1>0, <2>5
<1>4. CASE InsertPosting
  <2> DEFINE len == Len(given)
             text == Last(given).text
  <2>1. /\ phase = "inserting" /\ phase' \in {"inserting", "open"}
        /\ deleted' = deleted /\ given' = given
    BY <1>4 DEF InsertPosting
  <2>2. CASE phase' = "inserting"
    <3>1. \A t : Live(t)' = Live(t)
      BY <2>1, <2>2 DEF Live
    <3> QED BY <1>0, <3>1
  <2>3. CASE phase' = "open"
    <3> DEFINE G == [doc : Nat, text : Texts]
    <3>1. given \in Seq(G) /\ given # <<>>
      BY <2>1 DEF BInv, CallOk
    <3> HIDE DEF G
    <3>2. Last(given) \in G
      BY <3>1, LastIn
    <3>3. len \in DOMAIN given /\ given[len] = Last(given)
      BY <3>1 DEF Last
    <3>4. text \in Texts
      BY <3>2 DEF G
    <3>5. len \in 1..MaxDocs /\ len \notin deleted
      BY <2>1, <3>3, DocNumbers DEF SInv
    <3>6. \A t \in AllTerms : HasIn(given, len, t) <=> t \in ToSet(text) \cup {AllDocs}
      BY <3>3 DEF HasIn
    <3>7. ASSUME NEW t \in AllTerms
          PROVE  /\ Live(t)' = IF t \in ToSet(text) \cup {AllDocs} THEN Live(t) \cup {len} ELSE Live(t)
                 /\ len \notin Live(t)
      <4>1. Live(t) = {j \in DOMAIN given : HasIn(given, j, t) /\ j \notin deleted /\ j # len}
        BY <2>1 DEF Live
      <4>2. Live(t)' = {j \in DOMAIN given : HasIn(given, j, t) /\ j \notin deleted}
        BY <2>1, <2>3 DEF Live
      <4> HIDE DEF len, text
      <4> QED BY <3>3, <3>5, <3>6, <4>1, <4>2
    <3>8. Store!Next
      <4>1. PICK n, w : n = len /\ w = text
        OBVIOUS
      <4>2. \A t \in AllTerms : n \notin InStore[t]
        BY <1>0, <3>7, <4>1
      <4>3. InStore' = [t \in AllTerms |-> IF t \in ToSet(w) \cup {AllDocs}
                                           THEN InStore[t] \cup {n} ELSE InStore[t]]
        BY <1>0, <3>7, <4>1
      <4> QED BY <3>4, <3>5, <4>1, <4>2, <4>3, InsertsInStore
    <3> QED BY <3>8
  <2> QED BY <2>1, <2>2, <2>3
<1>5. ASSUME NEW node \in 1..MaxDocs, Delete(node) PROVE Store!Next
  <2>1. /\ phase = "open" /\ phase' = "open" /\ node \in DOMAIN given \ deleted
        /\ given' = given /\ deleted' = deleted \cup {node}
    BY <1>5 DEF Delete
  <2>2. ASSUME NEW t \in AllTerms PROVE Live(t)' = Live(t) \ {node}
    BY <2>1 DEF Live
  <2>3. AllDocs \in AllTerms /\ node \in Live(AllDocs)
    BY <2>1 DEF AllTerms, Live, HasIn
  <2>4. InStore' = [t \in AllTerms |-> InStore[t] \ {node}]
    BY <1>0, <2>2
  <2>5. node \in InStore[AllDocs]
    BY <1>0, <2>3
  <2> QED BY <2>3, <2>4, <2>5, DeletesInStore
<1>6. ASSUME NEW p \in Pages, Save(p) PROVE InStore' = InStore
  <2>1. \A t : Live(t)' = Live(t)
    BY <1>6 DEF Save, Live
  <2> QED BY <1>0, <2>1
<1>7. CASE CloseTruncates
  BY <1>1, <1>7 DEF CloseTruncates
<1>8. CASE CloseDescribes
  BY <1>1, <1>8 DEF CloseDescribes
<1>9. CASE CloseFlushes
  BY <1>1, <1>9 DEF CloseFlushes
<1>10. CASE UNCHANGED vars
  <2>1. \A t : Live(t)' = Live(t)
    BY <1>10 DEF vars, Live
  <2> QED BY <1>0, <2>1
<1>11. ~InsertRefused /\ ~Crash /\ ~OpenStops /\ ~CloseFailsToDescribe
  BY DEF InsertRefused, Crash, OpenStops, CloseFailsToDescribe
<1>12. CASE SplitLeaf
  <2>1. \A t : Live(t)' = Live(t)
    BY <1>12 DEF SplitLeaf, Live
  <2> QED BY <1>0, <2>1
<1> QED BY <1>2, <1>3, <1>4, <1>5, <1>6, <1>7, <1>8, <1>9, <1>10, <1>11, <1>12 DEF Next, Step

(* A shard implements the document store, for every number of documents    *)
(* within the most a search lists and the bits of the tombstone page: the  *)
(* steps of an insert, saving, closing and opening change nothing of what  *)
(* searches list, an insert that returns enters its document under all its *)
(* terms at once, and a deletion takes one document out, as long as the    *)
(* process is not killed, no write of a new page fails and every closing   *)
(* saves the .meta file.                                                   *)
THEOREM ShardImplementsDocStore ==
    ASSUME ~Crashes, ~WriteFails, ~MetaFails, MaxDocs <= MaxListed, MaxDocs <= TombstoneRoom
    PROVE  Spec => ImplementsDocStore
<1>1. BInv /\ TInv /\ UInv /\ LInv /\ SInv => StoreHolds
  BY StoreIsHeld
<1>2. BInv /\ SplitInv /\ TInv /\ UInv /\ LInv /\ SInv /\ [Next]_vars => SInv'
  BY SStep
<1>3. BInv /\ TInv /\ LInv /\ SInv /\ StoreHolds /\ StoreHolds' /\ [Next]_vars
         => [Store!Next]_InStore
  BY StoreStep
<1>4. Init /\ StoreHolds => Store!Init
  <2> SUFFICES ASSUME Init, StoreHolds PROVE Store!Init
    OBVIOUS
  <2>1. DOMAIN given = {}
    BY DEF Init
  <2>2. \A t \in AllTerms : Live(t) = {}
    BY <2>1 DEF Live
  <2>3. InStore = [t \in AllTerms |-> {}]
    BY <2>2 DEF StoreHolds
  <2> QED BY <2>3 DEF Store!Init, InStore
<1>5. Store!Init /\ [][Store!Next]_InStore => ImplementsDocStore
  BY PTL DEF ImplementsDocStore, Store!Spec, InStore
<1>6. Spec => []UInv
  BY UInvariant
<1>7. Spec => []LInv
  BY LInvariant
<1> QED BY <1>1, <1>2, <1>3, <1>4, <1>5, <1>6, <1>7, BInvariant, SplitsInCalls, TInvariant, SInit, PTL
        DEF Spec
===============================================================================
