-------------------------- MODULE InvertedIndexProofs --------------------------
(***************************************************************************)
(* Invariance proofs for InvertedIndex, for every set of words and terms,  *)
(* every text and query, every page size and every bound: what searches    *)
(* list is what the documents say.                                         *)
(***************************************************************************)
EXTENDS InvertedIndex, PostingListsProofs, FiniteSetTheorems

AllTerms == Terms \cup {AllDocs}

(***************************************************************************)
(* The positions a posting keeps.                                          *)
(***************************************************************************)

(* The first position of a term is kept. *)
LEMMA KeepsFirst == ASSUME NEW p \in Nat PROVE Keeps(<<p>>, {p + 1})
<1>1. Cardinality({p + 1}) = 1 /\ IsFiniteSet({p + 1}) /\ Cardinality({}) = 0
  BY FS_Singleton, FS_EmptySet
<1>2. {i \in {p + 1} : i < p + 1} = {}
  OBVIOUS
<1>3. MaxPositions \in Nat /\ MaxPositions >= 1
  BY MaxPositionsAssumption
<1>4. Len(<<p>>) = 1 /\ DOMAIN <<p>> = {1} /\ <<p>>[1] = p
  OBVIOUS
<1> QED BY <1>1, <1>2, <1>3, <1>4 DEF Keeps

(* A later place is kept if there is room, and then all before it were. *)
LEMMA KeepsOneMore ==
    ASSUME NEW k \in Nat, NEW S \in SUBSET (1..k), NEW ps \in Seq(Nat), Keeps(ps, S)
    PROVE  Keeps(OneMore(ps, k), S \cup {k + 1})
<1> DEFINE T == S \cup {k + 1}
           N == MaxPositions
<1>1. PICK c \in Nat : Cardinality(S) = c /\ Cardinality(T) = c + 1
  <2>1. k + 1 \notin S
    OBVIOUS
  <2>2. IsFiniteSet(1..k)
    BY FS_Interval
  <2>3. IsFiniteSet(S)
    BY <2>2, FS_Subset
  <2>4. Cardinality(S) \in Nat
    BY <2>3, FS_CardinalityType
  <2>5. Cardinality(T) = Cardinality(S) + 1
    BY <2>1, <2>3, FS_AddElement
  <2> QED BY <2>4, <2>5
<1>2. N \in Nat /\ N >= 1
  BY MaxPositionsAssumption
<1>3. /\ Len(ps) = IF c < N THEN c ELSE N
      /\ \A n \in DOMAIN ps : ps[n] + 1 \in S /\ Cardinality({i \in S : i < ps[n] + 1}) = n - 1
  BY <1>1 DEF Keeps
<1>4. DOMAIN ps = 1..Len(ps) /\ Len(ps) \in Nat /\ \A n \in DOMAIN ps : ps[n] \in Nat
  OBVIOUS
<1>5. ASSUME NEW n \in DOMAIN ps
      PROVE  ps[n] + 1 \in T /\ Cardinality({i \in T : i < ps[n] + 1}) = n - 1
  <2>1. ps[n] + 1 \in S
    BY <1>3
  <2>2. ~(k + 1 < ps[n] + 1)
    BY <1>4, <2>1
  <2>3. {i \in T : i < ps[n] + 1} = {i \in S : i < ps[n] + 1}
    BY <2>2
  <2> QED BY <1>3, <2>1, <2>3
<1>6. CASE Len(ps) < N
  <2>1. PICK r : r = Append(ps, k)
    OBVIOUS
  <2>2. /\ Len(r) = Len(ps) + 1 /\ DOMAIN r = 1..(Len(ps) + 1)
        /\ (\A n \in 1..Len(ps) : r[n] = ps[n]) /\ r[Len(ps) + 1] = k
    BY <2>1
  <2>3. Len(ps) = c /\ c < N
    BY <1>2, <1>3, <1>6
  <2>4. Len(r) = IF Cardinality(T) < N THEN Cardinality(T) ELSE N
    <3> HIDE DEF T, N
    <3> QED BY <1>1, <1>2, <2>2, <2>3
  <2>5. ASSUME NEW n \in DOMAIN r
        PROVE  r[n] + 1 \in T /\ Cardinality({i \in T : i < r[n] + 1}) = n - 1
    <3>1. CASE n = c + 1
      <4>1. r[n] = k
        BY <2>2, <2>3, <3>1
      <4>2. {i \in T : i < k + 1} = S
        <5>1. \A i \in S : i < k + 1
          OBVIOUS
        <5>2. ~(k + 1 < k + 1)
          OBVIOUS
        <5> QED BY <5>1, <5>2
      <4>3. n - 1 = c
        BY <3>1
      <4> QED BY <1>1, <4>1, <4>2, <4>3
    <3>2. CASE n # c + 1
      <4>1. n \in DOMAIN ps /\ r[n] = ps[n]
        BY <1>4, <2>2, <2>3, <3>2
      <4> HIDE DEF T
      <4> QED BY <1>5, <4>1
    <3> QED BY <3>1, <3>2
  <2>6. OneMore(ps, k) = r
    BY <1>6, <2>1 DEF OneMore
  <2> HIDE DEF T, N
  <2>7. Keeps(r, T)
    BY <2>4, <2>5 DEF Keeps, N
  <2> QED BY <2>6, <2>7 DEF T
<1>7. CASE ~(Len(ps) < N)
  <2>1. OneMore(ps, k) = ps
    BY <1>7 DEF OneMore
  <2>2. Len(ps) = N /\ ~(c < N)
    BY <1>2, <1>3, <1>7
  <2> HIDE DEF T, N
  <2>3. Len(ps) = IF Cardinality(T) < N THEN Cardinality(T) ELSE N
    BY <1>1, <1>2, <2>2
  <2>4. Keeps(ps, T)
    BY <1>5, <2>3 DEF Keeps, N
  <2> QED BY <2>1, <2>4 DEF T
<1> QED BY <1>6, <1>7
-----------------------------------------------------------------------------
(***************************************************************************)
(* The index after each posting of a document.                             *)
(***************************************************************************)

(* No page links to the head of a chain. *)
HeadsFree(h, m, n) ==
    \A p \in PostingPages(m, n) : \A t \in AllTerms : m[p].next # NoPage => m[p].next # h[t]

(* Pages are handed out to posting lists one after another; the lists are  *)
(* chains in order.                                                        *)
Allocated(h, m, n) ==
    /\ n \in FirstFree..MaxPages
    /\ DOMAIN h = AllTerms /\ DOMAIN m = 0..(MaxPages - 1)
    /\ \A p \in DOMAIN m : m[p].kind = "posting" <=> p \in FirstFree..(n - 1)
    /\ \A p \in PostingPages(m, n) : Len(m[p].postings) <= MaxPostings

ChainsOk(h, m, n, own) ==
    /\ h \in [AllTerms -> Int] /\ Allocated(h, m, n) /\ HeadsFree(h, m, n)
    /\ Chained(h, m, n, own) /\ Ascending(m, n) /\ Filled(m, n, Nat)

(* g are the term ids of the documents, of which the last may be under     *)
(* way.                                                                    *)
Entered(m, n, own, g) ==
    \A t \in AllTerms : \A e \in Entries(m, n, own, t) : e.doc + 1 \in DOMAIN g

(* The index an addition leaves. *)
Added(h, m, n, own, t, doc, pos, ix) ==
    \E h2, m2, n2, own2 :
       /\ ix = [head |-> h2, pages |-> m2, next_page_id |-> n2]
       /\ ChainsOk(h2, m2, n2, own2) /\ n2 <= n + 1
       /\ OneEntryMore(m, n, own, m2, n2, own2, AllTerms, t, doc, doc, pos)

NoLater(m, n, own, t, doc) == \A e \in Entries(m, n, own, t) : e.doc <= doc

LEMMA Bounds ==
    /\ MaxPages \in Nat /\ MaxPages > 3 /\ FirstFree = 3 /\ NoPage = -1
    /\ MaxPostings \in Nat /\ MaxPostings >= 1
  BY BoundsAssumption, MaxPostingsAssumption DEF FirstFree, NoPage

(* A posting that goes to the head of its chain. *)
LEMMA AddedOnHead ==
    ASSUME NEW h, NEW m, NEW n, NEW own, ChainsOk(h, m, n, own),
           NEW t, NEW doc, NEW pos, t \in AllTerms /\ doc \in Nat /\ pos \in Nat,
           NoLater(m, n, own, t, doc),
           NEW ix, OnHead(h, m, n, t, doc, doc, pos, ix)
    PROVE  Added(h, m, n, own, t, doc, pos, ix)
<1> DEFINE c == h[t]
           P == PostingPages(m, n)
<1>0. /\ n \in Nat /\ n \in FirstFree..MaxPages /\ DOMAIN h = AllTerms /\ DOMAIN m = 0..(MaxPages - 1)
      /\ \A p \in DOMAIN m : m[p].kind = "posting" <=> p \in FirstFree..(n - 1)
      /\ \A p \in P : Len(m[p].postings) <= MaxPostings
      /\ Chained(h, m, n, own) /\ Ascending(m, n) /\ Filled(m, n, Nat) /\ HeadsFree(h, m, n)
  BY Bounds DEF ChainsOk, Allocated
<1>1. PICK q : /\ c # NoPage /\ PageAfter(AsPostings(m[c]), doc, doc, pos, q)
               /\ ix = [head |-> h, pages |-> [m EXCEPT ![c] = q], next_page_id |-> n]
  BY DEF OnHead
<1>2. c \in P /\ c \in FirstFree..(n - 1) /\ m[c].kind = "posting" /\ c \in DOMAIN m
  <2>1. c \in P
    BY <1>0, <1>1 DEF Chained
  <2>2. \A p \in FirstFree..(n - 1) : p \in 0..(MaxPages - 1)
    BY <1>0, Bounds
  <2> QED BY <1>0, <2>1, <2>2 DEF PostingPages
<1>3. AsPostings(m[c]) = m[c]
  BY <1>2 DEF AsPostings
<1>4. PICK m2 : m2 = [m EXCEPT ![c] = q]
  OBVIOUS
<1>5. /\ m2[c] = q /\ DOMAIN m2 = DOMAIN m
      /\ \A p \in DOMAIN m : p # c => m2[p] = m[p]
      /\ \A p \in FirstFree..(n - 1) : p # c => m2[p] = m[p]
  <2>1. \A p \in FirstFree..(n - 1) : p \in DOMAIN m
    BY <1>0, Bounds
  <2> QED BY <1>2, <1>4, <2>1
<1>6. /\ q.kind = "posting" /\ q.next = m[c].next /\ Len(q.postings) <= MaxPostings
  <2>1. m[c].postings \in Seq(Posting(Nat)) /\ Len(m[c].postings) <= MaxPostings
    BY <1>0, <1>2 DEF Filled
  <2>2. PICK page, loc, Locs : page = m[c] /\ loc = doc /\ Locs = Nat
    OBVIOUS
  <2>3. /\ page.postings \in Seq(Posting(Locs)) /\ Len(page.postings) <= MaxPostings
        /\ PageAfter(page, doc, loc, pos, q) /\ doc \in Nat /\ loc \in Locs /\ pos \in Nat
    BY <1>1, <1>3, <2>1, <2>2
  <2>4. /\ q.kind = "posting" /\ q.next = page.next
        /\ q.postings \in Seq(Posting(Locs)) /\ Len(q.postings) \in 1..MaxPostings
    BY <2>3, PageAfterTyped
  <2>5. Len(q.postings) <= MaxPostings
    BY <2>4, Bounds
  <2> QED BY <2>2, <2>4, <2>5
<1>7. /\ PostingPages(m2, n) = P /\ Chained(h, m2, n, own) /\ Ascending(m2, n) /\ Filled(m2, n, Nat)
      /\ OneEntryMore(m, n, own, m2, n, own, AllTerms, t, doc, doc, pos)
  <2>1. \A p \in P : m[p].next # c
    BY <1>0, <1>1 DEF HeadsFree
  <2>2. \A e \in Entries(m, n, own, t) : e.doc <= doc
    BY DEF NoLater
  <2>3. PICK loc : loc = doc
    OBVIOUS
  <2>4. loc \in Nat /\ PageAfter(m[c], doc, loc, pos, q)
    BY <1>1, <1>3, <2>3
  <2>5. /\ Chained(h, m, n, own) /\ Ascending(m, n) /\ Filled(m, n, Nat)
        /\ t \in DOMAIN h /\ doc \in Nat /\ pos \in Nat /\ n \in Nat /\ h[t] # NoPage
        /\ m2[h[t]] = q /\ \A p \in FirstFree..(n - 1) : p # h[t] => m2[p] = m[p]
        /\ \A p \in PostingPages(m, n) : m[p].next # h[t]
        /\ PageAfter(m[h[t]], doc, loc, pos, q)
    BY <1>0, <1>1, <1>5, <2>1, <2>4
  <2>6. /\ PostingPages(m2, n) = PostingPages(m, n)
        /\ Chained(h, m2, n, own) /\ Ascending(m2, n) /\ Filled(m2, n, Nat)
        /\ OneEntryMore(m, n, own, m2, n, own, DOMAIN h, t, doc, loc, pos)
    BY <2>2, <2>4, <2>5, HeadChanged
  <2> QED BY <1>0, <2>3, <2>6
<1>8. Allocated(h, m2, n)
  <2>1. \A p \in DOMAIN m2 : m2[p].kind = "posting" <=> p \in FirstFree..(n - 1)
    BY <1>0, <1>2, <1>5, <1>6
  <2>2. \A p \in P : Len(m2[p].postings) <= MaxPostings
    <3>1. \A p \in P : p \in FirstFree..(n - 1)
      BY DEF PostingPages
    <3> HIDE DEF P, c
    <3> QED BY <1>0, <1>5, <1>6, <3>1
  <2> HIDE DEF P, c
  <2> QED BY <1>0, <1>5, <1>7, <2>1, <2>2 DEF Allocated
<1>9. HeadsFree(h, m2, n)
  <2>1. \A p \in P : m2[p].next = m[p].next
    <3>1. \A p \in P : p \in FirstFree..(n - 1)
      BY DEF PostingPages
    <3> HIDE DEF P, c
    <3> QED BY <1>5, <1>6, <3>1
  <2> HIDE DEF c
  <2> QED BY <1>0, <1>7, <2>1 DEF HeadsFree
<1>10. ix = [head |-> h, pages |-> m2, next_page_id |-> n] /\ n <= n + 1
  BY <1>0, <1>1, <1>4
<1>11. ChainsOk(h, m2, n, own)
  <2>1. h \in [AllTerms -> Int]
    BY DEF ChainsOk
  <2> QED BY <1>7, <1>8, <1>9, <2>1 DEF ChainsOk
<1> HIDE DEF c, P
<1> QED BY <1>7, <1>10, <1>11 DEF Added

(* A posting that begins a new page in front of its chain. *)
LEMMA AddedOnNew ==
    ASSUME NEW h, NEW m, NEW n, NEW own, ChainsOk(h, m, n, own), n < MaxPages,
           NEW t, NEW doc, NEW pos, t \in AllTerms /\ doc \in Nat /\ pos \in Nat,
           NoLater(m, n, own, t, doc),
           NEW ix, OnNew(h, m, n, t, doc, doc, pos, ix)
    PROVE  Added(h, m, n, own, t, doc, pos, ix)
<1> DEFINE P == PostingPages(m, n)
<1>0. /\ n \in Nat /\ n \in FirstFree..MaxPages /\ DOMAIN h = AllTerms /\ DOMAIN m = 0..(MaxPages - 1)
      /\ \A p \in DOMAIN m : m[p].kind = "posting" <=> p \in FirstFree..(n - 1)
      /\ \A p \in P : Len(m[p].postings) <= MaxPostings
      /\ Chained(h, m, n, own) /\ Ascending(m, n) /\ Filled(m, n, Nat) /\ HeadsFree(h, m, n)
  BY Bounds DEF ChainsOk, Allocated
<1>1. PICK Locs, loc, q, h2, m2, own2 :
        /\ Locs = Nat /\ loc = doc
        /\ q = PostingPage(<<NewPosting(doc, loc, pos)>>, h[t])
        /\ h2 = [h EXCEPT ![t] = n] /\ m2 = [m EXCEPT ![n] = q]
        /\ own2 = [p \in FirstFree..n |-> IF p = n THEN t ELSE own[p]]
  OBVIOUS
<1>2. /\ h[t] # NoPage => ~EndsWith(AsPostings(m[h[t]]).postings, doc)
      /\ ix = [head |-> h2, pages |-> m2, next_page_id |-> n + 1]
  BY <1>1 DEF OnNew
<1>3. h[t] # NoPage => ~EndsWith(m[h[t]].postings, doc)
  <2>1. h[t] # NoPage => m[h[t]].kind = "posting"
    BY <1>0 DEF Chained, PostingPages
  <2> QED BY <1>2, <2>1 DEF AsPostings
<1>4. /\ m2[n] = q /\ DOMAIN m2 = DOMAIN m /\ n \in DOMAIN m
      /\ \A p \in DOMAIN m : p # n => m2[p] = m[p]
      /\ \A p \in FirstFree..(n - 1) : p \in DOMAIN m /\ p # n /\ m2[p] = m[p]
  <2>1. n \in DOMAIN m /\ \A p \in FirstFree..(n - 1) : p \in DOMAIN m /\ p # n
    BY <1>0, Bounds
  <2> QED BY <1>1, <2>1
<1>5. own2[n] = t /\ \A p \in FirstFree..(n - 1) : own2[p] = own[p]
  <2>1. n \in FirstFree..n /\ \A p \in FirstFree..(n - 1) : p \in FirstFree..n /\ p # n
    BY <1>0, Bounds
  <2> QED BY <1>1, <2>1
<1>6. /\ Chained(h2, m2, n + 1, own2) /\ Ascending(m2, n + 1) /\ Filled(m2, n + 1, Locs)
      /\ OneEntryMore(m, n, own, m2, n + 1, own2, DOMAIN h, t, doc, loc, pos)
  <2>1. PutInFront(h, m, n, own, t, NewPosting(doc, loc, pos), h2, m2, own2)
    BY <1>1, <1>4, <1>5 DEF PutInFront
  <2>2. /\ Chained(h, m, n, own) /\ Ascending(m, n) /\ Filled(m, n, Locs)
        /\ t \in DOMAIN h /\ loc \in Locs /\ doc \in Nat /\ pos \in Nat
        /\ n \in Nat /\ n >= FirstFree
        /\ \A e \in Entries(m, n, own, t) : e.doc <= doc
    BY <1>0, <1>1, Bounds DEF NoLater
  <2> HIDE DEF P
  <2> QED BY <1>3, <2>1, <2>2, HeadLinked
<1>7. q.kind = "posting" /\ q.postings = <<NewPosting(doc, loc, pos)>> /\ q.next = h[t]
  BY <1>1 DEF PostingPage
<1>8. PostingPages(m2, n + 1) = P \cup {n}
  <2>1. \A p : p \in FirstFree..((n + 1) - 1) <=> p \in FirstFree..(n - 1) \/ p = n
    BY <1>0, Bounds
  <2> QED BY <1>4, <1>7, <2>1 DEF PostingPages
<1>9. Allocated(h2, m2, n + 1)
  <2>1. n + 1 \in FirstFree..MaxPages
    BY <1>0, Bounds
  <2>2. \A p \in DOMAIN m2 : m2[p].kind = "posting" <=> p \in FirstFree..((n + 1) - 1)
    <3>1. \A p : p \in FirstFree..((n + 1) - 1) <=> p \in FirstFree..(n - 1) \/ p = n
      BY <1>0, Bounds
    <3> QED BY <1>0, <1>4, <1>7, <3>1
  <2>3. Len(q.postings) <= MaxPostings
    BY <1>7, Bounds
  <2>4. \A p \in P \cup {n} : Len(m2[p].postings) <= MaxPostings
    <3>1. \A p \in P : p \in FirstFree..(n - 1)
      BY DEF PostingPages
    <3> HIDE DEF P
    <3> QED BY <1>0, <1>4, <2>3, <3>1
  <2>5. DOMAIN h2 = AllTerms /\ DOMAIN m2 = 0..(MaxPages - 1)
    BY <1>0, <1>1, <1>4
  <2> HIDE DEF P
  <2> QED BY <1>8, <2>1, <2>2, <2>4, <2>5 DEF Allocated
<1>10. HeadsFree(h2, m2, n + 1)
  <2> SUFFICES ASSUME NEW p \in P \cup {n}, NEW s \in AllTerms, m2[p].next # NoPage
               PROVE  m2[p].next # h2[s]
    <3> HIDE DEF P
    <3> QED BY <1>8 DEF HeadsFree
  <2>1. h2[t] = n /\ \A r \in AllTerms : r # t => h2[r] = h[r]
    BY <1>0, <1>1
  <2>2. \A r \in AllTerms : h[r] # NoPage => h[r] \in P /\ own[h[r]] = r
    BY <1>0 DEF Chained
  <2>3. n \notin P
    BY <1>4 DEF PostingPages
  <2>4. CASE p = n
    <3>1. m2[p].next = h[t] /\ h[t] # NoPage
      BY <1>4, <1>7, <2>4
    <3> HIDE DEF P
    <3> QED BY <2>1, <2>2, <2>3, <3>1
  <2>5. CASE p \in P
    <3>1. m2[p] = m[p] /\ m[p].next # NoPage
      BY <1>4, <2>5 DEF PostingPages
    <3>2. m[p].next \in P /\ \A r \in AllTerms : m[p].next # h[r]
      BY <1>0, <2>5, <3>1 DEF Chained, HeadsFree
    <3> HIDE DEF P
    <3> QED BY <2>1, <2>3, <3>1, <3>2
  <2> QED BY <2>4, <2>5
<1>11. ChainsOk(h2, m2, n + 1, own2)
  <2>1. h \in [AllTerms -> Int]
    BY DEF ChainsOk
  <2>2. h2 \in [AllTerms -> Int]
    BY <1>0, <1>1, <2>1
  <2> QED BY <1>1, <1>6, <1>9, <1>10, <2>2 DEF ChainsOk
<1>12. OneEntryMore(m, n, own, m2, n + 1, own2, AllTerms, t, doc, doc, pos)
  BY <1>0, <1>1, <1>6
<1>13. n + 1 <= n + 1
  BY <1>0
<1> HIDE DEF P
<1> QED BY <1>2, <1>11, <1>12, <1>13 DEF Added

(* A posting added, wherever it goes. *)
LEMMA PostingAdded ==
    ASSUME NEW h, NEW m, NEW n, NEW own, ChainsOk(h, m, n, own), n < MaxPages,
           NEW t, NEW doc, NEW pos, t \in AllTerms /\ doc \in Nat /\ pos \in Nat,
           NoLater(m, n, own, t, doc),
           NEW ix, ix = AddPosting([head |-> h, pages |-> m, next_page_id |-> n], t, doc, doc, pos)
    PROVE  Added(h, m, n, own, t, doc, pos, ix)
<1>1. PICK loc : loc = doc
  OBVIOUS
<1>2. OnHead(h, m, n, t, doc, loc, pos, ix) \/ OnNew(h, m, n, t, doc, loc, pos, ix)
  BY <1>1, AddPostingCases
<1> QED BY <1>1, <1>2, AddedOnHead, AddedOnNew
-----------------------------------------------------------------------------
(***************************************************************************)
(* What the lists say of the documents, after k postings of the last one.  *)
(***************************************************************************)

(* The places of a term in document j of g that have been added. *)
Placed(g, k, j, t) == {i \in DOMAIN g[j] : g[j][i] = t /\ (j = Len(g) => i <= k)}

KeptEntry(g, k, t, e) ==
    /\ Placed(g, k, e.doc + 1, t) # {}
    /\ Keeps(e.positions, Placed(g, k, e.doc + 1, t))

(* Every entry keeps places of its document, and every place has an entry. *)
KeptAll(m, n, own, g, k) ==
    \A t \in Terms :
       /\ \A e \in Entries(m, n, own, t) : KeptEntry(g, k, t, e)
       /\ \A j \in DOMAIN g : Placed(g, k, j, t) # {} =>
             \E e \in Entries(m, n, own, t) : e.doc = j - 1

(* A document has one entry under a term. *)
Once(m, n, own) ==
    \A t \in AllTerms : \A e, f \in Entries(m, n, own, t) : e.doc = f.doc => e = f

EntriesTyped(m, n, own) ==
    \A t \in AllTerms : \A e \in Entries(m, n, own, t) : e \in Posting(Nat)

LEMMA FilledIsTyped ==
    ASSUME NEW m, NEW n, NEW own, Filled(m, n, Nat)
    PROVE  EntriesTyped(m, n, own)
<1> SUFFICES ASSUME NEW t \in AllTerms, NEW e \in Entries(m, n, own, t)
             PROVE  e \in Posting(Nat)
  BY DEF EntriesTyped
<1>1. PICK p \in PostingPages(m, n) : e \in ToSet(m[p].postings)
  BY DEF Entries
<1>2. m[p].postings \in Seq(Posting(Nat))
  BY DEF Filled
<1>3. PICK i \in DOMAIN m[p].postings : e = m[p].postings[i]
  BY <1>1 DEF ToSet
<1> QED BY <1>2, <1>3

(* The posting that comes next, of the last document. *)
NextPosting(g, k, t, pos) ==
    \/ k + 1 \in DOMAIN g[Len(g)] /\ t = g[Len(g)][k + 1] /\ t \in Terms /\ pos = k
    \/ k + 1 \notin DOMAIN g[Len(g)] /\ t = AllDocs /\ pos = 0

(* It adds a place to those of its term, and to no other. *)
LEMMA PlacedNext ==
    ASSUME NEW g, NEW k \in Nat, NEW t, NEW pos, NextPosting(g, k, t, pos),
           g \in Seq(Seq(Terms)), Len(g) \in DOMAIN g
    PROVE  /\ \A j \in DOMAIN g, s \in Terms :
                 j # Len(g) \/ s # t => Placed(g, k + 1, j, s) = Placed(g, k, j, s)
           /\ t \in Terms => /\ pos = k
                             /\ Placed(g, k + 1, Len(g), t) = Placed(g, k, Len(g), t) \cup {k + 1}
           /\ \A s \in Terms : Placed(g, k, Len(g), s) \subseteq 1..k
<1>1. PICK last, text : last = Len(g) /\ text = g[last]
  OBVIOUS
<1>2. text \in Seq(Terms) /\ DOMAIN text = 1..Len(text) /\ Len(text) \in Nat
  BY <1>1
<1>3. AllDocs \notin Terms
  BY TermsAssumption
<1>4. ASSUME NEW j \in DOMAIN g, NEW s \in Terms, j # last
      PROVE  Placed(g, k + 1, j, s) = Placed(g, k, j, s)
  <2>1. j # Len(g)
    BY <1>1, <1>4
  <2>2. ASSUME NEW i PROVE Placed(g, i, j, s) = {x \in DOMAIN g[j] : g[j][x] = s}
    BY <2>1 DEF Placed
  <2> QED BY <2>2
<1>5. \A i \in DOMAIN text : i <= k + 1 <=> i <= k \/ i = k + 1
  BY <1>2
<1>6. \A s \in Terms : Placed(g, k, last, s) = {i \in DOMAIN text : text[i] = s /\ i <= k}
  BY <1>1 DEF Placed
<1>7. \A s \in Terms : Placed(g, k + 1, last, s) = {i \in DOMAIN text : text[i] = s /\ i <= k + 1}
  BY <1>1 DEF Placed
<1>8. \/ k + 1 \in DOMAIN text /\ t = text[k + 1] /\ pos = k
      \/ k + 1 \notin DOMAIN text /\ t \notin Terms
  BY <1>1, <1>3 DEF NextPosting
<1>9. ASSUME NEW s \in Terms, s # t PROVE Placed(g, k + 1, last, s) = Placed(g, k, last, s)
  <2>1. \A i \in DOMAIN text : text[i] = s => i # k + 1
    BY <1>8, <1>9
  <2>2. {i \in DOMAIN text : text[i] = s /\ i <= k + 1} = {i \in DOMAIN text : text[i] = s /\ i <= k}
    BY <1>5, <2>1
  <2> QED BY <1>6, <1>7, <2>2
<1>10. ASSUME t \in Terms
       PROVE  pos = k /\ Placed(g, k + 1, last, t) = Placed(g, k, last, t) \cup {k + 1}
  BY <1>5, <1>6, <1>7, <1>8, <1>10
<1>11. \A s \in Terms : Placed(g, k, last, s) \subseteq 1..k
  BY <1>2, <1>6
<1> QED BY <1>1, <1>4, <1>9, <1>10, <1>11

(* The entry of the last document, after a posting of it, keeps its places. *)
LEMMA LastEntryKeeps ==
    ASSUME NEW g, NEW k \in Nat, NEW t \in Terms, NEW S \in SUBSET (1..k),
           NEW old, NEW new, NEW doc, NEW loc,
           EntryAdded(old, new, doc, loc, k),
           \A e \in old : e \in Posting(Nat) /\ (e.doc = doc => S # {} /\ Keeps(e.positions, S)),
           S # {} => \E e \in old : e.doc = doc,
           \A e, f \in new : e.doc = f.doc => e = f
    PROVE  \A e \in new : e.doc = doc => Keeps(e.positions, S \cup {k + 1})
<1>1. PICK x \in new : /\ x.doc = doc
                       /\ Begun(old, new, x, loc, k) \/ Grown(old, x, doc, k)
  BY DEF EntryAdded
<1>2. \A e \in new : e.doc = doc => e = x
  BY <1>1
<1>3. CASE Begun(old, new, x, loc, k)
  <2>1. x.positions = <<k>> /\ old \subseteq new
    BY <1>3 DEF Begun
  <2>2. ASSUME S # {} PROVE FALSE
    <3>1. PICK e \in old : e.doc = doc
      BY <2>2
    <3>2. e = x /\ Keeps(e.positions, S)
      BY <1>2, <2>1, <3>1
    <3>3. DOMAIN <<k>> = {1} /\ <<k>>[1] = k
      OBVIOUS
    <3>4. k + 1 \in S
      BY <2>1, <3>2, <3>3 DEF Keeps
    <3> QED BY <3>4
  <2>3. S \cup {k + 1} = {k + 1}
    BY <2>2
  <2> QED BY <1>2, <2>1, <2>3, KeepsFirst
<1>4. CASE Grown(old, x, doc, k)
  <2>1. PICK e \in old : e.doc = doc /\ x.positions = OneMore(e.positions, k)
    BY <1>4 DEF Grown
  <2>2. e.positions \in Seq(Nat) /\ Keeps(e.positions, S)
    BY <2>1 DEF Posting
  <2>3. PICK ps : ps = e.positions
    OBVIOUS
  <2>4. Keeps(OneMore(ps, k), S \cup {k + 1})
    BY <2>2, <2>3, KeepsOneMore
  <2> QED BY <1>2, <2>1, <2>3, <2>4
<1> QED BY <1>1, <1>3, <1>4

(* A posting more, and the lists say so. *)
LEMMA KeptStep ==
    ASSUME NEW g, NEW k \in Nat, g \in Seq(Seq(Terms)), Len(g) \in DOMAIN g,
           NEW m, NEW n, NEW own, NEW m2, NEW n2, NEW own2,
           NEW t, NEW doc, NEW loc, NEW pos, doc \in Nat /\ doc + 1 = Len(g),
           NextPosting(g, k, t, pos),
           KeptAll(m, n, own, g, k), Entered(m, n, own, g), EntriesTyped(m, n, own),
           Once(m2, n2, own2),
           OneEntryMore(m, n, own, m2, n2, own2, AllTerms, t, doc, loc, pos)
    PROVE  KeptAll(m2, n2, own2, g, k + 1)
<1> DEFINE old(s) == Entries(m, n, own, s)
           new(s) == Entries(m2, n2, own2, s)
           Good(s) == /\ \A e \in new(s) : KeptEntry(g, k + 1, s, e)
                      /\ \A j \in DOMAIN g : Placed(g, k + 1, j, s) # {} =>
                            \E e \in new(s) : e.doc = j - 1
<1>1. /\ EntryAdded(old(t), new(t), doc, loc, pos)
      /\ \A s \in AllTerms \ {t} : new(s) = old(s)
  BY DEF OneEntryMore
<1>2. /\ \A j \in DOMAIN g, s \in Terms :
            j # Len(g) \/ s # t => Placed(g, k + 1, j, s) = Placed(g, k, j, s)
      /\ t \in Terms => /\ pos = k
                        /\ Placed(g, k + 1, Len(g), t) = Placed(g, k, Len(g), t) \cup {k + 1}
      /\ \A s \in Terms : Placed(g, k, Len(g), s) \subseteq 1..k
  BY PlacedNext
<1>3. \A s \in Terms : \A e \in old(s) : /\ e.doc + 1 \in DOMAIN g /\ e \in Posting(Nat)
                                         /\ KeptEntry(g, k, s, e)
  BY DEF Entered, EntriesTyped, KeptAll, AllTerms
<1>4. \A s \in Terms : \A j \in DOMAIN g : Placed(g, k, j, s) # {} =>
                          \E e \in old(s) : e.doc = j - 1
  BY DEF KeptAll
<1>5. \A s \in AllTerms : \A e, f \in new(s) : e.doc = f.doc => e = f
  BY DEF Once
<1> HIDE DEF old, new
<1>6. ASSUME NEW s \in Terms, s # t PROVE Good(s)
  <2>1. new(s) = old(s)
    BY <1>1, <1>6 DEF AllTerms
  <2>2. \A j \in DOMAIN g : Placed(g, k + 1, j, s) = Placed(g, k, j, s)
    BY <1>2, <1>6
  <2>3. ASSUME NEW e \in new(s) PROVE KeptEntry(g, k + 1, s, e)
    BY <1>3, <2>1, <2>2 DEF KeptEntry
  <2>4. \A j \in DOMAIN g : Placed(g, k + 1, j, s) # {} => \E e \in new(s) : e.doc = j - 1
    BY <1>4, <2>1, <2>2
  <2> QED BY <2>3, <2>4
<1>7. ASSUME t \in Terms PROVE Good(t)
  <2>1. PICK S : S = Placed(g, k, Len(g), t)
    OBVIOUS
  <2>2. S \subseteq 1..k /\ Placed(g, k + 1, Len(g), t) = S \cup {k + 1} /\ pos = k
    BY <1>2, <1>7, <2>1
  <2>3. \A e \in old(t) : e.doc = doc => S # {} /\ Keeps(e.positions, S)
    BY <1>3, <1>7, <2>1 DEF KeptEntry
  <2>4. S # {} => \E e \in old(t) : e.doc = doc
    <3>1. Len(g) - 1 = doc
      OBVIOUS
    <3> QED BY <1>4, <1>7, <2>1, <3>1
  <2>5. PICK o, w : o = old(t) /\ w = new(t)
    OBVIOUS
  <2>6. \A e \in w : e.doc = doc => Keeps(e.positions, S \cup {k + 1})
    <3>1. /\ EntryAdded(o, w, doc, loc, k)
          /\ \A e \in o : e \in Posting(Nat) /\ (e.doc = doc => S # {} /\ Keeps(e.positions, S))
          /\ S # {} => \E e \in o : e.doc = doc
          /\ \A e, f \in w : e.doc = f.doc => e = f
      BY <1>1, <1>3, <1>5, <1>7, <2>2, <2>3, <2>4, <2>5 DEF AllTerms
    <3> QED BY <1>7, <2>2, <3>1, LastEntryKeeps
  <2>7. PICK x \in w : /\ x.doc = doc /\ w \subseteq o \cup {x}
                       /\ \A e \in o : e.doc # doc => e \in w
    BY <1>1, <2>5 DEF EntryAdded
  <2>8. ASSUME NEW e \in w PROVE KeptEntry(g, k + 1, t, e)
    <3>1. CASE e.doc = doc
      <4>1. e.doc + 1 = Len(g) /\ k + 1 \in S \cup {k + 1}
        BY <3>1
      <4>2. Placed(g, k + 1, e.doc + 1, t) = S \cup {k + 1}
        BY <2>2, <4>1
      <4> QED BY <2>6, <3>1, <4>1, <4>2 DEF KeptEntry
    <3>2. CASE e.doc # doc
      <4>1. e \in o
        BY <2>7, <3>2
      <4>2. e.doc + 1 \in DOMAIN g /\ e.doc \in Nat /\ KeptEntry(g, k, t, e)
        BY <1>3, <1>7, <2>5, <4>1 DEF Posting
      <4>3. e.doc + 1 # Len(g)
        BY <3>2, <4>2
      <4>4. Placed(g, k + 1, e.doc + 1, t) = Placed(g, k, e.doc + 1, t)
        BY <1>2, <1>7, <4>2, <4>3
      <4> QED BY <4>2, <4>4 DEF KeptEntry
    <3> QED BY <3>1, <3>2
  <2>9. ASSUME NEW j \in DOMAIN g, Placed(g, k + 1, j, t) # {} PROVE \E e \in w : e.doc = j - 1
    <3>1. CASE j = Len(g)
      <4>1. x.doc = j - 1
        BY <2>7, <3>1
      <4> QED BY <4>1
    <3>2. CASE j # Len(g)
      <4>1. Placed(g, k, j, t) # {}
        BY <1>2, <1>7, <2>9, <3>2
      <4>2. PICK e \in o : e.doc = j - 1
        BY <1>4, <1>7, <2>5, <4>1
      <4>3. j \in Nat
        OBVIOUS
      <4>4. e.doc # doc
        BY <3>2, <4>2, <4>3
      <4> QED BY <2>7, <4>2, <4>4
    <3> QED BY <3>1, <3>2
  <2> QED BY <2>5, <2>8, <2>9
<1>8. \A s \in Terms : Good(s)
  BY <1>6, <1>7
<1> QED BY <1>8 DEF KeptAll, old, new
-----------------------------------------------------------------------------
(***************************************************************************)
(* The loop over the terms of a document.                                  *)
(***************************************************************************)

(* With no more documents than a search can list, no list is cut. *)
LEMMA RoomForDocuments ==
    ASSUME NEW h, NEW m, NEW n, NEW own, NEW g, Len(g) \in Nat, DOMAIN g = 1..Len(g),
           ChainsOk(h, m, n, own), Entered(m, n, own, g), Len(g) <= MaxListed
    PROVE  RoomForAll(m, n)
<1> SUFFICES ASSUME NEW p \in PostingPages(m, n) PROVE TopOf(m[p].postings) <= MaxListed
  BY DEF RoomForAll
<1>1. own[p] \in AllTerms
  BY DEF ChainsOk, Allocated, Chained
<1>2. PICK s : s = m[p].postings
  OBVIOUS
<1>3. s \in Seq(Posting(Nat)) /\ s # <<>>
  BY <1>2 DEF ChainsOk, Filled
<1>4. Len(s) \in DOMAIN s
  BY <1>3
<1>5. s[Len(s)] \in Entries(m, n, own, own[p])
  BY <1>2, <1>4 DEF Entries, ToSet
<1>6. TopOf(s) \in DOMAIN g
  BY <1>1, <1>5 DEF Entered, TopOf
<1>7. TopOf(s) \in 1..Len(g) /\ MaxListed \in Nat
  BY <1>6, MaxListedAssumption
<1> QED BY <1>2, <1>7

(* A document has one entry in a chain, as in the list of it. *)
LEMMA ChainsListOnce ==
    ASSUME NEW h, NEW m, NEW n, NEW own, ChainsOk(h, m, n, own), RoomForAll(m, n)
    PROVE  Once(m, n, own)
<1> SUFFICES ASSUME NEW t, t \in AllTerms,
                    NEW e \in Entries(m, n, own, t), NEW f \in Entries(m, n, own, t), e.doc = f.doc
             PROVE  e = f
  BY DEF Once
<1>1. PICK s : s = GetPostings([head |-> h, pages |-> m, next_page_id |-> n], t)
  OBVIOUS
<1>2. PICK Locs : Locs = Nat
  OBVIOUS
<1>3. /\ Chained(h, m, n, own) /\ Ascending(m, n) /\ Filled(m, n, Locs)
      /\ t \in DOMAIN h /\ n \in Nat
  BY <1>2, Bounds DEF ChainsOk, Allocated
<1>4. /\ s \in Seq(Posting(Locs))
      /\ ToSet(s) = Entries(m, n, own, t)
      /\ \A i, j \in DOMAIN s : s[i].doc = s[j].doc => i = j
  BY <1>1, <1>3, GetPostingsListsEntries
<1>5. PICK i, j \in DOMAIN s : e = s[i] /\ f = s[j]
  BY <1>4 DEF ToSet
<1> QED BY <1>4, <1>5

AddInv(h, m, n, own, g, k) ==
    /\ ChainsOk(h, m, n, own) /\ Entered(m, n, own, g)
    /\ MaxDocs <= MaxListed => KeptAll(m, n, own, g, k)

(* The index after k postings, on pages below top. *)
StepInv(ix, g, k, top) ==
    \E h, m, n, own : /\ ix = [head |-> h, pages |-> m, next_page_id |-> n]
                      /\ n <= top /\ AddInv(h, m, n, own, g, k)

(* A posting keeps every entry in the documents given. *)
LEMMA EnteredStep ==
    ASSUME NEW m, NEW n, NEW own, NEW m2, NEW n2, NEW own2, NEW g, NEW t, NEW doc, NEW loc, NEW pos,
           t \in AllTerms, doc + 1 = Len(g), Len(g) \in DOMAIN g,
           Entered(m, n, own, g), OneEntryMore(m, n, own, m2, n2, own2, AllTerms, t, doc, loc, pos)
    PROVE  Entered(m2, n2, own2, g)
<1> SUFFICES ASSUME NEW s \in AllTerms, NEW e \in Entries(m2, n2, own2, s)
             PROVE  e.doc + 1 \in DOMAIN g
  BY DEF Entered
<1>1. CASE s # t
  BY <1>1 DEF Entered, OneEntryMore
<1>2. CASE s = t
  <2>1. PICK x : x.doc = doc /\ Entries(m2, n2, own2, t) \subseteq Entries(m, n, own, t) \cup {x}
    BY DEF OneEntryMore, EntryAdded
  <2>2. CASE e = x
    BY <2>1, <2>2
  <2>3. CASE e \in Entries(m, n, own, t)
    BY <2>3 DEF Entered
  <2> QED BY <1>2, <2>1, <2>2, <2>3
<1> QED BY <1>1, <1>2

LEMMA AddStep ==
    ASSUME NEW g, NEW k \in Nat, g \in Seq(Seq(Terms)), Len(g) \in DOMAIN g, Len(g) <= MaxDocs,
           NEW ix, NEW top \in Nat, StepInv(ix, g, k, top), top < MaxPages,
           NEW t, NEW doc, NEW pos, doc \in Nat /\ doc + 1 = Len(g),
           NextPosting(g, k, t, pos)
    PROVE  StepInv(AddPosting(ix, t, doc, doc, pos), g, k + 1, top + 1)
<1>1. PICK h, m, n, own : /\ ix = [head |-> h, pages |-> m, next_page_id |-> n]
                          /\ n <= top /\ AddInv(h, m, n, own, g, k)
  BY DEF StepInv
<1>2. /\ ChainsOk(h, m, n, own) /\ Entered(m, n, own, g)
      /\ MaxDocs <= MaxListed => KeptAll(m, n, own, g, k)
  BY <1>1 DEF AddInv
<1>3. n \in Nat /\ n < MaxPages
  BY <1>1, <1>2, Bounds DEF ChainsOk, Allocated
<1>4. t \in AllTerms /\ pos \in Nat
  BY DEF NextPosting, AllTerms
<1>5. Len(g) \in Nat /\ DOMAIN g = 1..Len(g)
  OBVIOUS
<1>6. EntriesTyped(m, n, own)
  BY <1>2, FilledIsTyped DEF ChainsOk
<1>7. NoLater(m, n, own, t, doc)
  <2> SUFFICES ASSUME NEW e \in Entries(m, n, own, t) PROVE e.doc <= doc
    BY DEF NoLater
  <2>1. e.doc + 1 \in 1..Len(g) /\ e \in Posting(Nat)
    BY <1>2, <1>4, <1>5, <1>6 DEF Entered, EntriesTyped
  <2>2. PICK d \in Nat : d = e.doc
    BY <2>1 DEF Posting
  <2> QED BY <2>1, <2>2
<1>8. PICK new : new = AddPosting([head |-> h, pages |-> m, next_page_id |-> n], t, doc, doc, pos)
  OBVIOUS
<1>9. Added(h, m, n, own, t, doc, pos, new)
  BY <1>2, <1>3, <1>4, <1>7, <1>8, PostingAdded
<1>10. PICK h2, m2, n2, own2 :
          /\ new = [head |-> h2, pages |-> m2, next_page_id |-> n2]
          /\ ChainsOk(h2, m2, n2, own2) /\ n2 <= n + 1
          /\ OneEntryMore(m, n, own, m2, n2, own2, AllTerms, t, doc, doc, pos)
  BY <1>9 DEF Added
<1>11. Entered(m2, n2, own2, g)
  BY <1>2, <1>4, <1>10, EnteredStep
<1>12. ASSUME MaxDocs <= MaxListed PROVE KeptAll(m2, n2, own2, g, k + 1)
  <2>1. Len(g) <= MaxListed
    BY <1>5, <1>12, MaxListedAssumption, BoundsAssumption
  <2>2. Once(m2, n2, own2)
    BY <1>5, <1>10, <1>11, <2>1, RoomForDocuments, ChainsListOnce
  <2>3. KeptAll(m, n, own, g, k)
    BY <1>2, <1>12
  <2>4. PICK loc : loc = doc
    OBVIOUS
  <2>5. OneEntryMore(m, n, own, m2, n2, own2, AllTerms, t, doc, loc, pos)
    BY <1>10, <2>4
  <2> QED BY <1>2, <1>6, <2>2, <2>3, <2>5, KeptStep
<1>13. AddInv(h2, m2, n2, own2, g, k + 1)
  BY <1>10, <1>11, <1>12 DEF AddInv
<1>14. n2 <= top + 1
  <2>1. n2 \in Nat
    BY <1>10, Bounds DEF ChainsOk, Allocated
  <2> QED BY <1>1, <1>3, <1>10, <2>1
<1>15. AddPosting(ix, t, doc, doc, pos) = new
  BY <1>1, <1>8
<1> QED BY <1>10, <1>13, <1>14, <1>15 DEF StepInv

(* The index after each posting of a document. *)
Adds(N, ix, text, doc, loc, f) ==
    f = [n \in 0..N |->
            IF n = 0 THEN ix
            ELSE LET t == TermToAdd(text, n)
                 IN  AddPosting(f[n - 1], t.term, doc, loc, t.pos)]

LEMMA AddsExist ==
    ASSUME NEW N \in Nat, NEW ix, NEW text, NEW doc, NEW loc
    PROVE  \E f : Adds(N, ix, text, doc, loc, f)
<1> DEFINE Row(n, x) == IF n = 0 THEN ix
                        ELSE LET t == TermToAdd(text, n)
                             IN  AddPosting(x, t.term, doc, loc, t.pos)
           Is(k, f) == f = [n \in 0..k |-> Row(n, f[n-1])]
           G == {k \in 0..N : \E f : Is(k, f)}
<1>0. \A f : Is(N, f) <=> Adds(N, ix, text, doc, loc, f)
  BY Zenon DEF Adds
<1> HIDE DEF Row
<1>1. 0 \in G
  <2> DEFINE f == [n \in 0..0 |-> ix]
  <2>1. \A x : Row(0, x) = ix
    BY DEF Row
  <2>2. f = [n \in 0..0 |-> Row(n, f[n-1])]
    BY <2>1
  <2> HIDE DEF f
  <2> QED BY <2>2
<1>2. ASSUME NEW k \in 1..N, k - 1 \in G PROVE k \in G
  <2>1. PICK g : Is(k - 1, g)
    BY <1>2
  <2> DEFINE f == [n \in 0..k |-> IF n = k THEN Row(k, g[k-1]) ELSE g[n]]
  <2>2. \A n \in 0..(k-1) : f[n] = g[n] /\ n \in 0..k
    OBVIOUS
  <2>3. \A n \in 0..(k-1) : g[n] = Row(n, g[n-1])
    BY <2>1
  <2>4. f[k] = Row(k, g[k-1]) /\ k # 0 /\ k - 1 \in 0..(k-1)
    OBVIOUS
  <2>5. f = [n \in 0..k |-> f[n]]
    OBVIOUS
  <2>6. Row(0, f[0-1]) = Row(0, g[0-1])
    BY DEF Row
  <2> HIDE DEF f
  <2>7. \A n \in 0..k : f[n] = Row(n, f[n-1])
    <3> TAKE n \in 0..k
    <3>1. CASE n = k
      BY <2>2, <2>4, <3>1
    <3>2. CASE n = 0
      BY <2>2, <2>3, <2>4, <2>6, <3>2
    <3>3. CASE n # k /\ n # 0
      <4>1. n \in 0..(k-1) /\ n - 1 \in 0..(k-1)
        BY <3>3
      <4> QED BY <2>2, <2>3, <4>1
    <3> QED BY <3>1, <3>2, <3>3
  <2>8. [n \in 0..k |-> f[n]] = [n \in 0..k |-> Row(n, f[n-1])]
    BY <2>7
  <2>9. Is(k, f)
    BY <2>5, <2>8, Zenon
  <2> QED BY <2>9
<1> HIDE DEF G
<1>3. \A k \in 0..N : k \in G
  BY <1>1, <1>2, FromTheStart
<1>4. \E f : Is(N, f)
  BY <1>3 DEF G
<1> QED BY <1>0, <1>4

(* AddPostings is where they lead. *)
LEMMA PostingsAreAdds ==
    ASSUME NEW ix, NEW text, Len(text) \in Nat, NEW doc, NEW loc
    PROVE  \E f : /\ Adds(Len(text) + 1, ix, text, doc, loc, f)
                  /\ AddPostings(ix, text, doc, loc) = f[Len(text) + 1]
<1>1. PICK N : N = Len(text) + 1
  OBVIOUS
<1>2. PICK f : f = CHOOSE g : Adds(N, ix, text, doc, loc, g)
  OBVIOUS
<1>3. Adds(N, ix, text, doc, loc, f)
  <2>1. N \in Nat
    BY <1>1
  <2>2. \E g : Adds(N, ix, text, doc, loc, g)
    BY <2>1, AddsExist
  <2> QED BY <1>2, <2>2, Zenon
<1>4. AddPostings(ix, text, doc, loc) = (CHOOSE g : Adds(Len(text) + 1, ix, text, doc, loc, g))[Len(text) + 1]
  BY Zenon DEF AddPostings, Adds
<1>5. AddPostings(ix, text, doc, loc) = f[N]
  BY <1>1, <1>2, <1>4
<1> QED BY <1>1, <1>3, <1>5

(* The postings of a document, one after another. *)
LEMMA AllPostings ==
    ASSUME NEW g, g \in Seq(Seq(Terms)), Len(g) \in DOMAIN g, Len(g) <= MaxDocs,
           NEW ix, NEW top \in Nat, StepInv(ix, g, 0, top),
           NEW text, text = g[Len(g)], top + Len(text) + 1 <= MaxPages,
           NEW doc, doc \in Nat /\ doc + 1 = Len(g)
    PROVE  StepInv(AddPostings(ix, text, doc, doc), g, Len(text) + 1, top + Len(text) + 1)
<1>1. text \in Seq(Terms) /\ Len(text) \in Nat /\ DOMAIN text = 1..Len(text)
  OBVIOUS
<1>2. PICK N \in Nat : N = Len(text) + 1 /\ top + N <= MaxPages
  BY <1>1
<1>3. PICK f : Adds(N, ix, text, doc, doc, f) /\ AddPostings(ix, text, doc, doc) = f[N]
  BY <1>1, <1>2, PostingsAreAdds
<1>4. f[0] = ix /\ \A n \in 1..N : f[n] = AddPosting(f[n - 1], TermToAdd(text, n).term, doc, doc,
                                                       TermToAdd(text, n).pos)
  <2>1. \A n \in 0..N : f[n] = IF n = 0 THEN ix
                              ELSE AddPosting(f[n - 1], TermToAdd(text, n).term, doc, doc,
                                              TermToAdd(text, n).pos)
    BY <1>3 DEF Adds
  <2>2. 0 \in 0..N /\ \A n \in 1..N : n \in 0..N /\ n # 0
    OBVIOUS
  <2> QED BY <2>1, <2>2
<1> DEFINE G == {k \in 0..N : StepInv(f[k], g, k, top + k)}
<1>5. 0 \in G
  BY <1>4
<1>6. ASSUME NEW n \in 1..N, n - 1 \in G PROVE n \in G
  <2>1. PICK k, p, t, pos :
           /\ k = n - 1 /\ p = top + k /\ k \in Nat /\ p \in Nat
           /\ t = TermToAdd(text, n).term /\ pos = TermToAdd(text, n).pos
    OBVIOUS
  <2>2. /\ StepInv(f[k], g, k, p) /\ k + 1 = n /\ p + 1 = top + n /\ p < MaxPages
        /\ k \in Nat /\ p \in Nat
    BY <1>2, <1>6, <2>1, BoundsAssumption
  <2>3. NextPosting(g, k, t, pos)
    <3>1. CASE n <= Len(text)
      <4>1. t = text[n] /\ pos = n - 1 /\ n \in DOMAIN text
        BY <1>1, <2>1, <3>1 DEF TermToAdd
      <4> QED BY <1>1, <2>1, <2>2, <4>1 DEF NextPosting
    <3>2. CASE ~(n <= Len(text))
      <4>1. t = AllDocs /\ pos = 0 /\ n \notin DOMAIN text
        BY <1>1, <2>1, <3>2 DEF TermToAdd
      <4> QED BY <1>1, <2>1, <2>2, <4>1 DEF NextPosting
    <3> QED BY <3>1, <3>2
  <2>4. PICK old : old = f[k]
    OBVIOUS
  <2>5. StepInv(AddPosting(old, t, doc, doc, pos), g, k + 1, p + 1)
    BY <2>2, <2>3, <2>4, AddStep
  <2>6. f[n] = AddPosting(old, t, doc, doc, pos)
    BY <1>4, <2>1, <2>4
  <2>7. StepInv(f[n], g, n, top + n)
    BY <2>2, <2>5, <2>6
  <2> QED BY <2>7
<1> HIDE DEF G
<1>7. \A k \in 0..N : k \in G
  BY <1>5, <1>6, FromTheStart
<1>8. StepInv(f[N], g, N, top + N)
  BY <1>7 DEF G
<1>9. top + N = top + Len(text) + 1
  BY <1>1, <1>2
<1> QED BY <1>2, <1>3, <1>8, <1>9
-----------------------------------------------------------------------------
(***************************************************************************)
(* The lexicon: every entry is of a word it was made for.                  *)
(***************************************************************************)

(* An id that looking up word v can give: its hash, or that of a word cut  *)
(* to it.                                                                  *)
IdFor(v, id) == \E x \in Words : (x = v \/ Stored[x] = v) /\ TermHash[x] = id

LexEntry ==
    {e \in [term : Words, term_id : Terms, document_frequency : Nat \ {0}] :
        \E x \in Words : Stored[x] = e.term /\ TermHash[x] = e.term_id}

Buckets  == 0..(NumBuckets - 1)
Lexicons == [Buckets -> Seq(LexEntry)]

LEMMA BucketOf == ASSUME NEW w \in Words PROVE Bucket(w) \in Buckets
<1>1. PICK a, b : a = TermHash[w] /\ b = NumBuckets
  OBVIOUS
<1>2. a \in Nat /\ b \in Nat \ {0}
  BY <1>1, TermHashAssumption, NumBucketsAssumption
<1>3. a % b \in 0..(b - 1)
  BY <1>2
<1> QED BY <1>1, <1>3 DEF Bucket, Buckets

LEMMA EmptyIsLexicon == EmptyLexicon \in Lexicons
  BY DEF EmptyLexicon, Lexicons, Buckets

(* The search of a bucket ends at an entry of the word, or there is none. *)
LEMMA EntryForIs ==
    ASSUME NEW lex \in Lexicons, NEW w \in Words, NEW s, s = lex[Bucket(w)],
           NEW at, at = EntryFor(lex, w)
    PROVE  /\ s \in Seq(LexEntry)
           /\ \/ at = 0
              \/ at \in DOMAIN s /\ at > 0 /\ s[at].term = w
<1>1. s \in Seq(LexEntry)
  BY BucketOf DEF Lexicons
<1> DEFINE I == {i \in 1..Len(s) : s[i].term = w}
<1>2. at = IF I # {} THEN Min(I) ELSE 0
  BY DEF EntryFor, SelectInSeq
<1>3. ASSUME I # {} PROVE Min(I) \in I
  <2>1. I \in SUBSET Nat
    OBVIOUS
  <2>2. \E i \in I : \A j \in I : i <= j
    <3> HIDE DEF I
    <3> QED BY <1>3, <2>1, LeastOne
  <2> HIDE DEF I
  <2> QED BY <2>2 DEF Min
<1>4. \A i \in I : i \in DOMAIN s /\ i > 0 /\ s[i].term = w
  BY <1>1
<1> HIDE DEF I
<1> QED BY <1>1, <1>2, <1>3, <1>4

(* The id a look-up gives, found or new. *)
LEMMA IdOfIs ==
    ASSUME NEW lex \in Lexicons, NEW w \in Words
    PROVE  IdOf(lex, w) \in Terms /\ IdFor(w, IdOf(lex, w))
<1>1. PICK s, at : s = lex[Bucket(w)] /\ at = EntryFor(lex, w)
  OBVIOUS
<1>2. s \in Seq(LexEntry) /\ (at = 0 \/ (at \in DOMAIN s /\ at > 0 /\ s[at].term = w))
  BY <1>1, EntryForIs
<1>3. CASE at \in DOMAIN s /\ at > 0 /\ s[at].term = w
  <2>1. s[at] \in LexEntry /\ IdOf(lex, w) = s[at].term_id
    BY <1>1, <1>2, <1>3 DEF IdOf
  <2> QED BY <1>3, <2>1 DEF LexEntry, IdFor
<1>4. CASE at = 0
  <2>1. IdOf(lex, w) = TermHash[w]
    BY <1>1, <1>4 DEF IdOf, NewTermId
  <2> QED BY <2>1, TermsAssumption DEF IdFor
<1> QED BY <1>2, <1>3, <1>4

(* An insertion makes a new entry, or counts on an old one. *)
LEMMA InsertedIs ==
    ASSUME NEW lex \in Lexicons, NEW w \in Words
    PROVE  Inserted(lex, w) \in Lexicons
<1>1. PICK b, s, at : b = Bucket(w) /\ s = lex[b] /\ at = EntryFor(lex, w)
  OBVIOUS
<1>2. /\ s \in Seq(LexEntry) /\ b \in Buckets
      /\ at = 0 \/ (at \in DOMAIN s /\ at > 0 /\ s[at].term = w)
  BY <1>1, BucketOf, EntryForIs
<1>3. \A r \in Seq(LexEntry) : [lex EXCEPT ![b] = r] \in Lexicons
  BY <1>2 DEF Lexicons
<1>4. CASE at > 0
  <2>1. PICK e, r : /\ e = [s[at] EXCEPT !.document_frequency = @ + 1]
                    /\ r = [s EXCEPT ![at] = e]
    OBVIOUS
  <2>2. s[at] \in LexEntry /\ at \in DOMAIN s
    BY <1>2, <1>4
  <2>3. e \in LexEntry
    BY <2>1, <2>2 DEF LexEntry
  <2>4. r \in Seq(LexEntry)
    BY <1>2, <2>1, <2>2, <2>3
  <2>5. Inserted(lex, w) = [lex EXCEPT ![b] = r]
    BY <1>1, <1>4, <2>1 DEF Inserted
  <2> QED BY <1>3, <2>4, <2>5
<1>5. CASE ~(at > 0)
  <2>1. PICK e, r : e = NewEntry(lex, w) /\ r = <<e>> \o s
    OBVIOUS
  <2>2. e \in LexEntry
    BY <2>1, TermsAssumption, StoredAssumption DEF NewEntry, NewTermId, LexEntry
  <2>3. r \in Seq(LexEntry)
    BY <1>2, <2>1, <2>2
  <2>4. Inserted(lex, w) = [lex EXCEPT ![b] = r]
    BY <1>1, <1>5, <2>1 DEF Inserted
  <2> QED BY <1>3, <2>3, <2>4
<1> QED BY <1>4, <1>5

(* The lexicon after each token of a text. *)
Inserts(N, lex, text, f) ==
    f = [n \in 0..N |-> IF n = 0 THEN lex ELSE Inserted(f[n - 1], text[n])]

LEMMA InsertsExist ==
    ASSUME NEW N \in Nat, NEW lex, NEW text
    PROVE  \E f : Inserts(N, lex, text, f)
<1> DEFINE Row(n, x) == IF n = 0 THEN lex ELSE Inserted(x, text[n])
           Is(k, f) == f = [n \in 0..k |-> Row(n, f[n-1])]
           G == {k \in 0..N : \E f : Is(k, f)}
<1>0. \A f : Is(N, f) <=> Inserts(N, lex, text, f)
  BY Zenon DEF Inserts
<1> HIDE DEF Row
<1>1. 0 \in G
  <2> DEFINE f == [n \in 0..0 |-> lex]
  <2>1. \A x : Row(0, x) = lex
    BY DEF Row
  <2>2. f = [n \in 0..0 |-> Row(n, f[n-1])]
    BY <2>1
  <2> HIDE DEF f
  <2> QED BY <2>2
<1>2. ASSUME NEW k \in 1..N, k - 1 \in G PROVE k \in G
  <2>1. PICK g : Is(k - 1, g)
    BY <1>2
  <2> DEFINE f == [n \in 0..k |-> IF n = k THEN Row(k, g[k-1]) ELSE g[n]]
  <2>2. \A n \in 0..(k-1) : f[n] = g[n] /\ n \in 0..k
    OBVIOUS
  <2>3. \A n \in 0..(k-1) : g[n] = Row(n, g[n-1])
    BY <2>1
  <2>4. f[k] = Row(k, g[k-1]) /\ k # 0 /\ k - 1 \in 0..(k-1)
    OBVIOUS
  <2>5. f = [n \in 0..k |-> f[n]]
    OBVIOUS
  <2>6. Row(0, f[0-1]) = Row(0, g[0-1])
    BY DEF Row
  <2> HIDE DEF f
  <2>7. \A n \in 0..k : f[n] = Row(n, f[n-1])
    <3> TAKE n \in 0..k
    <3>1. CASE n = k
      BY <2>2, <2>4, <3>1
    <3>2. CASE n = 0
      BY <2>2, <2>3, <2>4, <2>6, <3>2
    <3>3. CASE n # k /\ n # 0
      <4>1. n \in 0..(k-1) /\ n - 1 \in 0..(k-1)
        BY <3>3
      <4> QED BY <2>2, <2>3, <4>1
    <3> QED BY <3>1, <3>2, <3>3
  <2>8. [n \in 0..k |-> f[n]] = [n \in 0..k |-> Row(n, f[n-1])]
    BY <2>7
  <2>9. Is(k, f)
    BY <2>5, <2>8, Zenon
  <2> QED BY <2>9
<1> HIDE DEF G
<1>3. \A k \in 0..N : k \in G
  BY <1>1, <1>2, FromTheStart
<1>4. \E f : Is(N, f)
  BY <1>3 DEF G
<1> QED BY <1>0, <1>4

(* A lexicon stays one, whatever text is looked up. *)
LEMMA AllInsertedIs ==
    ASSUME NEW lex \in Lexicons, NEW text \in Seq(Words)
    PROVE  AllInserted(lex, text) \in Lexicons
<1>1. PICK N \in Nat : N = Len(text) /\ \A n \in 1..N : text[n] \in Words
  OBVIOUS
<1>2. PICK f : f = CHOOSE g : Inserts(N, lex, text, g)
  OBVIOUS
<1>3. Inserts(N, lex, text, f)
  <2>1. \E g : Inserts(N, lex, text, g)
    BY InsertsExist
  <2> QED BY <1>2, <2>1, Zenon
<1>4. AllInserted(lex, text) = (CHOOSE g : Inserts(Len(text), lex, text, g))[Len(text)]
  BY Zenon DEF AllInserted, Inserts
<1>5. \A n \in 0..N : f[n] = IF n = 0 THEN lex ELSE Inserted(f[n - 1], text[n])
  BY <1>3 DEF Inserts
<1> DEFINE G == {n \in 0..N : f[n] \in Lexicons}
<1>6. 0 \in G
  BY <1>5
<1>7. ASSUME NEW n \in 1..N, n - 1 \in G PROVE n \in G
  <2>1. n \in 0..N /\ n # 0 /\ text[n] \in Words
    BY <1>1
  <2>2. PICK old, w : old = f[n - 1] /\ w = text[n]
    OBVIOUS
  <2>3. old \in Lexicons /\ w \in Words /\ f[n] = Inserted(old, w)
    BY <1>5, <1>7, <2>1, <2>2
  <2>4. f[n] \in Lexicons
    BY <2>3, InsertedIs
  <2> QED BY <2>1, <2>4
<1> HIDE DEF G
<1>8. \A n \in 0..N : n \in G
  BY <1>6, <1>7, FromTheStart
<1> QED BY <1>1, <1>2, <1>4, <1>8 DEF G

(* The ids of a text, each an id that its word can give. *)
IdsOf(words, ids) ==
    /\ words \in Seq(Words) /\ ids \in Seq(Terms)
    /\ Len(ids) = Len(words) /\ \A n \in DOMAIN words : IdFor(words[n], ids[n])

LEMMA TermIdsAre ==
    ASSUME NEW lex \in Lexicons, NEW text \in Seq(Words)
    PROVE  IdsOf(text, TermIds(lex, text))
<1>0. PICK ids, N : ids = TermIds(lex, text) /\ N = Len(text)
  OBVIOUS
<1>1. /\ DOMAIN ids = DOMAIN text /\ ids = [n \in DOMAIN ids |-> ids[n]]
      /\ \A n \in DOMAIN text :
            ids[n] = IdOf(AllInserted(lex, SubSeq(text, 1, n - 1)), text[n])
  <2>1. ids = [n \in DOMAIN text |-> IdOf(AllInserted(lex, SubSeq(text, 1, n - 1)), text[n])]
    BY <1>0 DEF TermIds
  <2> QED BY <2>1, Zenon
<1>2. N \in Nat /\ DOMAIN text = 1..N /\ \A n \in 1..N : text[n] \in Words
  BY <1>0
<1>3. ASSUME NEW n \in 1..N PROVE ids[n] \in Terms /\ IdFor(text[n], ids[n])
  <2>1. PICK before, w : before = SubSeq(text, 1, n - 1) /\ w = text[n]
    OBVIOUS
  <2>2. before \in Seq(Words) /\ w \in Words
    BY <1>2, <2>1
  <2>3. PICK old : old = AllInserted(lex, before)
    OBVIOUS
  <2>4. old \in Lexicons
    BY <2>2, <2>3, AllInsertedIs
  <2>5. ids[n] = IdOf(old, w)
    BY <1>1, <1>2, <2>1, <2>3
  <2> QED BY <2>1, <2>2, <2>4, <2>5, IdOfIs
<1>4. ids = [n \in 1..N |-> ids[n]]
  BY <1>1, <1>2
<1>5. ids \in [1..N -> Terms]
  BY <1>3, <1>4
<1>6. ids \in Seq(Terms) /\ Len(ids) = N
  BY <1>2, <1>5
<1> QED BY <1>0, <1>2, <1>3, <1>6 DEF IdsOf
-----------------------------------------------------------------------------
(***************************************************************************)
(* The inductive invariant: the index is what the documents made of it,    *)
(* and their ids are ids of their words, whichever lexicon gave them.      *)
(***************************************************************************)

Document == [words : Texts, ids : Seq(Terms)]
AllIds(d) == [j \in DOMAIN d |-> d[j].ids]

DocsOk(d) == /\ d \in Seq(Document) /\ Len(d) <= MaxDocs
             /\ \A j \in DOMAIN d : IdsOf(d[j].words, d[j].ids)

(* No document is under way. *)
LastDone(g, k) == g # <<>> => \A i \in DOMAIN g[Len(g)] : i <= k

IndexOk(ix, g) == \E k \in Nat : StepInv(ix, g, k, ix.next_page_id) /\ LastDone(g, k)

IInv == /\ DocsOk(docs) /\ lexicon \in Lexicons
        /\ IndexOk(index, AllIds(docs))

LEMMA AllIdsAre ==
    ASSUME NEW d \in Seq(Document)
    PROVE  /\ AllIds(d) \in Seq(Seq(Terms)) /\ Len(AllIds(d)) = Len(d)
           /\ DOMAIN AllIds(d) = 1..Len(d) /\ Len(d) \in Nat
           /\ \A j \in 1..Len(d) : AllIds(d)[j] = d[j].ids
<1>1. PICK N \in Nat : N = Len(d) /\ DOMAIN d = 1..N /\ \A j \in 1..N : d[j] \in Document
  OBVIOUS
<1>2. PICK g : g = AllIds(d)
  OBVIOUS
<1>3. g = [j \in 1..N |-> d[j].ids]
  BY <1>1, <1>2 DEF AllIds
<1>4. \A j \in 1..N : d[j].ids \in Seq(Terms)
  BY <1>1 DEF Document
<1>5. g \in [1..N -> Seq(Terms)]
  BY <1>3, <1>4
<1>6. g \in Seq(Seq(Terms)) /\ Len(g) = N
  BY <1>5
<1> QED BY <1>1, <1>2, <1>3, <1>6

LEMMA AllIdsAppended ==
    ASSUME NEW d \in Seq(Document), NEW e \in Document
    PROVE  AllIds(Append(d, e)) = Append(AllIds(d), e.ids)
<1>1. PICK N, x, g : /\ N = Len(d) + 1 /\ x = Append(d, e) /\ g = AllIds(d)
  OBVIOUS
<1>2. /\ N \in Nat /\ DOMAIN x = 1..N /\ x[N] = e /\ \A j \in 1..(N - 1) : x[j] = d[j]
      /\ N - 1 = Len(d)
  BY <1>1
<1>3. g \in Seq(Seq(Terms)) /\ Len(g) = N - 1 /\ \A j \in 1..(N - 1) : g[j] = d[j].ids
  BY <1>1, <1>2, AllIdsAre
<1>4. PICK a, b : a = AllIds(x) /\ b = Append(g, e.ids)
  OBVIOUS
<1>5. a = [j \in 1..N |-> x[j].ids]
  BY <1>2, <1>4 DEF AllIds
<1>6. b = [j \in 1..N |-> IF j = N THEN e.ids ELSE g[j]]
  BY <1>2, <1>3, <1>4
<1>7. \A j \in 1..N : x[j].ids = IF j = N THEN e.ids ELSE g[j]
  <2>1. \A j \in 1..N : j # N => j \in 1..(N - 1)
    BY <1>2
  <2> QED BY <1>2, <1>3, <2>1
<1>8. a = b
  BY <1>5, <1>6, <1>7
<1> QED BY <1>1, <1>4, <1>8

(* An empty index has no postings, and no document needs any. *)
LEMMA EmptyIndex ==
    ASSUME NEW ix,
           ix = [head  |-> [t \in AllTerms |-> NoPage],
                 pages |-> [p \in 0..(MaxPages - 1) |-> ZeroPage],
                 next_page_id |-> FirstFree]
    PROVE  StepInv(ix, <<>>, 0, FirstFree)
<1>1. PICK h, m, n, own : /\ h = [t \in AllTerms |-> NoPage]
                          /\ m = [p \in 0..(MaxPages - 1) |-> ZeroPage]
                          /\ n = FirstFree /\ own = <<>>
  OBVIOUS
<1>2. /\ n \in FirstFree..MaxPages /\ n <= FirstFree /\ FirstFree..(n - 1) = {}
      /\ NoPage \in Int
  BY <1>1, Bounds
<1>3. /\ DOMAIN h = AllTerms /\ h \in [AllTerms -> Int] /\ \A t \in AllTerms : h[t] = NoPage
      /\ DOMAIN m = 0..(MaxPages - 1) /\ \A p \in DOMAIN m : m[p].kind # "posting"
  BY <1>1, <1>2 DEF ZeroPage
<1>4. PostingPages(m, n) = {}
  BY <1>2 DEF PostingPages
<1>5. \A t : Entries(m, n, own, t) = {}
  BY <1>4 DEF Entries
<1>6. ChainsOk(h, m, n, own)
  <2>1. Allocated(h, m, n)
    BY <1>2, <1>3, <1>4 DEF Allocated
  <2> QED BY <1>3, <1>4, <2>1 DEF ChainsOk, HeadsFree, Chained, Ascending, Filled
<1>7. Entered(m, n, own, <<>>) /\ KeptAll(m, n, own, <<>>, 0)
  <2>1. DOMAIN <<>> = {}
    OBVIOUS
  <2> QED BY <1>5, <2>1 DEF Entered, KeptAll
<1>8. AddInv(h, m, n, own, <<>>, 0)
  BY <1>6, <1>7 DEF AddInv
<1>9. ix = [head |-> h, pages |-> m, next_page_id |-> n]
  BY <1>1
<1> QED BY <1>2, <1>8, <1>9 DEF StepInv

(* A document that begins has no place yet. *)
LEMMA NextDocument ==
    ASSUME NEW g, g \in Seq(Seq(Terms)), NEW k \in Nat, NEW ix, NEW top,
           StepInv(ix, g, k, top), LastDone(g, k), NEW text, text \in Seq(Terms)
    PROVE  StepInv(ix, Append(g, text), 0, top)
<1>1. PICK h, m, n, own : /\ ix = [head |-> h, pages |-> m, next_page_id |-> n]
                          /\ n <= top /\ AddInv(h, m, n, own, g, k)
  BY DEF StepInv
<1>2. /\ ChainsOk(h, m, n, own) /\ Entered(m, n, own, g)
      /\ MaxDocs <= MaxListed => KeptAll(m, n, own, g, k)
  BY <1>1 DEF AddInv
<1>3. PICK N, g2 : N = Len(g) /\ g2 = Append(g, text)
  OBVIOUS
<1>4. /\ N \in Nat /\ DOMAIN g = 1..N /\ DOMAIN g2 = 1..(N + 1) /\ Len(g2) = N + 1
      /\ g2[N + 1] = text /\ \A j \in 1..N : g2[j] = g[j] /\ j # N + 1 /\ j \in 1..(N + 1)
  BY <1>3
<1>5. DOMAIN text \subseteq Nat \ {0}
  OBVIOUS
<1>6. ASSUME NEW j \in 1..N, NEW t PROVE Placed(g2, 0, j, t) = Placed(g, k, j, t)
  <2>1. Placed(g2, 0, j, t) = {i \in DOMAIN g[j] : g[j][i] = t}
    BY <1>4 DEF Placed
  <2>2. \A i \in DOMAIN g[j] : j = Len(g) => i <= k
    BY <1>4 DEF LastDone
  <2>3. Placed(g, k, j, t) = {i \in DOMAIN g[j] : g[j][i] = t}
    BY <2>2 DEF Placed
  <2> QED BY <2>1, <2>3
<1>7. \A t : Placed(g2, 0, N + 1, t) = {}
  <2>1. \A i \in DOMAIN text : ~(i <= 0)
    BY <1>5
  <2> QED BY <1>4, <2>1 DEF Placed
<1>8. Entered(m, n, own, g2)
  BY <1>2, <1>4 DEF Entered
<1>9. ASSUME KeptAll(m, n, own, g, k) PROVE KeptAll(m, n, own, g2, 0)
  <2> SUFFICES ASSUME NEW t \in Terms
               PROVE  /\ \A e \in Entries(m, n, own, t) : KeptEntry(g2, 0, t, e)
                      /\ \A j \in DOMAIN g2 : Placed(g2, 0, j, t) # {} =>
                            \E e \in Entries(m, n, own, t) : e.doc = j - 1
    BY DEF KeptAll
  <2>1. ASSUME NEW e \in Entries(m, n, own, t) PROVE KeptEntry(g2, 0, t, e)
    <3>1. KeptEntry(g, k, t, e) /\ e.doc + 1 \in 1..N
      BY <1>2, <1>4, <1>9 DEF KeptAll, Entered, AllTerms
    <3> QED BY <1>6, <3>1 DEF KeptEntry
  <2>2. ASSUME NEW j \in DOMAIN g2, Placed(g2, 0, j, t) # {}
        PROVE  \E e \in Entries(m, n, own, t) : e.doc = j - 1
    <3>1. j \in 1..N
      BY <1>4, <1>7, <2>2
    <3>2. Placed(g, k, j, t) # {} /\ j \in DOMAIN g
      BY <1>4, <1>6, <2>2, <3>1
    <3> QED BY <1>9, <3>2 DEF KeptAll
  <2> QED BY <2>1, <2>2
<1>10. AddInv(h, m, n, own, g2, 0)
  BY <1>2, <1>8, <1>9 DEF AddInv
<1> QED BY <1>1, <1>3, <1>10 DEF StepInv

LEMMA PagesUsed ==
    ASSUME NEW ix, NEW g, NEW k, NEW top, StepInv(ix, g, k, top)
    PROVE  ix.next_page_id \in Nat /\ StepInv(ix, g, k, ix.next_page_id)
<1>1. PICK h, m, n, own : /\ ix = [head |-> h, pages |-> m, next_page_id |-> n]
                          /\ AddInv(h, m, n, own, g, k)
  BY DEF StepInv
<1>2. ix.next_page_id = n
  BY <1>1
<1>3. n \in Nat
  BY <1>1, Bounds DEF AddInv, ChainsOk, Allocated
<1>4. StepInv(ix, g, k, n)
  <2>1. n <= n
    BY <1>3
  <2> QED BY <1>1, <2>1 DEF StepInv
<1> QED BY <1>2, <1>3, <1>4

(* The index of one document more. *)
LEMMA IndexOkNext ==
    ASSUME NEW g, g \in Seq(Seq(Terms)), NEW ix, IndexOk(ix, g),
           NEW text, text \in Seq(Terms), NEW doc, doc = Len(g),
           Len(g) < MaxDocs, ix.next_page_id + Len(text) + 1 <= MaxPages
    PROVE  IndexOk(AddPostings(ix, text, doc, doc), Append(g, text))
<1>1. PICK k \in Nat : StepInv(ix, g, k, ix.next_page_id) /\ LastDone(g, k)
  BY DEF IndexOk
<1>2. PICK N, g2, top : N = Len(text) /\ g2 = Append(g, text) /\ top = ix.next_page_id
  OBVIOUS
<1>3. N \in Nat /\ Len(text) = N /\ DOMAIN text = 1..N /\ doc \in Nat
  BY <1>2
<1>4. /\ g2 \in Seq(Seq(Terms)) /\ Len(g2) \in DOMAIN g2 /\ Len(g2) = doc + 1
      /\ text = g2[Len(g2)] /\ Len(g2) <= MaxDocs
  <2>1. g2 \in Seq(Seq(Terms)) /\ Len(g2) = Len(g) + 1 /\ DOMAIN g2 = 1..Len(g2) /\ g2[Len(g) + 1] = text
    BY <1>2
  <2> QED BY <1>3, <2>1, BoundsAssumption
<1>5. StepInv(ix, g2, 0, top) /\ top \in Nat /\ top + Len(text) + 1 <= MaxPages
  BY <1>1, <1>2, NextDocument, PagesUsed
<1>6. PICK new : new = AddPostings(ix, text, doc, doc)
  OBVIOUS
<1>7. StepInv(new, g2, N + 1, top + N + 1)
  <2>1. StepInv(AddPostings(ix, text, doc, doc), g2, Len(text) + 1, top + Len(text) + 1)
    BY <1>3, <1>4, <1>5, AllPostings
  <2> QED BY <1>2, <1>6, <2>1
<1>8. StepInv(new, g2, N + 1, new.next_page_id)
  BY <1>7, PagesUsed
<1>9. LastDone(g2, N + 1)
  <2>1. \A i \in 1..N : i <= N + 1
    BY <1>3
  <2> QED BY <1>3, <1>4, <2>1 DEF LastDone
<1>10. N + 1 \in Nat
  BY <1>3
<1> QED BY <1>2, <1>6, <1>8, <1>9, <1>10 DEF IndexOk

LEMMA IInvInit == Init => IInv
<1> SUFFICES ASSUME Init PROVE IInv
  OBVIOUS
<1>1. docs \in Seq(Document) /\ Len(docs) = 0 /\ DOMAIN docs = {} /\ docs = <<>>
  BY DEF Init
<1>2. DocsOk(docs)
  BY <1>1, BoundsAssumption DEF DocsOk
<1>3. AllIds(docs) = <<>>
  <2>1. AllIds(docs) \in Seq(Seq(Terms)) /\ Len(AllIds(docs)) = 0
    BY <1>1, AllIdsAre
  <2> QED BY <2>1
<1>4. index.next_page_id = FirstFree /\ StepInv(index, <<>>, 0, FirstFree)
  <2>1. index = [head  |-> [t \in AllTerms |-> NoPage],
                 pages |-> [p \in 0..(MaxPages - 1) |-> ZeroPage],
                 next_page_id |-> FirstFree]
    BY DEF Init, AllTerms
  <2> QED BY <2>1, EmptyIndex
<1>5. IndexOk(index, AllIds(docs))
  <2>1. 0 \in Nat /\ LastDone(<<>>, 0)
    BY DEF LastDone
  <2> QED BY <1>3, <1>4, <2>1 DEF IndexOk
<1> QED BY <1>2, <1>5, EmptyIsLexicon DEF IInv, Init

LEMMA IInvAddDocument ==
    ASSUME IInv, NEW text \in Texts, AddDocument(text)
    PROVE  IInv'
<1>1. PICK g, ids, e : /\ g = AllIds(docs) /\ ids = TermIds(lexicon, text)
                       /\ e = [words |-> text, ids |-> ids]
  OBVIOUS
<1>2. /\ docs \in Seq(Document) /\ Len(docs) < MaxDocs
      /\ \A j \in DOMAIN docs : IdsOf(docs[j].words, docs[j].ids)
      /\ lexicon \in Lexicons /\ IndexOk(index, g)
  BY <1>1 DEF IInv, DocsOk, AddDocument
<1>3. text \in Seq(Words)
  BY TextsAssumption
<1>4. IdsOf(text, ids) /\ ids \in Seq(Terms) /\ e \in Document
  <2>1. IdsOf(text, ids)
    BY <1>1, <1>2, <1>3, TermIdsAre
  <2> QED BY <1>1, <2>1 DEF IdsOf, Document
<1>5. /\ docs' = Append(docs, e) /\ index' = AddPostings(index, ids, Len(docs), Len(docs))
      /\ lexicon' = AllInserted(lexicon, text) /\ index.next_page_id + Len(text) + 1 <= MaxPages
  BY <1>1 DEF AddDocument
<1>6. DocsOk(docs')
  <2>1. PICK N, x : N = Len(docs) /\ x = Append(docs, e)
    OBVIOUS
  <2>2. /\ N \in Nat /\ x \in Seq(Document) /\ Len(x) = N + 1 /\ DOMAIN x = 1..(N + 1)
        /\ x[N + 1] = e /\ DOMAIN docs = 1..N /\ \A j \in 1..N : x[j] = docs[j]
    BY <1>2, <1>4, <2>1
  <2>3. \A j \in 1..(N + 1) : j \in 1..N \/ j = N + 1
    BY <2>2
  <2>4. e.words = text /\ e.ids = ids
    BY <1>1
  <2>5. \A j \in DOMAIN x : IdsOf(x[j].words, x[j].ids)
    BY <1>2, <1>4, <2>2, <2>3, <2>4
  <2>6. Len(x) <= MaxDocs
    BY <1>2, <2>1, <2>2, BoundsAssumption
  <2> QED BY <1>5, <2>1, <2>2, <2>5, <2>6 DEF DocsOk
<1>7. lexicon' \in Lexicons
  BY <1>2, <1>3, <1>5, AllInsertedIs
<1>8. IndexOk(index', AllIds(docs'))
  <2>1. g \in Seq(Seq(Terms)) /\ Len(g) = Len(docs) /\ Len(g) < MaxDocs
    BY <1>1, <1>2, AllIdsAre
  <2>2. Len(ids) = Len(text)
    BY <1>4 DEF IdsOf
  <2>3. PICK ix, doc, d : ix = index /\ doc = Len(g) /\ d = docs
    OBVIOUS
  <2>4. IndexOk(AddPostings(ix, ids, doc, doc), Append(g, ids))
    <3>1. IndexOk(ix, g) /\ ix.next_page_id + Len(ids) + 1 <= MaxPages
      BY <1>2, <1>5, <2>2, <2>3
    <3> QED BY <1>4, <2>1, <2>3, <3>1, IndexOkNext
  <2>5. AllIds(Append(d, e)) = Append(g, ids)
    <3>1. AllIds(Append(d, e)) = Append(AllIds(d), e.ids)
      BY <1>2, <1>4, <2>3, AllIdsAppended
    <3> QED BY <1>1, <2>3, <3>1
  <2> QED BY <1>5, <2>1, <2>3, <2>4, <2>5
<1> QED BY <1>6, <1>7, <1>8 DEF IInv

LEMMA IInvStep == IInv /\ [Next]_vars => IInv'
<1> SUFFICES ASSUME IInv, [Next]_vars PROVE IInv'
  OBVIOUS
<1>1. CASE \E text \in Texts : AddDocument(text)
  BY <1>1, IInvAddDocument
<1>2. ASSUME NEW text \in Queries, Query(text) PROVE IInv'
  <2>1. text \in Seq(Words)
    BY TextsAssumption
  <2>2. lexicon' \in Lexicons
    BY <1>2, <2>1, AllInsertedIs DEF Query, IInv
  <2> QED BY <1>2, <2>2 DEF Query, IInv
<1>3. CASE Restart
  BY <1>3, EmptyIsLexicon DEF Restart, IInv
<1>4. CASE UNCHANGED vars
  BY <1>4 DEF vars, IInv
<1> QED BY <1>1, <1>2, <1>3, <1>4 DEF Next

LEMMA IInvHolds == Spec => []IInv
  BY IInvInit, IInvStep, PTL DEF Spec
-----------------------------------------------------------------------------
(***************************************************************************)
(* What the invariant says of searches.                                    *)
(***************************************************************************)

(* The pages of an index, and what their entries name. *)
LEMMA IndexTyped ==
    ASSUME NEW ix, NEW g, IndexOk(ix, g)
    PROVE  /\ ix.next_page_id \in FirstFree..MaxPages
           /\ ix.head \in [AllTerms -> (FirstFree..(ix.next_page_id - 1)) \cup {NoPage}]
           /\ \A p \in DOMAIN ix.pages :
                /\ ix.pages[p].kind = "posting" <=> p \in FirstFree..(ix.next_page_id - 1)
                /\ ix.pages[p].kind = "posting" =>
                     /\ Len(ix.pages[p].postings) \in 1..MaxPostings
                     /\ ix.pages[p].next \in (FirstFree..(p - 1)) \cup {NoPage}
<1>1. PICK h, m, n, own : /\ ix = [head |-> h, pages |-> m, next_page_id |-> n]
                          /\ ChainsOk(h, m, n, own)
  BY DEF IndexOk, StepInv, AddInv
<1>2. ix.head = h /\ ix.pages = m /\ ix.next_page_id = n
  BY <1>1
<1>3. /\ h \in [AllTerms -> Int] /\ n \in FirstFree..MaxPages
      /\ \A p \in DOMAIN m : m[p].kind = "posting" <=> p \in FirstFree..(n - 1)
      /\ \A p \in PostingPages(m, n) : Len(m[p].postings) <= MaxPostings
      /\ Chained(h, m, n, own) /\ Filled(m, n, Nat)
  BY <1>1 DEF ChainsOk, Allocated
<1>4. \A t \in AllTerms : h[t] \in (FirstFree..(n - 1)) \cup {NoPage}
  <2>1. DOMAIN h = AllTerms
    BY <1>3
  <2> QED BY <1>3, <2>1 DEF Chained, PostingPages
<1>5. ASSUME NEW p \in DOMAIN m, m[p].kind = "posting"
      PROVE  Len(m[p].postings) \in 1..MaxPostings /\ m[p].next \in (FirstFree..(p - 1)) \cup {NoPage}
  <2>1. p \in FirstFree..(n - 1) /\ p \in PostingPages(m, n)
    BY <1>3, <1>5 DEF PostingPages
  <2>2. PICK s, b : s = m[p].postings /\ b = m[p].next
    OBVIOUS
  <2>3. s \in Seq(Posting(Nat)) /\ s # <<>> /\ Len(s) <= MaxPostings
    BY <1>3, <2>1, <2>2 DEF Filled
  <2>4. Len(s) \in 1..MaxPostings
    BY <2>3, Bounds
  <2>5. b # NoPage => b \in FirstFree..(n - 1) /\ b < p
    BY <1>3, <2>1, <2>2 DEF Chained, PostingPages
  <2>6. b \in (FirstFree..(p - 1)) \cup {NoPage}
    <3>1. n \in Nat /\ FirstFree \in Nat
      BY <1>3, Bounds
    <3> QED BY <2>1, <2>5, <3>1
  <2> QED BY <2>2, <2>4, <2>6
<1>6. h \in [AllTerms -> (FirstFree..(n - 1)) \cup {NoPage}]
  BY <1>3, <1>4
<1> QED BY <1>2, <1>3, <1>5, <1>6

LEMMA IInvTyped == IInv => TypeOK
<1> SUFFICES ASSUME IInv PROVE TypeOK
  OBVIOUS
<1>1. /\ docs \in Seq(Document) /\ lexicon \in Lexicons /\ IndexOk(index, AllIds(docs))
  BY DEF IInv, DocsOk
<1>2. \A d \in DocIds : Text(d) \in Seq(Terms) /\ docs[d + 1].words \in Texts
  <2>1. PICK N \in Nat : N = Len(docs) /\ \A j \in 1..N : docs[j] \in Document
    BY <1>1
  <2>2. \A d \in 0..(N - 1) : d + 1 \in 1..N
    BY <2>1
  <2>3. \A d \in 0..(N - 1) : docs[d + 1] \in Document
    BY <2>1, <2>2
  <2> QED BY <2>1, <2>3 DEF DocIds, Text, Document
<1>3. \A b \in DOMAIN lexicon : \A i \in DOMAIN lexicon[b] :
         lexicon[b][i].term_id \in Terms /\ lexicon[b][i].document_frequency \in Nat \ {0}
  <2>1. \A b \in DOMAIN lexicon : lexicon[b] \in Seq(LexEntry)
    BY <1>1 DEF Lexicons
  <2>2. \A b \in DOMAIN lexicon : \A i \in DOMAIN lexicon[b] : lexicon[b][i] \in LexEntry
    BY <2>1
  <2> QED BY <2>2 DEF LexEntry
<1>4. /\ index.next_page_id \in FirstFree..MaxPages
      /\ index.head \in [AllTerms -> (FirstFree..(index.next_page_id - 1)) \cup {NoPage}]
      /\ \A p \in DOMAIN index.pages :
           /\ index.pages[p].kind = "posting" <=> p \in FirstFree..(index.next_page_id - 1)
           /\ index.pages[p].kind = "posting" =>
                /\ Len(index.pages[p].postings) \in 1..MaxPostings
                /\ index.pages[p].next \in (FirstFree..(p - 1)) \cup {NoPage}
  <2>1. PICK ix, g : ix = index /\ g = AllIds(docs)
    OBVIOUS
  <2>2. IndexOk(ix, g)
    BY <1>1, <2>1
  <2> QED BY <2>1, <2>2, IndexTyped
<1> QED BY <1>2, <1>3, <1>4 DEF TypeOK, AllTerms

(* TypeOK holds in every state: python_insert_document, ftsFilter's        *)
(* look-ups and a restart leave every variable in its domain, and the page *)
(* chains that inverted_index_add_posting extends stay chains of filled    *)
(* pages, each linked to an older one.                                     *)
THEOREM TypeCorrect == Spec => []TypeOK
  BY IInvHolds, IInvTyped, PTL

(* What the list of a term says of documents of which g are the ids.       *)
ListOf(s, g, t) ==
    /\ s \in Seq(Posting(Nat))
    /\ \A i, j \in DOMAIN s : s[i].doc = s[j].doc => i = j
    /\ \A i \in DOMAIN s :
          LET places == {n \in DOMAIN g[s[i].doc + 1] : g[s[i].doc + 1][n] = t}
          IN  /\ s[i].doc + 1 \in DOMAIN g /\ places # {}
              /\ Keeps(s[i].positions, places)
    /\ \A j \in DOMAIN g : {n \in DOMAIN g[j] : g[j][n] = t} # {} =>
          \E i \in DOMAIN s : s[i].doc = j - 1

LEMMA IndexLists ==
    ASSUME NEW ix, NEW g, g \in Seq(Seq(Terms)), IndexOk(ix, g),
           Len(g) <= MaxDocs, MaxDocs <= MaxListed, NEW t \in Terms,
           NEW s, s = GetPostings(ix, t)
    PROVE  ListOf(s, g, t)
<1>1. PICK k \in Nat : StepInv(ix, g, k, ix.next_page_id) /\ LastDone(g, k)
  BY DEF IndexOk
<1>2. PICK h, m, n, own : /\ ix = [head |-> h, pages |-> m, next_page_id |-> n]
                          /\ AddInv(h, m, n, own, g, k)
  BY <1>1 DEF StepInv
<1>3. ChainsOk(h, m, n, own) /\ Entered(m, n, own, g) /\ KeptAll(m, n, own, g, k)
  BY <1>2 DEF AddInv
<1>4. Len(g) \in Nat /\ DOMAIN g = 1..Len(g)
  OBVIOUS
<1>5. Len(g) <= MaxListed
  BY <1>4, MaxListedAssumption, BoundsAssumption
<1>6. RoomForAll(m, n)
  BY <1>3, <1>4, <1>5, RoomForDocuments
<1>7. PICK Locs : Locs = Nat
  OBVIOUS
<1>8. /\ Chained(h, m, n, own) /\ Ascending(m, n) /\ Filled(m, n, Locs)
      /\ t \in DOMAIN h /\ n \in Nat
  BY <1>3, <1>7, Bounds DEF ChainsOk, Allocated, AllTerms
<1>9. /\ s \in Seq(Posting(Locs)) /\ ToSet(s) = Entries(m, n, own, t)
      /\ \A i, j \in DOMAIN s : s[i].doc = s[j].doc => i = j
  <2>1. s = GetPostings([head |-> h, pages |-> m, next_page_id |-> n], t)
    BY <1>2
  <2> QED BY <1>6, <1>8, <2>1, GetPostingsListsEntries
<1>10. \A j \in DOMAIN g : Placed(g, k, j, t) = {i \in DOMAIN g[j] : g[j][i] = t}
  <2> TAKE j \in DOMAIN g
  <2>1. \A i \in DOMAIN g[j] : j = Len(g) => i <= k
    BY <1>1 DEF LastDone
  <2> QED BY <2>1 DEF Placed
<1>11. ASSUME NEW i \in DOMAIN s
       PROVE  /\ s[i].doc + 1 \in DOMAIN g /\ Placed(g, k, s[i].doc + 1, t) # {}
              /\ Keeps(s[i].positions, Placed(g, k, s[i].doc + 1, t))
  <2>1. PICK e : e = s[i]
    OBVIOUS
  <2>2. e \in Entries(m, n, own, t)
    BY <1>9, <2>1 DEF ToSet
  <2>3. KeptEntry(g, k, t, e) /\ e.doc + 1 \in DOMAIN g
    BY <1>3, <2>2 DEF KeptAll, Entered, AllTerms
  <2> QED BY <2>1, <2>3 DEF KeptEntry
<1>12. ASSUME NEW j \in DOMAIN g, Placed(g, k, j, t) # {}
       PROVE  \E i \in DOMAIN s : s[i].doc = j - 1
  <2>1. PICK e \in Entries(m, n, own, t) : e.doc = j - 1
    BY <1>3, <1>12 DEF KeptAll
  <2>2. PICK i \in DOMAIN s : e = s[i]
    BY <1>9 DEF ToSet
  <2> QED BY <2>1, <2>2
<1>13. \A i \in DOMAIN s :
          LET places == {x \in DOMAIN g[s[i].doc + 1] : g[s[i].doc + 1][x] = t}
          IN  /\ s[i].doc + 1 \in DOMAIN g /\ places # {}
              /\ Keeps(s[i].positions, places)
  <2> TAKE i \in DOMAIN s
  <2>1. PICK j : j = s[i].doc + 1
    OBVIOUS
  <2>2. j \in DOMAIN g /\ Placed(g, k, j, t) # {} /\ Keeps(s[i].positions, Placed(g, k, j, t))
    BY <1>11, <2>1
  <2>3. Placed(g, k, j, t) = {x \in DOMAIN g[j] : g[j][x] = t}
    BY <1>10, <2>2
  <2> QED BY <2>1, <2>2, <2>3
<1> QED BY <1>7, <1>9, <1>10, <1>12, <1>13 DEF ListOf

LEMMA ListedIs ==
    ASSUME IInv, MaxDocs <= MaxListed
    PROVE  /\ \A t \in Terms : ListOf(Listed(t), AllIds(docs), t)
           /\ DOMAIN AllIds(docs) = 1..Len(docs) /\ Len(docs) \in Nat
           /\ \A d \in DocIds : /\ d \in Nat /\ d + 1 \in 1..Len(docs) /\ Text(d) \in Seq(Terms)
                                /\ AllIds(docs)[d + 1] = Text(d)
                                /\ \A t : PositionsIn(d, t) = {n \in DOMAIN AllIds(docs)[d + 1] :
                                                                 AllIds(docs)[d + 1][n] = t}
<1>1. docs \in Seq(Document) /\ Len(docs) <= MaxDocs /\ IndexOk(index, AllIds(docs))
  BY DEF IInv, DocsOk
<1>2. PICK g, ix : g = AllIds(docs) /\ ix = index
  OBVIOUS
<1>3. /\ g \in Seq(Seq(Terms)) /\ Len(g) = Len(docs) /\ DOMAIN g = 1..Len(docs)
      /\ Len(docs) \in Nat /\ \A j \in 1..Len(docs) : g[j] = docs[j].ids
  BY <1>1, <1>2, AllIdsAre
<1>4. ASSUME NEW t \in Terms PROVE ListOf(Listed(t), g, t)
  <2>1. PICK s : s = GetPostings(ix, t)
    OBVIOUS
  <2>2. IndexOk(ix, g) /\ Len(g) <= MaxDocs
    BY <1>1, <1>2, <1>3
  <2>3. ListOf(s, g, t)
    BY <1>3, <2>1, <2>2, IndexLists
  <2> QED BY <1>2, <2>1, <2>3 DEF Listed
<1>5. ASSUME NEW d \in DocIds PROVE d \in Nat /\ d + 1 \in 1..Len(docs)
  BY <1>3 DEF DocIds
<1>6. ASSUME NEW d \in DocIds PROVE g[d + 1] = Text(d) /\ Text(d) \in Seq(Terms)
  <2>1. d + 1 \in 1..Len(docs) /\ docs[d + 1] \in Document
    BY <1>1, <1>5
  <2> QED BY <1>3, <2>1 DEF Text, Document
<1>7. ASSUME NEW d \in DocIds, NEW t
      PROVE  PositionsIn(d, t) = {n \in DOMAIN g[d + 1] : g[d + 1][n] = t}
  BY <1>6 DEF PositionsIn
<1> QED BY <1>2, <1>3, <1>4, <1>5, <1>6, <1>7

(* The documents in the list of a term are those that have it. *)
LEMMA InvListing ==
    ASSUME IInv, MaxDocs <= MaxListed, NEW t \in Terms
    PROVE  /\ Listed(t) \in Seq(Posting(Nat))
           /\ {Listed(t)[i].doc : i \in DOMAIN Listed(t)} = {d \in DocIds : PositionsIn(d, t) # {}}
           /\ \A i, j \in DOMAIN Listed(t) : Listed(t)[i].doc = Listed(t)[j].doc => i = j
           /\ \A i \in DOMAIN Listed(t) :
                 Keeps(Listed(t)[i].positions, PositionsIn(Listed(t)[i].doc, t))
<1>1. PICK s, g, N : s = Listed(t) /\ g = AllIds(docs) /\ N = Len(docs)
  OBVIOUS
<1>2. /\ ListOf(s, g, t) /\ DOMAIN g = 1..N /\ N \in Nat
      /\ \A d \in DocIds : /\ d \in Nat /\ d + 1 \in 1..N
                           /\ PositionsIn(d, t) = {n \in DOMAIN g[d + 1] : g[d + 1][n] = t}
  BY <1>1, ListedIs
<1>3. \A d \in Nat : d + 1 \in 1..N => d \in DocIds
  BY <1>1, <1>2 DEF DocIds
<1>4. ASSUME NEW i \in DOMAIN s
      PROVE  /\ s[i].doc \in DocIds /\ PositionsIn(s[i].doc, t) # {}
             /\ Keeps(s[i].positions, PositionsIn(s[i].doc, t))
  <2>1. PICK d, ps : d = s[i].doc /\ ps = s[i].positions
    OBVIOUS
  <2>2. s[i] \in Posting(Nat)
    BY <1>2 DEF ListOf
  <2>3. PICK places : places = {n \in DOMAIN g[d + 1] : g[d + 1][n] = t}
    OBVIOUS
  <2>4. d + 1 \in DOMAIN g /\ places # {} /\ Keeps(ps, places)
    BY <1>2, <2>1, <2>3 DEF ListOf
  <2>5. d \in DocIds
    BY <1>2, <1>3, <2>1, <2>2, <2>4 DEF Posting
  <2>6. PositionsIn(d, t) = places
    BY <1>2, <2>3, <2>5
  <2> QED BY <2>1, <2>4, <2>5, <2>6
<1>5. ASSUME NEW d \in DocIds, PositionsIn(d, t) # {} PROVE \E i \in DOMAIN s : s[i].doc = d
  <2>1. d \in Nat /\ d + 1 \in DOMAIN g /\ {n \in DOMAIN g[d + 1] : g[d + 1][n] = t} # {}
    BY <1>2, <1>5
  <2>2. (d + 1) - 1 = d
    BY <2>1
  <2> QED BY <1>2, <2>1, <2>2 DEF ListOf
<1>6. s \in Seq(Posting(Nat)) /\ \A i, j \in DOMAIN s : s[i].doc = s[j].doc => i = j
  BY <1>2 DEF ListOf
<1>7. {s[i].doc : i \in DOMAIN s} = {d \in DocIds : PositionsIn(d, t) # {}}
  BY <1>4, <1>5
<1> QED BY <1>1, <1>4, <1>6, <1>7

(* ListsEachDocumentOnce holds in every state: inverted_index_get_postings *)
(* on a term lists every document inverted_index_add_posting was given     *)
(* with it, once, however often the pages of the chain have overflowed, if *)
(* no more documents are added than a list has room for.                   *)
THEOREM DocumentsListed ==
    ASSUME MaxDocs <= MaxListed
    PROVE  Spec => []ListsEachDocumentOnce
<1>1. IInv => ListsEachDocumentOnce
  BY InvListing DEF ListsEachDocumentOnce
<1> QED BY <1>1, IInvHolds, PTL

(* PositionsArePrefix holds in every state: the positions a posting keeps  *)
(* are the first of the term in the document, in order, and all of them    *)
(* below MAX_POSITIONS_PER_POSTING.                                        *)
THEOREM PositionsKept ==
    ASSUME MaxDocs <= MaxListed
    PROVE  Spec => []PositionsArePrefix
<1>1. IInv => PositionsArePrefix
  BY InvListing DEF PositionsArePrefix
<1> QED BY <1>1, IInvHolds, PTL

(* An id that a word no other is cut to can give is its hash. *)
LEMMA IdOfUnclaimed ==
    ASSUME NEW w \in Words, ~Claimed(w), NEW id, IdFor(w, id)
    PROVE  id = TermHash[w]
  BY DEF Claimed, IdFor

LEMMA IInvWords == IInv /\ MaxDocs <= MaxListed => WordsFindTheirDocuments
<1> SUFFICES ASSUME IInv, MaxDocs <= MaxListed, NEW w \in Words, ~Claimed(w),
                    NEW id, id = IdOf(lexicon, w), NEW found, found = DocsListed({id})
             PROVE  /\ DocsWith(w) \subseteq found
                    /\ \A d \in found : \E v \in ToSet(docs[d + 1].words) : Stands(v, w)
  BY DEF WordsFindTheirDocuments
<1>1. id \in Terms /\ id = TermHash[w]
  <2>1. lexicon \in Lexicons
    BY DEF IInv
  <2> QED BY <2>1, IdOfIs, IdOfUnclaimed
<1>2. PICK s, g, N : s = Listed(id) /\ g = AllIds(docs) /\ N = Len(docs)
  OBVIOUS
<1>3. /\ ListOf(s, g, id) /\ DOMAIN g = 1..N /\ N \in Nat
      /\ \A d \in DocIds : d \in Nat /\ d + 1 \in 1..N /\ g[d + 1] = Text(d)
  BY <1>1, <1>2, ListedIs
<1>4. found = {d \in DocIds : \E i \in DOMAIN s : s[i].doc = d}
  BY <1>2 DEF DocsListed
<1>5. ASSUME NEW d \in DocIds
      PROVE  IdsOf(docs[d + 1].words, g[d + 1])
  <2>1. DOMAIN docs = 1..N
    BY <1>2 DEF IInv, DocsOk
  <2> QED BY <1>3, <2>1 DEF IInv, DocsOk, Text
<1>6. ASSUME NEW d \in DocsWith(w) PROVE d \in found
  <2>1. PICK words, ids : words = docs[d + 1].words /\ ids = g[d + 1]
    OBVIOUS
  <2>2. d \in DocIds /\ w \in ToSet(words)
    BY <1>6, <2>1 DEF DocsWith
  <2>3. IdsOf(words, ids)
    BY <1>5, <2>1, <2>2
  <2>4. PICK n \in DOMAIN words : words[n] = w
    BY <2>2 DEF ToSet
  <2>5. IdFor(w, ids[n]) /\ n \in DOMAIN ids
    BY <2>3, <2>4 DEF IdsOf
  <2>6. ids[n] = id
    BY <1>1, <2>5, IdOfUnclaimed
  <2>7. d + 1 \in DOMAIN g /\ {x \in DOMAIN g[d + 1] : g[d + 1][x] = id} # {} /\ (d + 1) - 1 = d
    BY <1>3, <2>1, <2>2, <2>5, <2>6
  <2>8. \E i \in DOMAIN s : s[i].doc = d
    BY <1>3, <2>7 DEF ListOf
  <2> QED BY <1>4, <2>2, <2>8
<1>7. ASSUME NEW d \in found PROVE \E v \in ToSet(docs[d + 1].words) : Stands(v, w)
  <2>1. PICK words, ids : words = docs[d + 1].words /\ ids = g[d + 1]
    OBVIOUS
  <2>2. PICK i \in DOMAIN s : d \in DocIds /\ s[i].doc = d
    BY <1>4, <1>7
  <2>3. IdsOf(words, ids)
    BY <1>5, <2>1, <2>2
  <2>4. {x \in DOMAIN g[s[i].doc + 1] : g[s[i].doc + 1][x] = id} # {}
    BY <1>3 DEF ListOf
  <2>5. PICK n \in DOMAIN ids : ids[n] = id
    BY <2>1, <2>2, <2>4
  <2>6. n \in DOMAIN words /\ IdFor(words[n], id)
    BY <2>3, <2>5 DEF IdsOf
  <2>7. words[n] \in ToSet(words) /\ Stands(words[n], w)
    BY <1>1, <2>6 DEF ToSet, IdFor, Stands
  <2> QED BY <2>1, <2>7
<1> QED BY <1>6, <1>7

(* WordsFindTheirDocuments holds in every state: a document added under    *)
(* one lexicon is found by a word looked up in another, after a restart or *)
(* whatever else lexicon_insert has put in the bucket, and nothing else is *)
(* found but by a word of the same hash.                                   *)
THEOREM WordsFound ==
    ASSUME MaxDocs <= MaxListed
    PROVE  Spec => []WordsFindTheirDocuments
<1>1. IInv => WordsFindTheirDocuments
  BY IInvWords
<1> QED BY <1>1, IInvHolds, PTL
-----------------------------------------------------------------------------
(***************************************************************************)
(* Phrases.                                                                *)
(***************************************************************************)

(* More places come before a later place than before an earlier one.       *)
LEMMA FewerBefore ==
    ASSUME NEW S, S \subseteq Nat, IsFiniteSet(S), NEW q, NEW p, q \in S, p \in S, q < p
    PROVE  /\ Cardinality({i \in S : i < q}) \in Nat /\ Cardinality({i \in S : i < p}) \in Nat
           /\ Cardinality({i \in S : i < q}) < Cardinality({i \in S : i < p})
<1> DEFINE A == {i \in S : i < q}
           B == {i \in S : i < p}
<1>1. q \in Nat /\ p \in Nat
  OBVIOUS
<1>2. A \subseteq B /\ B \subseteq S /\ q \in B /\ q \notin A
  <2>1. \A i \in S : i \in Nat
    OBVIOUS
  <2>2. \A i \in A : i \in S /\ i < p
    BY <1>1, <2>1
  <2>3. q \in B /\ q \notin A /\ B \subseteq S
    BY <1>1
  <2>4. \A i \in A : i \in B
    BY <2>2
  <2> QED BY <2>3, <2>4
<1> HIDE DEF A, B
<1>3. IsFiniteSet(B) /\ IsFiniteSet(A)
  BY <1>2, FS_Subset
<1>4. Cardinality(A) <= Cardinality(B) /\ Cardinality(A) # Cardinality(B)
  BY <1>2, <1>3, FS_Subset
<1>5. Cardinality(A) \in Nat /\ Cardinality(B) \in Nat
  BY <1>3, FS_CardinalityType
<1> QED BY <1>4, <1>5 DEF A, B

(* If as many positions are kept as there are places, each place is.       *)
LEMMA KeepsAll ==
    ASSUME NEW k \in Nat, NEW S \in SUBSET (1..k), NEW ps \in Seq(Nat), Keeps(ps, S),
           Len(ps) = Cardinality(S), NEW p \in S
    PROVE  p - 1 \in ToSet(ps)
<1>1. S \subseteq Nat /\ IsFiniteSet(S) /\ p \in Nat
  <2>1. IsFiniteSet(1..k)
    BY FS_Interval
  <2>2. IsFiniteSet(S)
    BY <2>1, FS_Subset
  <2> QED BY <2>2
<1>2. PICK c : c = Cardinality({i \in S : i < p})
  OBVIOUS
<1>3. c \in Nat /\ c < Cardinality(S) /\ Cardinality(S) \in Nat
  <2>1. PICK B : B = {i \in S : i < p}
    OBVIOUS
  <2>2. B \subseteq S /\ p \notin B
    BY <1>1, <2>1
  <2>3. IsFiniteSet(B) /\ Cardinality(B) <= Cardinality(S) /\ Cardinality(B) # Cardinality(S)
    BY <1>1, <2>2, FS_Subset
  <2>4. Cardinality(B) \in Nat /\ Cardinality(S) \in Nat
    BY <1>1, <2>3, FS_CardinalityType
  <2> QED BY <1>2, <2>1, <2>3, <2>4
<1>4. PICK n : n = c + 1
  OBVIOUS
<1>5. n \in DOMAIN ps /\ DOMAIN ps = 1..Len(ps) /\ ps[n] \in Nat
  <2>1. Len(ps) \in Nat /\ DOMAIN ps = 1..Len(ps)
    OBVIOUS
  <2>2. n \in 1..Len(ps)
    BY <1>3, <1>4, <2>1
  <2> QED BY <2>1, <2>2
<1>6. PICK q : q = ps[n] + 1
  OBVIOUS
<1>7. q \in S /\ Cardinality({i \in S : i < q}) = c
  <2>1. q \in S /\ Cardinality({i \in S : i < q}) = n - 1
    BY <1>5, <1>6 DEF Keeps
  <2> QED BY <1>3, <1>4, <2>1
<1>8. ~(q < p)
  <2>1. ASSUME q < p PROVE FALSE
    <3>1. Cardinality({i \in S : i < q}) < Cardinality({i \in S : i < p})
      BY <1>1, <1>7, <2>1, FewerBefore
    <3> QED BY <1>2, <1>3, <1>7, <3>1
  <2> QED BY <2>1
<1>9. ~(p < q)
  <2>1. ASSUME p < q PROVE FALSE
    <3>1. Cardinality({i \in S : i < p}) < Cardinality({i \in S : i < q})
      BY <1>1, <1>7, <2>1, FewerBefore
    <3> QED BY <1>2, <1>3, <1>7, <3>1
  <2> QED BY <2>1
<1>10. p - 1 = ps[n]
  <2>1. q \in Nat
    BY <1>1, <1>7
  <2> QED BY <1>1, <1>5, <1>6, <1>8, <1>9, <2>1
<1> QED BY <1>5, <1>10 DEF ToSet

(* The positions a listed posting keeps are places of the term in the text *)
(* of its document.                                                        *)
LEMMA KeptArePlaces ==
    ASSUME IInv, MaxDocs <= MaxListed, NEW t \in Terms, NEW e, e \in ToSet(Listed(t)),
           NEW x, x \in ToSet(e.positions)
    PROVE  /\ e.doc \in DocIds /\ x \in Nat /\ x + 1 \in DOMAIN Text(e.doc)
           /\ Text(e.doc)[x + 1] = t
<1>1. PICK l, d : l = Listed(t) /\ d = e.doc
  OBVIOUS
<1>2. PICK j \in DOMAIN l : e = l[j]
  BY <1>1 DEF ToSet
<1>3. l \in Seq(Posting(Nat)) /\ Keeps(e.positions, PositionsIn(d, t))
  BY <1>1, <1>2, InvListing
<1>4. d \in DocIds
  <2>1. d \in {l[i].doc : i \in DOMAIN l}
    BY <1>1, <1>2
  <2>2. {l[i].doc : i \in DOMAIN l} = {c \in DocIds : PositionsIn(c, t) # {}}
    BY <1>1, InvListing
  <2> QED BY <2>1, <2>2
<1>5. PICK ps : ps = e.positions
  OBVIOUS
<1>6. ps \in Seq(Nat)
  <2>1. e \in Posting(Nat)
    BY <1>2, <1>3
  <2> QED BY <1>5, <2>1 DEF Posting
<1>7. x \in Nat /\ x + 1 \in PositionsIn(d, t)
  <2>1. PICK n \in DOMAIN ps : x = ps[n]
    BY <1>5 DEF ToSet
  <2>2. ps[n] + 1 \in PositionsIn(d, t)
    BY <1>3, <1>5, <2>1 DEF Keeps
  <2>3. ps[n] \in Nat
    BY <1>6, <2>1
  <2> QED BY <2>1, <2>2, <2>3
<1> QED BY <1>1, <1>4, <1>7 DEF PositionsIn

(* Every document with the term has a posting, and every place of the term *)
(* is kept there if as many are kept as there are.                         *)
LEMMA PlacesAreKept ==
    ASSUME IInv, MaxDocs <= MaxListed, NEW t \in Terms, NEW d \in DocIds,
           NEW p, p \in PositionsIn(d, t)
    PROVE  \E j \in DOMAIN Listed(t) :
              /\ Listed(t)[j].doc = d
              /\ Len(Listed(t)[j].positions) = Cardinality(PositionsIn(d, t)) =>
                    p - 1 \in ToSet(Listed(t)[j].positions)
<1>1. PICK l, S : l = Listed(t) /\ S = PositionsIn(d, t)
  OBVIOUS
<1>2. {l[i].doc : i \in DOMAIN l} = {c \in DocIds : PositionsIn(c, t) # {}}
  BY <1>1, InvListing
<1>3. PICK j \in DOMAIN l : l[j].doc = d
  BY <1>2
<1>4. PICK ps : ps = l[j].positions
  OBVIOUS
<1>5. l \in Seq(Posting(Nat)) /\ Keeps(ps, S)
  BY <1>1, <1>3, <1>4, InvListing
<1>6. ps \in Seq(Nat)
  <2>1. l[j] \in Posting(Nat)
    BY <1>3, <1>5
  <2> QED BY <1>4, <2>1 DEF Posting
<1>7. PICK k : k = Len(Text(d))
  OBVIOUS
<1>8. k \in Nat /\ S \in SUBSET (1..k)
  <2>1. Text(d) \in Seq(Terms)
    BY ListedIs
  <2>2. DOMAIN Text(d) = 1..k /\ k \in Nat
    BY <1>7, <2>1
  <2> QED BY <1>1, <2>2 DEF PositionsIn
<1>9. Len(ps) = Cardinality(S) => p - 1 \in ToSet(ps)
  BY <1>1, <1>5, <1>6, <1>8, KeepsAll
<1> QED BY <1>1, <1>3, <1>4, <1>9

(* The phrases that are searched for have two terms or three.              *)
PhraseOf(phrase, K) ==
    /\ K \in {2, 3} /\ Len(phrase) = K /\ DOMAIN phrase = 1..K
    /\ \A i \in 1..K : phrase[i] \in Terms

LEMMA PhraseHasTerms ==
    ASSUME NEW phrase \in Phrases
    PROVE  \E K : PhraseOf(phrase, K)
<1>1. CASE \E s, t \in Terms : phrase = <<s, t>>
  <2>1. PICK s, t \in Terms : phrase = <<s, t>>
    BY <1>1
  <2>2. PhraseOf(phrase, 2)
    BY <2>1 DEF PhraseOf
  <2> QED BY <2>2
<1>2. CASE \E r, s, t \in Terms : phrase = <<r, s, t>>
  <2>1. PICK r, s, t \in Terms : phrase = <<r, s, t>>
    BY <1>2
  <2>2. PhraseOf(phrase, 3)
    BY <2>1 DEF PhraseOf
  <2> QED BY <2>2
<1> QED BY <1>1, <1>2 DEF Phrases

(* The lists a phrase search merges, and what it finds in them.            *)
LEMMA PhraseSearched ==
    ASSUME IInv, MaxDocs <= MaxListed, NEW phrase, NEW K, PhraseOf(phrase, K),
           NEW lists, lists = [i \in 1..K |-> Listed(phrase[i])],
           NEW found, found = PhrasePostings(index, phrase)
    PROVE  /\ \A z \in ToSet(found) : Meets(lists, K, z)
           /\ AllAscend(lists, K) => \A m \in DOMAIN lists[1] :
                 Meets(lists, K, lists[1][m]) => lists[1][m] \in ToSet(found)
           /\ Found(phrase) = {z.doc : z \in ToSet(found)}
<1>1. PICK ix : ix = index
  OBVIOUS
<1>2. Len(phrase) = K /\ K # 1 /\ DOMAIN phrase = 1..K /\ K \in Nat /\ K >= 1
  BY DEF PhraseOf
<1>3. lists = [i \in DOMAIN phrase |-> GetPostings(ix, phrase[i])]
  BY <1>1, <1>2 DEF Listed
<1>4. ListsOk(lists, K)
  <2>1. ASSUME NEW i \in 1..K PROVE lists[i] \in Seq(Posting(Nat))
    <3>1. PICK t \in Terms : t = phrase[i]
      BY DEF PhraseOf
    <3>2. Listed(t) \in Seq(Posting(Nat))
      BY InvListing
    <3> QED BY <3>1, <3>2
  <2> QED BY <1>2, <2>1 DEF ListsOk
<1>5. /\ found \in Seq(Posting(Nat)) /\ \A z \in ToSet(found) : Meets(lists, K, z)
      /\ AllAscend(lists, K) => \A m \in DOMAIN lists[1] :
            Meets(lists, K, lists[1][m]) => lists[1][m] \in ToSet(found)
  <2>1. found = PhrasePostings(ix, phrase)
    BY <1>1
  <2> QED BY <1>2, <1>3, <1>4, <2>1, PhraseMerged
<1>6. Found(phrase) = {z.doc : z \in ToSet(found)}
  BY DEF Found, ToSet
<1> QED BY <1>5, <1>6

(* A posting that meets the lists of a phrase is of a document with it.    *)
LEMMA MeetingHasPhrase ==
    ASSUME IInv, MaxDocs <= MaxListed, NEW phrase, NEW K, PhraseOf(phrase, K),
           NEW lists, lists = [i \in 1..K |-> Listed(phrase[i])],
           NEW z, Meets(lists, K, z)
    PROVE  HasPhrase(z.doc, phrase)
<1>1. Len(phrase) = K /\ DOMAIN phrase = 1..K /\ K \in Nat /\ 1 \in 1..K /\ K \in 1..K
  BY DEF PhraseOf
<1>2. PICK d : d = z.doc
  OBVIOUS
<1>3. PICK at : /\ \A i \in 1..K : at[i] \in DOMAIN lists[i] /\ lists[i][at[i]].doc = d
                /\ PositionsMeet([i \in 1..K |-> lists[i][at[i]]])
  BY <1>2 DEF Meets
<1>4. PICK es : es = [i \in 1..K |-> lists[i][at[i]]]
  OBVIOUS
<1>5. Len(es) = K /\ \A i \in 1..K : es[i].doc = d /\ es[i] \in ToSet(Listed(phrase[i]))
  <2>1. Len(es) = K
    BY <1>1, <1>4
  <2>2. ASSUME NEW i \in 1..K PROVE es[i].doc = d /\ es[i] \in ToSet(Listed(phrase[i]))
    BY <1>3, <1>4 DEF ToSet
  <2> QED BY <2>1, <2>2
<1>6. PICK s \in ToSet(es[1].positions) :
         \A i \in 2..K : s + i - 1 \in ToSet(es[i].positions)
  <2>1. PositionsMeet(es)
    BY <1>3, <1>4
  <2> QED BY <1>5, <2>1 DEF PositionsMeet
<1>7. ASSUME NEW t \in Terms, NEW i \in 1..K, t = phrase[i], NEW x, x \in ToSet(es[i].positions)
      PROVE  d \in DocIds /\ x \in Nat /\ x + 1 \in DOMAIN Text(d) /\ Text(d)[x + 1] = t
  <2>1. PICK e : e = es[i]
    OBVIOUS
  <2>2. e \in ToSet(Listed(t)) /\ e.doc = d /\ x \in ToSet(e.positions)
    BY <1>5, <1>7, <2>1
  <2> QED BY <2>2, KeptArePlaces
<1>8. \A i \in 1..K : phrase[i] \in Terms
  BY DEF PhraseOf
<1>9. d \in DocIds /\ s \in Nat
  BY <1>1, <1>6, <1>7, <1>8
<1>10. ASSUME NEW i \in 1..K
       PROVE  s + i \in DOMAIN Text(d) /\ Text(d)[s + i] = phrase[i]
  <2>1. PICK x : x = s + i - 1
    OBVIOUS
  <2>2. x + 1 = s + i
    BY <1>1, <1>9, <2>1
  <2>3. x \in ToSet(es[i].positions)
    <3>1. CASE i = 1
      <4>1. x = s
        BY <1>9, <2>1, <3>1
      <4> QED BY <1>6, <3>1, <4>1
    <3>2. CASE i # 1
      <4>1. i \in 2..K
        BY <1>1, <3>2
      <4> QED BY <1>6, <2>1, <4>1
    <3> QED BY <3>1, <3>2
  <2>4. x + 1 \in DOMAIN Text(d) /\ Text(d)[x + 1] = phrase[i]
    BY <1>7, <1>8, <2>3
  <2> QED BY <2>2, <2>4
<1>11. s \in 0..(Len(Text(d)) - K)
  <2>1. PICK k : k = Len(Text(d))
    OBVIOUS
  <2>2. Text(d) \in Seq(Terms)
    BY <1>9, ListedIs
  <2>3. DOMAIN Text(d) = 1..k /\ k \in Nat
    BY <2>1, <2>2
  <2>4. s + K \in 1..k
    BY <1>1, <1>10, <2>3
  <2> QED BY <1>1, <1>9, <2>1, <2>3, <2>4
<1> QED BY <1>1, <1>2, <1>10, <1>11 DEF HasPhrase

(* A document with a phrase, all of whose positions were kept, meets the   *)
(* lists of the phrase.                                                    *)
LEMMA PhraseIsMet ==
    ASSUME IInv, MaxDocs <= MaxListed, NEW phrase, NEW K, PhraseOf(phrase, K),
           NEW lists, lists = [i \in 1..K |-> Listed(phrase[i])],
           NEW d \in DocIds, HasPhrase(d, phrase), Untruncated(d, phrase)
    PROVE  \E m \in DOMAIN lists[1] : lists[1][m].doc = d /\ Meets(lists, K, lists[1][m])
<1>1. Len(phrase) = K /\ DOMAIN phrase = 1..K /\ K \in Nat /\ 1 \in 1..K
  BY DEF PhraseOf
<1>2. PICK k : k = Len(Text(d))
  OBVIOUS
<1>3. DOMAIN Text(d) = 1..k /\ k \in Nat
  <2>1. Text(d) \in Seq(Terms)
    BY ListedIs
  <2> QED BY <1>2, <2>1
<1>4. PICK s \in 0..(k - K) : \A i \in 1..K : Text(d)[s + i] = phrase[i]
  BY <1>1, <1>2 DEF HasPhrase
<1>5. s \in Nat /\ s + K <= k
  BY <1>1, <1>3, <1>4
<1>6. ASSUME NEW i \in 1..K
      PROVE  \E j \in DOMAIN lists[i] : /\ lists[i][j].doc = d
                                        /\ s + i - 1 \in ToSet(lists[i][j].positions)
  <2>1. PICK t \in Terms : t = phrase[i]
    BY DEF PhraseOf
  <2>2. PICK p : p = s + i
    OBVIOUS
  <2>3. p \in 1..k
    BY <1>1, <1>3, <1>5, <2>2
  <2>4. p \in PositionsIn(d, t)
    BY <1>3, <1>4, <2>1, <2>2, <2>3 DEF PositionsIn
  <2>5. PICK j \in DOMAIN Listed(t) :
           /\ Listed(t)[j].doc = d
           /\ Len(Listed(t)[j].positions) = Cardinality(PositionsIn(d, t)) =>
                 p - 1 \in ToSet(Listed(t)[j].positions)
    BY <2>4, PlacesAreKept
  <2>6. Len(Listed(t)[j].positions) = Cardinality(PositionsIn(d, t))
    BY <1>1, <2>1, <2>5 DEF Untruncated
  <2>7. lists[i] = Listed(t)
    BY <2>1
  <2> QED BY <2>2, <2>5, <2>6, <2>7
<1>7. PICK at : at = [i \in 1..K |-> CHOOSE j \in DOMAIN lists[i] :
                         /\ lists[i][j].doc = d
                         /\ s + i - 1 \in ToSet(lists[i][j].positions)]
  OBVIOUS
<1>8. ASSUME NEW i \in 1..K
      PROVE  /\ at[i] \in DOMAIN lists[i] /\ lists[i][at[i]].doc = d
             /\ s + i - 1 \in ToSet(lists[i][at[i]].positions)
  <2>1. at[i] = CHOOSE j \in DOMAIN lists[i] : /\ lists[i][j].doc = d
                                               /\ s + i - 1 \in ToSet(lists[i][j].positions)
    BY <1>7
  <2> QED BY <1>6, <2>1
<1>9. PICK es : es = [i \in 1..K |-> lists[i][at[i]]]
  OBVIOUS
<1>10. Len(es) = K /\ \A i \in 1..K : s + i - 1 \in ToSet(es[i].positions)
  <2>1. Len(es) = K
    BY <1>1, <1>9
  <2> QED BY <1>8, <1>9, <2>1
<1>11. PositionsMeet(es)
  <2>1. s + 1 - 1 = s
    BY <1>5
  <2>2. s \in ToSet(es[1].positions)
    BY <1>1, <1>10, <2>1
  <2>3. \A i \in 2..K : s + i - 1 \in ToSet(es[i].positions)
    BY <1>1, <1>10
  <2> QED BY <1>10, <2>2, <2>3 DEF PositionsMeet
<1>12. PICK m : m = at[1]
  OBVIOUS
<1>13. m \in DOMAIN lists[1] /\ lists[1][m].doc = d
  BY <1>1, <1>8, <1>12
<1>14. Meets(lists, K, lists[1][m])
  BY <1>8, <1>9, <1>11, <1>13 DEF Meets
<1> QED BY <1>13, <1>14

LEMMA InvPhrases == IInv /\ MaxDocs <= MaxListed => PhraseSound /\ PhraseCompleteWhileAscending
<1> SUFFICES ASSUME IInv, MaxDocs <= MaxListed, NEW phrase \in Phrases
             PROVE  /\ \A d \in Found(phrase) : HasPhrase(d, phrase)
                    /\ (\A i \in DOMAIN phrase : ListAscends(phrase[i])) =>
                          \A d \in DocIds : HasPhrase(d, phrase) /\ Untruncated(d, phrase)
                                               => d \in Found(phrase)
  BY DEF PhraseSound, PhraseCompleteWhileAscending
<1>1. PICK K : PhraseOf(phrase, K)
  BY PhraseHasTerms
<1>2. PICK lists : lists = [i \in 1..K |-> Listed(phrase[i])]
  OBVIOUS
<1>3. PICK found : found = PhrasePostings(index, phrase)
  OBVIOUS
<1>4. /\ \A z \in ToSet(found) : Meets(lists, K, z)
      /\ AllAscend(lists, K) => \A m \in DOMAIN lists[1] :
            Meets(lists, K, lists[1][m]) => lists[1][m] \in ToSet(found)
      /\ Found(phrase) = {z.doc : z \in ToSet(found)}
  BY <1>1, <1>2, <1>3, PhraseSearched
<1>5. ASSUME NEW d \in Found(phrase) PROVE HasPhrase(d, phrase)
  <2>1. PICK z \in ToSet(found) : d = z.doc
    BY <1>4
  <2>2. Meets(lists, K, z)
    BY <1>4
  <2>3. HasPhrase(z.doc, phrase)
    BY <1>1, <1>2, <2>2, MeetingHasPhrase
  <2> QED BY <2>1, <2>3
<1>6. ASSUME \A i \in DOMAIN phrase : ListAscends(phrase[i]),
             NEW d \in DocIds, HasPhrase(d, phrase), Untruncated(d, phrase)
      PROVE  d \in Found(phrase)
  <2>1. PICK m \in DOMAIN lists[1] : lists[1][m].doc = d /\ Meets(lists, K, lists[1][m])
    <3>1. HasPhrase(d, phrase) /\ Untruncated(d, phrase)
      BY <1>6
    <3>2. \E m \in DOMAIN lists[1] : lists[1][m].doc = d /\ Meets(lists, K, lists[1][m])
      BY <1>1, <1>2, <3>1, PhraseIsMet
    <3> QED BY <3>2
  <2>2. AllAscend(lists, K)
    <3>1. ASSUME NEW i \in 1..K PROVE Ascends(lists[i])
      <4>1. ListAscends(phrase[i])
        BY <1>1, <1>6 DEF PhraseOf
      <4>2. lists[i] = Listed(phrase[i])
        BY <1>2
      <4> QED BY <4>1, <4>2 DEF ListAscends, Ascends
    <3> QED BY <3>1 DEF AllAscend
  <2>3. lists[1][m] \in ToSet(found)
    BY <1>4, <2>1, <2>2
  <2> QED BY <1>4, <2>1, <2>3
<1> QED BY <1>5, <1>6

(* PhraseSound holds in every state: whatever order the lists are in, and  *)
(* whatever positions were dropped, shard_search_phrase_indexed finds no   *)
(* document without the phrase.                                            *)
THEOREM PhrasesSound ==
    ASSUME MaxDocs <= MaxListed
    PROVE  Spec => []PhraseSound
<1>1. IInv => PhraseSound
  BY InvPhrases
<1> QED BY <1>1, IInvHolds, PTL

(* PhraseCompleteWhileAscending holds in every state: while the lists the  *)
(* merge of shard_search_phrase_indexed walks are in the order of the      *)
(* documents, its cursors pass no document that has the phrase.            *)
THEOREM PhrasesComplete ==
    ASSUME MaxDocs <= MaxListed
    PROVE  Spec => []PhraseCompleteWhileAscending
<1>1. IInv => PhraseCompleteWhileAscending
  BY InvPhrases
<1> QED BY <1>1, IInvHolds, PTL
===============================================================================
