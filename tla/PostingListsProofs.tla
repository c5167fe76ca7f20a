-------------------------- MODULE PostingListsProofs --------------------------
(***************************************************************************)
(* Facts about the operators of PostingLists, for every index and every    *)
(* posting.                                                                *)
(***************************************************************************)
EXTENDS PostingLists, LeastElement

(* What inverted_index_add_posting makes of an index: it changes the page  *)
(* the entry of the term names, or puts a new page in front of it.         *)
PageAfter(page, doc, loc, pos, q) ==
    \/ EndsWith(page.postings, doc)
       /\ q = PostingPage(AddPositionTo(page.postings, pos), page.next)
    \/ ~EndsWith(page.postings, doc) /\ HasRoom(page.postings)
       /\ q = PostingPage(Append(page.postings, NewPosting(doc, loc, pos)), page.next)

OnHead(h, m, n, t, doc, loc, pos, ix) ==
    /\ h[t] # NoPage
    /\ \E q : /\ PageAfter(AsPostings(m[h[t]]), doc, loc, pos, q)
              /\ ix = [head |-> h, pages |-> [m EXCEPT ![h[t]] = q], next_page_id |-> n]

OnNew(h, m, n, t, doc, loc, pos, ix) ==
    /\ \/ h[t] = NoPage
       \/ /\ ~EndsWith(AsPostings(m[h[t]]).postings, doc)
          /\ ~HasRoom(AsPostings(m[h[t]]).postings)
    /\ ix = [head  |-> [h EXCEPT ![t] = n],
             pages |-> [m EXCEPT ![n] = PostingPage(<<NewPosting(doc, loc, pos)>>, h[t])],
             next_page_id |-> n + 1]

(* A posting goes to the head of its chain or to a new page in front of    *)
(* it.                                                                     *)
LEMMA AddPostingCases ==
    ASSUME NEW h, NEW m, NEW n, NEW t, NEW doc, NEW loc, NEW pos, NEW ix,
           ix = AddPosting([head |-> h, pages |-> m, next_page_id |-> n], t, doc, loc, pos)
    PROVE  OnHead(h, m, n, t, doc, loc, pos, ix) \/ OnNew(h, m, n, t, doc, loc, pos, ix)
<1> DEFINE old  == [head |-> h, pages |-> m, next_page_id |-> n]
           page == AsPostings(m[h[t]])
           q(s) == PostingPage(s, page.next)
           onHead(s) == [old EXCEPT !.pages[h[t]] = q(s)]
           onNew == [head |-> [h EXCEPT ![t] = n],
                     pages |-> [m EXCEPT ![n] = PostingPage(<<NewPosting(doc, loc, pos)>>, h[t])],
                     next_page_id |-> n + 1]
<1>1. \A s : onHead(s) = [head |-> h, pages |-> [m EXCEPT ![h[t]] = q(s)], next_page_id |-> n]
  OBVIOUS
<1>2. ix = IF h[t] = NoPage THEN onNew
           ELSE IF EndsWith(page.postings, doc) THEN onHead(AddPositionTo(page.postings, pos))
           ELSE IF HasRoom(page.postings)
                THEN onHead(Append(page.postings, NewPosting(doc, loc, pos)))
           ELSE onNew
  BY DEF AddPosting, NextOfNewPage
<1>3. CASE h[t] # NoPage /\ EndsWith(page.postings, doc)
  <2>1. ix = onHead(AddPositionTo(page.postings, pos))
    BY <1>2, <1>3
  <2>2. PageAfter(page, doc, loc, pos, q(AddPositionTo(page.postings, pos)))
    BY <1>3 DEF PageAfter
  <2> HIDE DEF page, q, onHead
  <2>3. OnHead(h, m, n, t, doc, loc, pos, ix)
    BY <1>1, <1>3, <2>1, <2>2 DEF OnHead, page
  <2> QED BY <2>3
<1>4. CASE h[t] # NoPage /\ ~EndsWith(page.postings, doc) /\ HasRoom(page.postings)
  <2>1. ix = onHead(Append(page.postings, NewPosting(doc, loc, pos)))
    BY <1>2, <1>4
  <2>2. PageAfter(page, doc, loc, pos, q(Append(page.postings, NewPosting(doc, loc, pos))))
    BY <1>4 DEF PageAfter
  <2> HIDE DEF page, q, onHead
  <2>3. OnHead(h, m, n, t, doc, loc, pos, ix)
    BY <1>1, <1>4, <2>1, <2>2 DEF OnHead, page
  <2> QED BY <2>3
<1>5. CASE h[t] = NoPage \/ (~EndsWith(page.postings, doc) /\ ~HasRoom(page.postings))
  <2>1. ix = onNew
    BY <1>2, <1>5
  <2> QED BY <1>5, <2>1 DEF OnNew
<1> QED BY <1>3, <1>4, <1>5

(* Postings with places in Locs. *)
Posting(Locs) == [doc : Nat, loc : Locs, positions : Seq(Nat)]

(* A position added to the last posting of a page changes this posting     *)
(* only, and not if it is full.                                            *)
LEMMA AddPositionEffect ==
    ASSUME NEW Locs, NEW s \in Seq(Posting(Locs)), s # <<>>, NEW pos \in Nat
    PROVE  LET r == AddPositionTo(s, pos)  n == Len(s) IN
           /\ r \in Seq(Posting(Locs)) /\ Len(r) = n
           /\ \A i \in 1..(n - 1) : r[i] = s[i]
           /\ r[n].doc = s[n].doc /\ r[n].loc = s[n].loc
           /\ r[n].positions = IF Len(s[n].positions) < MaxPositions
                               THEN Append(s[n].positions, pos) ELSE s[n].positions
<1> DEFINE n == Len(s)
           P == Posting(Locs)
           after == IF Len(s[n].positions) < MaxPositions
                    THEN Append(s[n].positions, pos) ELSE s[n].positions
           x == [s[n] EXCEPT !.positions = after]
           r == [s EXCEPT ![n] = x]
<1>1. AddPositionTo(s, pos) = r
  BY DEF AddPositionTo
<1>2. n \in Nat /\ n \in 1..n /\ \A i \in 1..n : s[i] \in P
  OBVIOUS
<1>3. s[n].positions \in Seq(Nat) /\ after \in Seq(Nat) /\ s[n] \in P
  <2>1. s[n] \in P
    BY <1>2
  <2>2. s[n].positions \in Seq(Nat)
    BY <2>1 DEF Posting
  <2>3. Append(s[n].positions, pos) \in Seq(Nat)
    BY <2>2
  <2> QED BY <2>1, <2>2, <2>3
<1> HIDE DEF after
<1>4. x \in P /\ x.doc = s[n].doc /\ x.loc = s[n].loc /\ x.positions = after
  BY <1>3 DEF Posting
<1> HIDE DEF x, P
<1>5. r \in [1..n -> P] /\ DOMAIN r = 1..n
  <2>1. s \in [1..n -> P]
    BY DEF P
  <2> QED BY <1>2, <1>4, <2>1
<1>6. r \in Seq(P) /\ Len(r) = n
  <2> HIDE DEF n, r
  <2>1. n \in Nat
    BY <1>2
  <2> QED BY <1>5, <2>1
<1>7. r[n] = x /\ \A i \in 1..(n - 1) : r[i] = s[i]
  <2>1. DOMAIN s = 1..n /\ n \in DOMAIN s
    BY <1>2
  <2>2. r[n] = x
    BY <2>1
  <2>3. ASSUME NEW i \in 1..(n - 1) PROVE r[i] = s[i]
    <3>1. i \in 1..n /\ i # n
      <4> HIDE DEF n
      <4> QED BY <1>2
    <3> QED BY <2>1, <3>1
  <2> QED BY <2>2, <2>3
<1> HIDE DEF r
<1> QED BY <1>1, <1>4, <1>6, <1>7 DEF after, P

(* What a page becomes stays a page of postings, linked as it was. *)
LEMMA PageAfterTyped ==
    ASSUME NEW Locs, NEW page, page.postings \in Seq(Posting(Locs)),
           Len(page.postings) <= MaxPostings,
           NEW doc \in Nat, NEW loc \in Locs, NEW pos \in Nat, NEW q,
           PageAfter(page, doc, loc, pos, q)
    PROVE  /\ q.kind = "posting" /\ q.next = page.next
           /\ q.postings \in Seq(Posting(Locs))
           /\ Len(q.postings) \in 1..MaxPostings
<1> DEFINE s == page.postings
           new == NewPosting(doc, loc, pos)
<1>0. /\ \A a, b : /\ PostingPage(a, b).kind = "posting" /\ PostingPage(a, b).postings = a
                   /\ PostingPage(a, b).next = b
      /\ s \in Seq(Posting(Locs)) /\ Len(s) \in Nat /\ MaxPostings \in Nat
  BY MaxPostingsAssumption DEF PostingPage
<1>1. CASE EndsWith(s, doc) /\ q = PostingPage(AddPositionTo(s, pos), page.next)
  <2>1. s # <<>>
    BY <1>1 DEF EndsWith
  <2>2. AddPositionTo(s, pos) \in Seq(Posting(Locs)) /\ Len(AddPositionTo(s, pos)) = Len(s)
    BY <1>0, <2>1, AddPositionEffect
  <2>3. Len(s) \in 1..MaxPostings
    BY <1>0, <2>1
  <2> HIDE DEF s
  <2> QED BY <1>0, <1>1, <2>2, <2>3
<1>2. CASE HasRoom(s) /\ q = PostingPage(Append(s, new), page.next)
  <2>1. new \in Posting(Locs)
    BY DEF NewPosting, Posting
  <2>2. Append(s, new) \in Seq(Posting(Locs)) /\ Len(Append(s, new)) = Len(s) + 1
    BY <1>0, <2>1
  <2>3. Len(s) < MaxPostings
    BY <1>2 DEF HasRoom
  <2>4. Len(s) + 1 \in 1..MaxPostings
    BY <1>0, <2>3
  <2>5. PICK t : t = Append(s, new)
    OBVIOUS
  <2>6. t \in Seq(Posting(Locs)) /\ Len(t) \in 1..MaxPostings
    BY <2>2, <2>4, <2>5
  <2>7. q = PostingPage(t, page.next)
    BY <1>2, <2>5
  <2> HIDE DEF s
  <2> QED BY <1>0, <2>6, <2>7
<1> QED BY <1>1, <1>2 DEF PageAfter
-------------------------------------------------------------------------------
(***************************************************************************)
(* What inverted_index_get_postings lists.                                 *)
(***************************************************************************)

(* What the walk lists from each page, within so many pages. *)
Lists(N, m, A, from) ==
    from = [n \in 0..N |-> [id \in A |->
              IF n = 0 \/ AsPostings(m[id]).postings = <<>> THEN <<>>
              ELSE AsPostings(m[id]).postings
                   \o IF AsPostings(m[id]).next = id \/ AsPostings(m[id]).next \notin A THEN <<>>
                      ELSE from[n-1][AsPostings(m[id]).next]]]

(* The walk is well defined, whatever the pages are. *)
LEMMA ListsExist ==
    ASSUME NEW N \in Nat, NEW m, NEW A
    PROVE  \E from : Lists(N, m, A, from)
<1> DEFINE ps(id) == AsPostings(m[id]).postings
           nx(id) == AsPostings(m[id]).next
           Row(n, g) == [id \in A |-> IF n = 0 \/ ps(id) = <<>> THEN <<>>
                                      ELSE ps(id) \o IF nx(id) = id \/ nx(id) \notin A THEN <<>>
                                                     ELSE g[nx(id)]]
           Is(k, f) == f = [n \in 0..k |-> Row(n, f[n-1])]
           G == {k \in 0..N : \E f : Is(k, f)}
<1>0. \A f : Is(N, f) => Lists(N, m, A, f)
  BY Zenon DEF Lists
<1> HIDE DEF ps, nx
<1>1. 0 \in G
  <2> DEFINE e == [n \in 0..0 |-> Row(0, 0)]
  <2>1. \A g : Row(0, g) = Row(0, 0)
    OBVIOUS
  <2> HIDE DEF Row
  <2>2. \A n \in 0..0 : Row(n, e[n-1]) = Row(0, 0)
    <3>1. \A n \in 0..0 : n = 0
      OBVIOUS
    <3> HIDE DEF e
    <3> QED BY <2>1, <3>1
  <2>3. e = [n \in 0..0 |-> Row(n, e[n-1])]
    <3> DEFINE v == Row(0, 0)
    <3>1. e = [n \in 0..0 |-> v]
      OBVIOUS
    <3> HIDE DEF v, e
    <3>2. \A n \in 0..0 : Row(n, e[n-1]) = v
      BY <2>2 DEF v
    <3> QED BY <3>1, <3>2
  <2> HIDE DEF e
  <2> QED BY <2>3
<1> HIDE DEF Row
<1>2. ASSUME NEW k \in 1..N, k - 1 \in G PROVE k \in G
  <2>1. PICK g : Is(k - 1, g)
    BY <1>2
  <2> DEFINE f == [n \in 0..k |-> IF n = k THEN Row(k, g[k-1]) ELSE g[n]]
  <2>2. \A n \in 0..(k-1) : f[n] = g[n] /\ n \in 0..k
    OBVIOUS
  <2>3. \A n \in 0..(k-1) : g[n] = Row(n, g[n-1])
    BY <2>1
  <2>4. f[k] = Row(k, g[k-1]) /\ k # 0 /\ k - 1 \in 0..(k-1)
    OBVIOUS
  <2>5. f = [n \in 0..k |-> f[n]]
    OBVIOUS
  <2>6. Row(0, f[0-1]) = Row(0, g[0-1])
    BY DEF Row
  <2> HIDE DEF f
  <2>7. \A n \in 0..k : f[n] = Row(n, f[n-1])
    <3> TAKE n \in 0..k
    <3>1. CASE n = k
      BY <2>2, <2>4, <3>1
    <3>2. CASE n = 0
      BY <2>2, <2>3, <2>4, <2>6, <3>2
    <3>3. CASE n # k /\ n # 0
      <4>1. n \in 0..(k-1) /\ n - 1 \in 0..(k-1)
        BY <3>3
      <4> QED BY <2>2, <2>3, <4>1
    <3> QED BY <3>1, <3>2, <3>3
  <2>8. [n \in 0..k |-> f[n]] = [n \in 0..k |-> Row(n, f[n-1])]
    BY <2>7
  <2>9. Is(k, f)
    BY <2>5, <2>8, Zenon
  <2> QED BY <2>9
<1> HIDE DEF G
<1>3. \A k \in 0..N : k \in G
  BY <1>1, <1>2, FromTheStart
<1>4. \E f : Is(N, f)
  BY <1>3 DEF G
<1> QED BY <1>0, <1>4

(* The pages of postings, which term each belongs to being own: chained    *)
(* from the entries of the tree to ever older pages, every page in one     *)
(* chain.                                                                  *)
PostingPages(m, n) == {p \in FirstFree..(n - 1) : m[p].kind = "posting"}

Chained(h, m, n, own) ==
    LET P == PostingPages(m, n) IN
    /\ \A p \in P : m[p].next # NoPage =>
          m[p].next \in P /\ m[p].next < p /\ own[m[p].next] = own[p]
    /\ \A p \in P : own[p] \in DOMAIN h
    /\ \A p \in P : p = h[own[p]] \/ \E b \in P : m[b].next = p
    /\ \A t \in DOMAIN h : h[t] # NoPage => h[t] \in P /\ own[h[t]] = t

(* Within a chain, documents ascend: each page in its order, and each page *)
(* after the one it links to.                                              *)
Ascends(s) == \A i, j \in DOMAIN s : i < j => s[i].doc < s[j].doc

Ascending(m, n) ==
    LET P == PostingPages(m, n) IN
    /\ \A p \in P : Ascends(m[p].postings)
    /\ \A p \in P : m[p].next # NoPage =>
          \A i \in DOMAIN m[m[p].next].postings, j \in DOMAIN m[p].postings :
             m[m[p].next].postings[i].doc < m[p].postings[j].doc

Filled(m, n, Locs) ==
    \A p \in PostingPages(m, n) :
       m[p].postings \in Seq(Posting(Locs)) /\ m[p].postings # <<>>

Entries(m, n, own, t) ==
    UNION {ToSet(m[p].postings) : p \in {q \in PostingPages(m, n) : own[q] = t}}

(* A list of documents below the next, no document twice. *)
GoodList(Locs, s, next) ==
    /\ s \in Seq(Posting(Locs))
    /\ \A i \in DOMAIN s : s[i].doc < next
    /\ \A i, j \in DOMAIN s : s[i].doc = s[j].doc => i = j
    /\ Len(s) <= next

TopOf(s) == s[Len(s)].doc + 1

(* A page in its order is such a list, whose documents are no fewer than   *)
(* its postings.                                                           *)
LEMMA PageAscends ==
    ASSUME NEW Locs, NEW s \in Seq(Posting(Locs)), Ascends(s)
    PROVE  /\ \A i \in DOMAIN s : s[i].doc \in Nat
           /\ \A i, j \in DOMAIN s : s[i].doc = s[j].doc => i = j
           /\ \A i \in DOMAIN s : s[1].doc + i - 1 <= s[i].doc
           /\ \A i \in DOMAIN s : s[i].doc < TopOf(s)
<1> DEFINE n == Len(s)
<1>1. n \in Nat /\ DOMAIN s = 1..n
  OBVIOUS
<1>2. \A i \in DOMAIN s : s[i].doc \in Nat
  <2> TAKE i \in DOMAIN s
  <2>1. s[i] \in Posting(Locs)
    OBVIOUS
  <2> QED BY <2>1 DEF Posting
<1>3. ASSUME NEW i \in DOMAIN s, NEW j \in DOMAIN s, s[i].doc = s[j].doc PROVE i = j
  <2>1. i < j => s[i].doc < s[j].doc
    BY DEF Ascends
  <2>2. j < i => s[j].doc < s[i].doc
    BY DEF Ascends
  <2>3. ~(i < j) /\ ~(j < i)
    BY <1>2, <1>3, <2>1, <2>2
  <2> QED BY <1>1, <2>3
<1>4. \A i \in DOMAIN s : s[1].doc + i - 1 <= s[i].doc
  <2> DEFINE G == {k \in 0..n : k > 0 => s[1].doc + k - 1 <= s[k].doc}
  <2>1. 0 \in G
    BY <1>1
  <2>2. ASSUME NEW k \in 1..n, k - 1 \in G PROVE k \in G
    <3>1. CASE k = 1
      <4>1. 1 \in DOMAIN s /\ s[1].doc \in Nat
        BY <1>1, <1>2, <3>1
      <4> QED BY <3>1, <4>1
    <3>2. CASE k # 1
      <4>1. k - 1 \in DOMAIN s /\ k \in DOMAIN s /\ 1 \in DOMAIN s /\ k - 1 < k /\ k - 1 > 0
        BY <1>1, <3>2
      <4>2. s[k-1].doc < s[k].doc
        BY <4>1 DEF Ascends
      <4>3. s[1].doc + (k - 1) - 1 <= s[k-1].doc
        BY <2>2, <4>1
      <4>4. s[1].doc \in Nat /\ s[k-1].doc \in Nat /\ s[k].doc \in Nat
        BY <1>2, <4>1
      <4>5. s[1].doc + k - 1 <= s[k].doc
        <5> HIDE DEF G
        <5> QED BY <4>2, <4>3, <4>4
      <4> QED BY <4>5
    <3> QED BY <3>1, <3>2
  <2> HIDE DEF G
  <2>3. \A k \in 0..n : k \in G
    <3> HIDE DEF n
    <3> QED BY <1>1, <2>1, <2>2, FromTheStart
  <2>4. \A i \in DOMAIN s : i \in 0..n /\ i > 0
    BY <1>1
  <2> QED BY <2>3, <2>4 DEF G
<1>5. \A i \in DOMAIN s : s[i].doc < TopOf(s)
  <2> TAKE i \in DOMAIN s
  <2>1. n \in DOMAIN s /\ (i < n \/ i = n)
    BY <1>1
  <2>2. i < n => s[i].doc < s[n].doc
    BY <2>1 DEF Ascends
  <2>3. s[i].doc \in Nat /\ s[n].doc \in Nat
    BY <1>2, <2>1
  <2>4. s[i].doc <= s[n].doc
    <3> HIDE DEF n
    <3> QED BY <2>1, <2>2, <2>3
  <2> QED BY <2>3, <2>4 DEF TopOf
<1> QED BY <1>2, <1>3, <1>4, <1>5

(* What two joined sequences hold. *)
LEMMA ToSetJoined ==
    ASSUME NEW S, NEW s \in Seq(S), NEW r \in Seq(S)
    PROVE  ToSet(s \o r) = ToSet(s) \cup ToSet(r)
<1> DEFINE n == Len(s)
           c == s \o r
<1>1. /\ n \in Nat /\ DOMAIN s = 1..n /\ Len(r) \in Nat /\ DOMAIN r = 1..Len(r)
      /\ DOMAIN c = 1..(n + Len(r))
      /\ \A i \in 1..n : i \in DOMAIN c /\ c[i] = s[i]
      /\ \A i \in 1..Len(r) : n + i \in DOMAIN c /\ c[n + i] = r[i]
  OBVIOUS
<1> HIDE DEF c, n
<1>2. \A i \in DOMAIN c : i \in 1..n \/ (i - n \in 1..Len(r) /\ n + (i - n) = i)
  BY <1>1
<1>3. ASSUME NEW x \in ToSet(c) PROVE x \in ToSet(s) \cup ToSet(r)
  <2>1. PICK i \in DOMAIN c : x = c[i]
    BY DEF ToSet
  <2> QED BY <1>1, <1>2, <2>1 DEF ToSet
<1>4. ASSUME NEW x \in ToSet(s) \cup ToSet(r) PROVE x \in ToSet(c)
  BY <1>1 DEF ToSet
<1> QED BY <1>3, <1>4 DEF c

(* A page put in front of a list of earlier documents. *)
LEMMA Joined ==
    ASSUME NEW Locs, NEW s \in Seq(Posting(Locs)), s # <<>>, Ascends(s),
           NEW b \in Nat, b <= s[1].doc, NEW r, GoodList(Locs, r, b)
    PROVE  /\ GoodList(Locs, s \o r, TopOf(s))
           /\ ToSet(s \o r) = ToSet(s) \cup ToSet(r)
<1> DEFINE n == Len(s)
           c == s \o r
<1>0. /\ n \in Nat \ {0} /\ DOMAIN s = 1..n /\ r \in Seq(Posting(Locs))
      /\ Len(r) \in Nat /\ DOMAIN r = 1..Len(r)
  BY DEF GoodList
<1>1. c \in Seq(Posting(Locs)) /\ Len(c) = n + Len(r) /\ DOMAIN c = 1..(n + Len(r))
  BY <1>0
<1>2. /\ \A i \in 1..n : i \in DOMAIN c /\ c[i] = s[i]
      /\ \A i \in 1..Len(r) : n + i \in DOMAIN c /\ c[n + i] = r[i]
  BY <1>0
<1>3. /\ \A i \in DOMAIN s : s[i].doc \in Nat /\ s[1].doc + i - 1 <= s[i].doc
      /\ \A i, j \in DOMAIN s : s[i].doc = s[j].doc => i = j
      /\ \A i \in DOMAIN s : s[i].doc < TopOf(s)
  BY PageAscends
<1>4. /\ \A i \in DOMAIN r : s[1].doc \in Nat /\ r[i].doc \in Nat /\ r[i].doc < b
      /\ \A i, j \in DOMAIN r : r[i].doc = r[j].doc => i = j
      /\ Len(r) <= b
  <2>1. ASSUME NEW i \in DOMAIN r PROVE r[i].doc \in Nat
    <3>1. r[i] \in Posting(Locs)
      BY <1>0
    <3> QED BY <3>1 DEF Posting
  <2>2. s[1].doc \in Nat
    BY <1>0, <1>3
  <2> QED BY <2>1, <2>2 DEF GoodList
<1> DEFINE InS(i) == i \in 1..n /\ c[i] = s[i]
           InR(i) == i - n \in DOMAIN r /\ c[i] = r[i - n]
<1>5. \A i \in DOMAIN c : InS(i) \/ InR(i)
  <2> TAKE i \in DOMAIN c
  <2>1. i \in 1..n \/ (i - n \in 1..Len(r) /\ n + (i - n) = i)
    <3> HIDE DEF n, c
    <3> QED BY <1>0, <1>1
  <2> HIDE DEF n, c
  <2> QED BY <1>0, <1>2, <2>1
<1> HIDE DEF c
<1>6. \A i \in DOMAIN s, j \in DOMAIN r : r[j].doc < s[i].doc /\ b <= s[i].doc
  <2> TAKE i \in DOMAIN s, j \in DOMAIN r
  <2>1. i \in Nat /\ i >= 1 /\ s[i].doc \in Nat /\ s[1].doc \in Nat /\ r[j].doc \in Nat
        /\ s[1].doc + i - 1 <= s[i].doc /\ r[j].doc < b /\ b <= s[1].doc
    BY <1>0, <1>3, <1>4
  <2> QED BY <2>1
<1>7. n \in DOMAIN s /\ TopOf(s) = s[n].doc + 1 /\ s[n].doc \in Nat
  BY <1>0, <1>3 DEF TopOf
<1>8. \A i \in DOMAIN c : c[i].doc < TopOf(s)
  <2> TAKE i \in DOMAIN c
  <2>1. CASE InS(i)
    BY <1>0, <1>3, <2>1
  <2>2. CASE InR(i)
    <3>1. c[i].doc < s[n].doc /\ c[i].doc \in Nat
      <4> HIDE DEF n
      <4> QED BY <1>4, <1>6, <1>7, <2>2
    <3> HIDE DEF n
    <3> QED BY <1>7, <3>1
  <2> HIDE DEF InS, InR
  <2> QED BY <1>5, <2>1, <2>2
<1>9. ASSUME NEW i \in DOMAIN c, NEW j \in DOMAIN c, c[i].doc = c[j].doc PROVE i = j
  <2> HIDE DEF n
  <2>1. CASE InS(i) /\ InS(j)
    BY <1>0, <1>3, <1>9, <2>1
  <2>2. CASE InR(i) /\ InR(j)
    <3>1. i - n = j - n
      BY <1>4, <1>9, <2>2
    <3>2. i \in Nat /\ j \in Nat /\ n \in Nat
      BY <1>0, <1>1
    <3> QED BY <3>1, <3>2
  <2>3. ASSUME NEW k \in DOMAIN s, NEW l \in DOMAIN r, s[k].doc = r[l].doc PROVE FALSE
    <3>1. r[l].doc < s[k].doc /\ r[l].doc \in Nat
      BY <1>4, <1>6
    <3> QED BY <2>3, <3>1
  <2>4. CASE InS(i) /\ InR(j)
    BY <1>0, <1>9, <2>3, <2>4
  <2>5. CASE InR(i) /\ InS(j)
    BY <1>0, <1>9, <2>3, <2>5
  <2> HIDE DEF InS, InR
  <2> QED BY <1>5, <2>1, <2>2, <2>4, <2>5
<1>10. Len(c) <= TopOf(s)
  <2>1. s[1].doc + n - 1 <= s[n].doc /\ s[1].doc \in Nat
    BY <1>0, <1>3
  <2> HIDE DEF n
  <2> QED BY <1>0, <1>1, <1>4, <1>7, <2>1
<1>11. GoodList(Locs, c, TopOf(s))
  BY <1>1, <1>8, <1>9, <1>10 DEF GoodList
<1>12. ToSet(s \o r) = ToSet(s) \cup ToSet(r)
  BY <1>0, ToSetJoined
<1> QED BY <1>11, <1>12 DEF c

(* Round by round of the walk. *)
PageByPage(N, m, n, from) ==
    \A p \in PostingPages(m, n) :
       /\ from[0][p] = <<>>
       /\ \A k \in 1..N :
            from[k][p] = m[p].postings \o IF m[p].next = NoPage THEN <<>>
                                          ELSE from[k-1][m[p].next]

(* The list from a page on is the postings of this page and the list from  *)
(* the next one.                                                           *)
LEMMA ListsPage ==
    ASSUME NEW h, NEW m, NEW n \in Nat, NEW own, NEW Locs,
           Chained(h, m, n, own), Filled(m, n, Locs),
           NEW N \in Nat, NEW from, Lists(N, m, FirstFree..(n - 1), from)
    PROVE  PageByPage(N, m, n, from)
<1> DEFINE P == PostingPages(m, n)
           A == FirstFree..(n - 1)
<1> SUFFICES ASSUME NEW p \in P
             PROVE  /\ from[0][p] = <<>>
                    /\ \A k \in 1..N :
                         from[k][p] = m[p].postings \o IF m[p].next = NoPage THEN <<>>
                                                       ELSE from[k-1][m[p].next]
  BY Zenon DEF PageByPage
<1>1. p \in A /\ m[p].kind = "posting" /\ AsPostings(m[p]) = m[p] /\ m[p].postings # <<>>
  BY DEF PostingPages, AsPostings, Filled
<1>2. \A k \in 0..N : from[k][p] =
          IF k = 0 \/ m[p].postings = <<>> THEN <<>>
          ELSE m[p].postings \o IF m[p].next = p \/ m[p].next \notin A THEN <<>>
                                ELSE from[k-1][m[p].next]
  <2> HIDE DEF A
  <2> DEFINE Row(k, id) ==
              IF k = 0 \/ AsPostings(m[id]).postings = <<>> THEN <<>>
              ELSE AsPostings(m[id]).postings
                   \o IF AsPostings(m[id]).next = id \/ AsPostings(m[id]).next \notin A THEN <<>>
                      ELSE from[k-1][AsPostings(m[id]).next]
  <2>1. \A k \in 0..N : from[k] = [id \in A |-> Row(k, id)]
    BY DEF Lists, A
  <2>2. \A k \in 0..N, id \in A : from[k][id] = Row(k, id)
    <3> HIDE DEF Row
    <3> QED BY <2>1
  <2> QED BY <1>1, <2>2
<1>3. m[p].next = NoPage => m[p].next \notin A
  BY DEF NoPage, FirstFree
<1>4. m[p].next # NoPage => m[p].next # p /\ m[p].next \in A
  <2> HAVE m[p].next # NoPage
  <2>1. m[p].next \in P /\ m[p].next < p
    BY DEF Chained
  <2>2. p \in Int /\ m[p].next \in A
    BY <2>1 DEF PostingPages, FirstFree
  <2> QED BY <2>1, <2>2
<1>5. from[0][p] = <<>>
  BY <1>2
<1>6. ASSUME NEW k \in 1..N
      PROVE  from[k][p] = m[p].postings \o IF m[p].next = NoPage THEN <<>>
                                           ELSE from[k-1][m[p].next]
  <2>1. k \in 0..N /\ k # 0
    OBVIOUS
  <2> HIDE DEF A
  <2> QED BY <1>1, <1>2, <1>3, <1>4, <2>1
<1> QED BY <1>5, <1>6

(* A page holds documents, and the page it links to earlier ones. *)
FilledPage(page, Locs) ==
    /\ page.postings \in Seq(Posting(Locs)) /\ page.postings # <<>>
    /\ Ascends(page.postings)
    /\ TopOf(page.postings) \in Nat /\ page.postings[1].doc \in Nat
    /\ page.postings[1].doc < TopOf(page.postings)

OlderNext(m, n, own, p) ==
    m[p].next # NoPage => /\ m[p].next \in PostingPages(m, n) /\ own[m[p].next] = own[p]
                          /\ TopOf(m[m[p].next].postings) <= m[p].postings[1].doc

(* The next page of a chain is of the same term and has no later document. *)
LEMMA OlderPages ==
    ASSUME NEW h, NEW m, NEW n \in Nat, NEW own, NEW Locs,
           Chained(h, m, n, own), Ascending(m, n), Filled(m, n, Locs)
    PROVE  \A p \in PostingPages(m, n) : FilledPage(m[p], Locs) /\ OlderNext(m, n, own, p)
<1> DEFINE P == PostingPages(m, n)
<1>1. \A p \in P : /\ m[p].postings \in Seq(Posting(Locs)) /\ m[p].postings # <<>>
                   /\ Ascends(m[p].postings)
                   /\ TopOf(m[p].postings) \in Nat /\ m[p].postings[1].doc \in Nat
                   /\ m[p].postings[1].doc < TopOf(m[p].postings)
  <2> TAKE p \in P
  <2>1. m[p].postings \in Seq(Posting(Locs)) /\ m[p].postings # <<>> /\ Ascends(m[p].postings)
    BY DEF Filled, Ascending
  <2>2. \A s \in Seq(Posting(Locs)) : s # <<>> => Len(s) \in DOMAIN s /\ 1 \in DOMAIN s
    OBVIOUS
  <2>3. m[p].postings[Len(m[p].postings)].doc \in Nat /\ m[p].postings[1].doc \in Nat
    BY <2>1, <2>2, PageAscends
  <2>4. m[p].postings[1].doc < TopOf(m[p].postings)
    BY <2>1, <2>2, PageAscends
  <2> QED BY <2>1, <2>3, <2>4 DEF TopOf
<1>2. \A p \in P : m[p].next # NoPage =>
          m[p].next \in P /\ own[m[p].next] = own[p]
          /\ TopOf(m[m[p].next].postings) <= m[p].postings[1].doc
  <2> TAKE p \in P
  <2> HAVE m[p].next # NoPage
  <2>1. m[p].next \in P /\ own[m[p].next] = own[p]
    BY DEF Chained
  <2> DEFINE q == m[p].next
             s == m[q].postings
             r == m[p].postings
  <2>2. \A i \in DOMAIN s, j \in DOMAIN r : s[i].doc < r[j].doc
    BY DEF Ascending
  <2>3. /\ s \in Seq(Posting(Locs)) /\ s # <<>> /\ r \in Seq(Posting(Locs)) /\ r # <<>>
        /\ TopOf(s) \in Nat /\ r[1].doc \in Nat
    BY <1>1, <2>1
  <2>4. ASSUME NEW z \in Seq(Posting(Locs)), z # <<>> PROVE Len(z) \in DOMAIN z /\ 1 \in DOMAIN z
    BY <2>4
  <2>5. s[Len(s)].doc < r[1].doc
    <3> HIDE DEF s, r
    <3> QED BY <2>2, <2>3, <2>4
  <2>6. s[Len(s)].doc \in Nat
    <3>1. Len(s) \in DOMAIN s /\ Ascends(s)
      BY <1>1, <2>1, <2>3, <2>4
    <3> HIDE DEF s
    <3> QED BY <2>3, <3>1, PageAscends
  <2>7. TopOf(s) <= r[1].doc
    <3> HIDE DEF s, r
    <3> QED BY <2>3, <2>5, <2>6 DEF TopOf
  <2> QED BY <2>1, <2>7
<1> QED BY <1>1, <1>2 DEF FilledPage, OlderNext

(* Every page leads to a list of entries of its term, none twice, and the  *)
(* page it links to holds earlier documents.                               *)
LEMMA ListedFrom ==
    ASSUME NEW h, NEW m, NEW n \in Nat, NEW own, NEW Locs,
           Chained(h, m, n, own), Ascending(m, n), Filled(m, n, Locs),
           NEW N \in Nat, NEW from, Lists(N, m, FirstFree..(n - 1), from)
    PROVE  \A k \in 0..N, p \in PostingPages(m, n) :
             /\ GoodList(Locs, from[k][p], TopOf(m[p].postings))
             /\ ToSet(from[k][p]) \subseteq Entries(m, n, own, own[p])
<1> DEFINE P == PostingPages(m, n)
           Good(k, p) == /\ GoodList(Locs, from[k][p], TopOf(m[p].postings))
                         /\ ToSet(from[k][p]) \subseteq Entries(m, n, own, own[p])
           G == {k \in 0..N : \A p \in P : Good(k, p)}
<1>0. \A p \in P :
        /\ from[0][p] = <<>>
        /\ \A k \in 1..N :
             from[k][p] = m[p].postings \o IF m[p].next = NoPage THEN <<>>
                                           ELSE from[k-1][m[p].next]
  <2>1. PageByPage(N, m, n, from)
    BY ListsPage
  <2> QED BY <2>1, Zenon DEF PageByPage
<1>1. \A b \in Nat : GoodList(Locs, <<>>, b) /\ ToSet(<<>>) = {}
  BY DEF GoodList, ToSet
<1>2. \A p \in P : /\ m[p].postings \in Seq(Posting(Locs)) /\ m[p].postings # <<>>
                   /\ Ascends(m[p].postings)
                   /\ TopOf(m[p].postings) \in Nat /\ m[p].postings[1].doc \in Nat
  BY OlderPages DEF FilledPage
<1>3. \A p \in P : m[p].next # NoPage =>
          m[p].next \in P /\ own[m[p].next] = own[p]
          /\ TopOf(m[m[p].next].postings) <= m[p].postings[1].doc
  BY OlderPages DEF OlderNext
<1>4. \A p \in P : ToSet(m[p].postings) \subseteq Entries(m, n, own, own[p])
  BY DEF Entries
<1>5. 0 \in G
  <2>1. \A p \in P : Good(0, p)
    <3> TAKE p \in P
    <3>1. from[0][p] = <<>> /\ TopOf(m[p].postings) \in Nat
      BY <1>0, <1>2
    <3>2. GoodList(Locs, <<>>, TopOf(m[p].postings)) /\ ToSet(<<>>) = {}
      BY <1>1, <3>1
    <3> QED BY <3>1, <3>2
  <2> HIDE DEF Good
  <2> QED BY <2>1
<1>6. ASSUME NEW k \in 1..N, k - 1 \in G PROVE k \in G
  <2> SUFFICES ASSUME NEW p \in P PROVE Good(k, p)
    OBVIOUS
  <2> DEFINE s == m[p].postings
             r == IF m[p].next = NoPage THEN <<>> ELSE from[k-1][m[p].next]
             b == IF m[p].next = NoPage THEN 0 ELSE TopOf(m[m[p].next].postings)
  <2>1. from[k][p] = s \o r
    BY <1>0
  <2>2. \A q \in P : Good(k - 1, q)
    BY <1>6
  <2>3. GoodList(Locs, r, b) /\ ToSet(r) \subseteq Entries(m, n, own, own[p])
        /\ b \in Nat /\ b <= s[1].doc
    <3>1. CASE m[p].next = NoPage
      BY <1>1, <1>2, <3>1
    <3>2. CASE m[p].next # NoPage
      <4>1. r = from[k-1][m[p].next] /\ b = TopOf(m[m[p].next].postings)
        BY <3>2
      <4>2. Good(k - 1, m[p].next) /\ own[m[p].next] = own[p] /\ b <= s[1].doc /\ b \in Nat
        BY <1>2, <1>3, <2>2, <3>2, <4>1
      <4> HIDE DEF r, b
      <4> QED BY <4>1, <4>2
    <3> QED BY <3>1, <3>2
  <2>4. s \in Seq(Posting(Locs)) /\ s # <<>> /\ Ascends(s)
        /\ ToSet(s) \subseteq Entries(m, n, own, own[p])
    BY <1>2, <1>4
  <2> HIDE DEF r, b, P
  <2>5. GoodList(Locs, s \o r, TopOf(s)) /\ ToSet(s \o r) = ToSet(s) \cup ToSet(r)
    <3> HIDE DEF s
    <3> QED BY <2>3, <2>4, Joined
  <2> QED BY <2>1, <2>3, <2>4, <2>5
<1> HIDE DEF G
<1>7. \A k \in 0..N : k \in G
  BY <1>5, <1>6, FromTheStart
<1> QED BY <1>7 DEF G

(* Every page is reached before the walk has to stop: it has as many       *)
(* rounds left as documents the page can still lead to.                    *)
LEMMA ListedAll ==
    ASSUME NEW h, NEW m, NEW n \in Nat, NEW own, NEW Locs,
           Chained(h, m, n, own), Ascending(m, n), Filled(m, n, Locs),
           NEW N \in Nat, NEW from, Lists(N, m, FirstFree..(n - 1), from),
           \A p \in PostingPages(m, n) : TopOf(m[p].postings) <= N
    PROVE  \A p \in PostingPages(m, n) :
              h[own[p]] # NoPage /\ ToSet(m[p].postings) \subseteq ToSet(from[N][h[own[p]]])
<1> DEFINE P == PostingPages(m, n)
           Goal(p) == ToSet(from[N][h[own[p]]])
           Reached(p) ==
              h[own[p]] # NoPage /\ \E k \in 0..N : /\ TopOf(m[p].postings) <= k
                                                    /\ ToSet(from[k][p]) \subseteq Goal(p)
           G == {p \in 1..n : p \in P => Reached(p)}
<1>1. \A p \in P : p \in Nat /\ p >= FirstFree /\ p < n /\ p \in 1..n /\ p # NoPage
  BY DEF PostingPages, FirstFree, NoPage
<1>2. \A p \in P : FilledPage(m[p], Locs) /\ OlderNext(m, n, own, p)
  BY OlderPages
<1>3. \A k \in 0..N, p \in P : GoodList(Locs, from[k][p], TopOf(m[p].postings))
  BY ListedFrom
<1>4. ASSUME NEW p \in P, NEW k \in 1..N, m[p].next # NoPage
      PROVE  ToSet(from[k][p]) = ToSet(m[p].postings) \cup ToSet(from[k-1][m[p].next])
  <2> DEFINE s == m[p].postings
             r == from[k-1][m[p].next]
  <2>1. from[k][p] = s \o r
    <3>1. PageByPage(N, m, n, from)
      BY ListsPage
    <3>2. from[k][p] = m[p].postings \o IF m[p].next = NoPage THEN <<>>
                                          ELSE from[k-1][m[p].next]
      BY <3>1, Zenon DEF PageByPage
    <3> QED BY <1>4, <3>2
  <2>2. s \in Seq(Posting(Locs)) /\ m[p].next \in P /\ k - 1 \in 0..N
    BY <1>2, <1>4 DEF FilledPage, OlderNext
  <2>3. r \in Seq(Posting(Locs))
    BY <1>3, <2>2 DEF GoodList
  <2> HIDE DEF s, r
  <2> QED BY <2>1, <2>2, <2>3, ToSetJoined DEF s, r
<1>5. ASSUME NEW p \in P, NEW k \in 1..N
      PROVE  ToSet(m[p].postings) \subseteq ToSet(from[k][p])
  <2>1. CASE m[p].next # NoPage
    BY <1>4, <2>1
  <2>2. CASE m[p].next = NoPage
    <3>1. PageByPage(N, m, n, from)
      BY ListsPage
    <3>2. from[k][p] = m[p].postings \o IF m[p].next = NoPage THEN <<>>
                                          ELSE from[k-1][m[p].next]
      BY <3>1, Zenon DEF PageByPage
    <3>3. m[p].postings \in Seq(Posting(Locs))
      BY <1>2 DEF FilledPage
    <3>4. \A s \in Seq(Posting(Locs)) : s \o <<>> = s
      OBVIOUS
    <3> QED BY <2>2, <3>2, <3>3, <3>4
  <2> QED BY <2>1, <2>2
<1>6. ASSUME NEW p \in 1..n, \A q \in 1..n : q > p => q \in G PROVE p \in G
  <2> SUFFICES ASSUME p \in P PROVE Reached(p)
    OBVIOUS
  <2>1. CASE p = h[own[p]]
    <3>1. N \in 0..N /\ TopOf(m[p].postings) <= N
      OBVIOUS
    <3> QED BY <1>1, <2>1, <3>1
  <2>2. CASE \E b \in P : m[b].next = p
    <3>1. PICK b \in P : m[b].next = p
      BY <2>2
    <3>2. p < b /\ own[p] = own[b] /\ p # NoPage
      BY <1>1, <3>1 DEF Chained
    <3>3. b \in 1..n /\ b > p
      BY <1>1, <3>2
    <3>4. Reached(b)
      BY <1>6, <3>3
    <3>5. PICK k \in 0..N : TopOf(m[b].postings) <= k /\ ToSet(from[k][b]) \subseteq Goal(b)
      BY <3>4
    <3>6. /\ TopOf(m[p].postings) <= m[b].postings[1].doc
          /\ m[b].postings[1].doc < TopOf(m[b].postings)
          /\ TopOf(m[p].postings) \in Nat /\ TopOf(m[b].postings) \in Nat
          /\ m[b].postings[1].doc \in Nat
      BY <1>2, <3>1, <3>2 DEF FilledPage, OlderNext
    <3>7. k \in 1..N /\ k - 1 \in 0..N /\ TopOf(m[p].postings) <= k - 1
      BY <3>5, <3>6
    <3>8. ToSet(from[k-1][p]) \subseteq Goal(p)
      BY <1>4, <3>1, <3>2, <3>5, <3>7
    <3>9. h[own[p]] # NoPage
      BY <3>2, <3>4
    <3> QED BY <3>7, <3>8, <3>9
  <2> QED BY <2>1, <2>2 DEF Chained
<1> HIDE DEF G
<1>7. \A p \in 1..n : p \in G
  BY <1>6, FromTheEnd
<1>8. ASSUME NEW p \in P
      PROVE  h[own[p]] # NoPage /\ ToSet(m[p].postings) \subseteq Goal(p)
  <2>1. Reached(p)
    BY <1>1, <1>7 DEF G
  <2>2. PICK k \in 0..N : TopOf(m[p].postings) <= k /\ ToSet(from[k][p]) \subseteq Goal(p)
    BY <2>1
  <2>3. TopOf(m[p].postings) \in Nat /\ m[p].postings[1].doc < TopOf(m[p].postings)
        /\ m[p].postings[1].doc \in Nat
    BY <1>2 DEF FilledPage
  <2>4. k \in 1..N
    BY <2>2, <2>3
  <2> QED BY <1>5, <2>1, <2>2, <2>4
<1> QED BY <1>8

(* The search in these terms. *)
Listing(h, m, n, t) ==
    LET A    == FirstFree..(n - 1)
        from == CHOOSE f : Lists(MaxListed, m, A, f)
        all  == IF h[t] \in A THEN from[MaxListed][h[t]] ELSE <<>>
    IN  SubSeq(all, 1, IF Len(all) < MaxListed THEN Len(all) ELSE MaxListed)

(* GetPostings is Listing on the parts of an index. *)
LEMMA ListingOfPostings ==
    ASSUME NEW h, NEW m, NEW n, NEW t
    PROVE  GetPostings([head |-> h, pages |-> m, next_page_id |-> n], t) = Listing(h, m, n, t)
<1> DEFINE ix == [head |-> h, pages |-> m, next_page_id |-> n]
<1>1. ix.head = h /\ ix.pages = m /\ ix.next_page_id = n
  OBVIOUS
<1> HIDE DEF ix
<1>2. GetPostings(ix, t) = Listing(ix.head, ix.pages, ix.next_page_id, t)
  BY Zenon DEF GetPostings, Listing, Lists
<1>3. GetPostings(ix, t) = Listing(h, m, n, t)
  BY <1>1, <1>2
<1> QED BY <1>3 DEF ix

(* On chains in order, and with room for all documents, a search lists the *)
(* postings of its term, every document once.                              *)
RoomForAll(m, n) == \A p \in PostingPages(m, n) : TopOf(m[p].postings) <= MaxListed

(* GetPostings returns the postings of its term, every document once. *)
LEMMA GetPostingsListsEntries ==
    ASSUME NEW h, NEW m, NEW n \in Nat, NEW own, NEW Locs,
           Chained(h, m, n, own), Ascending(m, n), Filled(m, n, Locs), RoomForAll(m, n),
           NEW t \in DOMAIN h, NEW s,
           s = GetPostings([head |-> h, pages |-> m, next_page_id |-> n], t)
    PROVE  /\ s \in Seq(Posting(Locs))
           /\ ToSet(s) = Entries(m, n, own, t)
           /\ \A i, j \in DOMAIN s : s[i].doc = s[j].doc => i = j
<1> DEFINE P == PostingPages(m, n)
           A == FirstFree..(n - 1)
           N == MaxListed
           from == CHOOSE f : Lists(N, m, A, f)
           all == IF h[t] \in A THEN from[N][h[t]] ELSE <<>>
           cut(z) == SubSeq(z, 1, IF Len(z) < N THEN Len(z) ELSE N)
<1>0. \A p \in P : TopOf(m[p].postings) <= N
  BY DEF RoomForAll
<1>1. s = cut(all)
  <2>1. s = Listing(h, m, n, t)
    BY ListingOfPostings
  <2> QED BY <2>1, Zenon DEF Listing
<1>2. N \in Nat
  BY MaxListedAssumption
<1>3. Lists(N, m, A, from)
  <2>1. \E f : Lists(N, m, A, f)
    BY <1>2, ListsExist
  <2> QED BY <2>1
<1> HIDE DEF from
<1>4. CASE h[t] = NoPage
  <2>1. h[t] \notin A
    BY <1>4 DEF NoPage, FirstFree
  <2>2. all = <<>> /\ cut(<<>>) = <<>>
    BY <1>2, <2>1
  <2>3. Entries(m, n, own, t) = {}
    <3>1. \A p \in P : own[p] # t
      BY <1>0, <1>2, <1>3, <1>4, ListedAll
    <3> QED BY <3>1 DEF Entries
  <2>4. s = <<>>
    <3> HIDE DEF all, cut
    <3> QED BY <1>1, <2>2
  <2>5. ToSet(<<>>) = {} /\ <<>> \in Seq(Posting(Locs)) /\ DOMAIN <<>> = {}
    BY DEF ToSet
  <2> QED BY <2>3, <2>4, <2>5
<1>5. CASE h[t] # NoPage
  <2> DEFINE p == h[t]
             z == from[N][p]
  <2>1. p \in P /\ own[p] = t /\ p \in A
    BY <1>5 DEF Chained, PostingPages
  <2>2. N \in 0..N
    BY <1>2
  <2>3. GoodList(Locs, z, TopOf(m[p].postings)) /\ ToSet(z) \subseteq Entries(m, n, own, t)
    BY <1>2, <1>3, <2>1, <2>2, ListedFrom
  <2>4. TopOf(m[p].postings) <= N /\ TopOf(m[p].postings) \in Nat
    BY <1>0, <2>1, OlderPages DEF FilledPage
  <2>5. z \in Seq(Posting(Locs)) /\ Len(z) <= N
    <3>1. z \in Seq(Posting(Locs)) /\ Len(z) <= TopOf(m[p].postings)
      BY <2>3 DEF GoodList
    <3>2. Len(z) \in Nat
      BY <3>1
    <3> HIDE DEF z
    <3> QED BY <1>2, <2>4, <3>1, <3>2
  <2>6. ASSUME NEW w \in Seq(Posting(Locs)), Len(w) <= N PROVE cut(w) = w
    <3>1. (IF Len(w) < N THEN Len(w) ELSE N) = Len(w)
      BY <1>2, <2>6
    <3>2. SubSeq(w, 1, Len(w)) = w
      OBVIOUS
    <3> QED BY <3>1, <3>2
  <2>7. s = z
    <3>1. all = z
      BY <2>1
    <3> HIDE DEF all, cut, z
    <3> QED BY <1>1, <2>5, <2>6, <3>1
  <2>8. ToSet(z) = Entries(m, n, own, t)
    <3>1. ASSUME NEW q \in P, own[q] = t PROVE ToSet(m[q].postings) \subseteq ToSet(z)
      BY <1>0, <1>2, <1>3, <3>1, ListedAll
    <3> HIDE DEF z
    <3>2. Entries(m, n, own, t) \subseteq ToSet(z)
      BY <3>1 DEF Entries
    <3> QED BY <2>3, <3>2
  <2> HIDE DEF z
  <2> QED BY <2>3, <2>7, <2>8 DEF GoodList
<1> QED BY <1>4, <1>5
-------------------------------------------------------------------------------
(***************************************************************************)
(* What inverted_index_add_posting changes of the entries.                 *)
(***************************************************************************)

(* An entry with its first position, or an earlier one with a position more *)
(* if there is room for it.                                                *)
OneMore(positions, pos) ==
    IF Len(positions) < MaxPositions THEN Append(positions, pos) ELSE positions

Begun(old, new, x, loc, pos) == x.loc = loc /\ x.positions = <<pos>> /\ old \subseteq new

Grown(old, x, doc, pos) ==
    \E e \in old : e.doc = doc /\ e.loc = x.loc /\ x.positions = OneMore(e.positions, pos)

(* The document has one entry more, or its entry another position; the     *)
(* entries of other documents stay.                                        *)
EntryAdded(old, new, doc, loc, pos) ==
    \E x \in new : /\ x.doc = doc
                   /\ Begun(old, new, x, loc, pos) \/ Grown(old, x, doc, pos)
                   /\ new \subseteq old \cup {x}
                   /\ \A e \in old : e.doc # doc => e \in new

(* A page without later documents, and what it is after a posting.         *)
NoneLater(page, doc) == \A i \in DOMAIN page.postings : page.postings[i].doc <= doc

PageGrown(page, doc, loc, pos, Locs, q) ==
    /\ q.kind = "posting" /\ q.next = page.next
    /\ q.postings \in Seq(Posting(Locs)) /\ q.postings # <<>>
    /\ Ascends(q.postings)
    /\ EntryAdded(ToSet(page.postings), ToSet(q.postings), doc, loc, pos)
    /\ \A i \in DOMAIN q.postings : \E j \in DOMAIN page.postings :
          page.postings[j].doc <= q.postings[i].doc

(* A sequence with one element more.                                       *)
LEMMA AppendedIs ==
    ASSUME NEW T, NEW s \in Seq(T), NEW x \in T, NEW r, r = Append(s, x)
    PROVE  /\ r \in Seq(T) /\ DOMAIN r = 1..(Len(s) + 1) /\ r # <<>>
           /\ \A i \in 1..Len(s) : r[i] = s[i]
           /\ r[Len(s) + 1] = x
  OBVIOUS

(* A page with a posting added that follows all it had.                    *)
LEMMA PageAfterEntries ==
    ASSUME NEW Locs, NEW page, page.postings \in Seq(Posting(Locs)), page.postings # <<>>,
           Ascends(page.postings),
           NEW doc \in Nat, NEW loc \in Locs, NEW pos \in Nat, NoneLater(page, doc),
           NEW q, PageAfter(page, doc, loc, pos, q)
    PROVE  PageGrown(page, doc, loc, pos, Locs, q)
<1> USE DEF NoneLater, PageGrown
<1> DEFINE s == page.postings
           n == Len(s)
           new == NewPosting(doc, loc, pos)
<1>0. /\ \A a, b : /\ PostingPage(a, b).kind = "posting" /\ PostingPage(a, b).postings = a
                   /\ PostingPage(a, b).next = b
      /\ n \in Nat /\ DOMAIN s = 1..n /\ n \in DOMAIN s
  BY DEF PostingPage
<1>1. \A i \in DOMAIN s : s[i].doc \in Nat
  BY PageAscends
<1>2. CASE EndsWith(s, doc) /\ q = PostingPage(AddPositionTo(s, pos), page.next)
  <2> DEFINE r == AddPositionTo(s, pos)
  <2>1. /\ r \in Seq(Posting(Locs)) /\ Len(r) = n
        /\ \A i \in 1..(n - 1) : r[i] = s[i]
        /\ r[n].doc = s[n].doc /\ r[n].loc = s[n].loc
        /\ r[n].positions = OneMore(s[n].positions, pos)
    BY AddPositionEffect DEF OneMore
  <2>2. s[n].doc = doc
    <3>1. Last(s) = s[n]
      BY DEF Last
    <3> QED BY <1>2, <3>1 DEF EndsWith
  <2>3. q.kind = "posting" /\ q.next = page.next /\ q.postings = r
    <3> HIDE DEF r
    <3> QED BY <1>0, <1>2 DEF r
  <2> HIDE DEF r
  <2>4. DOMAIN r = 1..n /\ r # <<>>
    BY <1>0, <2>1
  <2> HIDE DEF n, s
  <2>5. \A i \in 1..n : r[i].doc = s[i].doc /\ (i # n => r[i] = s[i])
    <3>1. \A i \in 1..n : i = n \/ i \in 1..(n - 1)
      BY <1>0
    <3> QED BY <2>1, <3>1
  <2>6. Ascends(r)
    BY <1>0, <2>4, <2>5 DEF Ascends, s
  <2>7. EntryAdded(ToSet(s), ToSet(r), doc, loc, pos)
    <3>1. r[n] \in ToSet(r) /\ r[n].doc = doc /\ s[n] \in ToSet(s) /\ s[n].doc = doc
          /\ s[n].loc = r[n].loc /\ r[n].positions = OneMore(s[n].positions, pos)
      BY <1>0, <2>1, <2>2, <2>4 DEF ToSet
    <3>2. ToSet(r) \subseteq ToSet(s) \cup {r[n]}
      BY <1>0, <2>4, <2>5 DEF ToSet
    <3>3. \A e \in ToSet(s) : e.doc # doc => e \in ToSet(r)
      BY <1>0, <2>2, <2>4, <2>5 DEF ToSet
    <3>4. Grown(ToSet(s), r[n], doc, pos)
      BY <3>1 DEF Grown
    <3> QED BY <3>1, <3>2, <3>3, <3>4 DEF EntryAdded
  <2>8. \A i \in DOMAIN r : i \in DOMAIN s /\ s[i].doc <= r[i].doc
    BY <1>0, <1>1, <2>4, <2>5
  <2> QED BY <2>1, <2>3, <2>4, <2>6, <2>7, <2>8 DEF s
<1>3. CASE ~EndsWith(s, doc) /\ q = PostingPage(Append(s, new), page.next)
  <2> DEFINE r == Append(s, new)
  <2>1. new \in Posting(Locs) /\ new.doc = doc /\ new.loc = loc /\ new.positions = <<pos>>
    BY DEF NewPosting, Posting
  <2> HIDE DEF new
  <2>2. /\ r \in Seq(Posting(Locs)) /\ DOMAIN r = 1..(n + 1) /\ r # <<>>
        /\ \A i \in 1..n : r[i] = s[i]
        /\ r[n + 1] = new
    <3>1. PICK t, x, u : t = s /\ x = new /\ u = r
      OBVIOUS
    <3>2. t \in Seq(Posting(Locs)) /\ x \in Posting(Locs) /\ u = Append(t, x)
      BY <2>1, <3>1
    <3> HIDE DEF s, r
    <3>3. /\ u \in Seq(Posting(Locs)) /\ DOMAIN u = 1..(Len(t) + 1) /\ u # <<>>
          /\ \A i \in 1..Len(t) : u[i] = t[i]
          /\ u[Len(t) + 1] = x
      BY <3>2, AppendedIs
    <3> QED BY <3>1, <3>3 DEF n
  <2>3. q.kind = "posting" /\ q.next = page.next /\ q.postings = r
    <3>1. PICK a, b : a = r /\ b = page.next
      OBVIOUS
    <3> HIDE DEF r
    <3>2. q = PostingPage(a, b)
      BY <1>3, <3>1 DEF r
    <3>3. q.kind = "posting" /\ q.next = b /\ q.postings = a
      BY ONLY <3>2 DEF PostingPage
    <3> QED BY <3>1, <3>3
  <2>4. s[n].doc # doc
    <3>1. Last(s) = s[n]
      BY DEF Last
    <3> QED BY <1>3, <3>1 DEF EndsWith
  <2>5. \A i \in DOMAIN s : s[i].doc < doc
    <3> TAKE i \in DOMAIN s
    <3>1. s[i].doc <= doc /\ s[n].doc <= doc /\ s[i].doc \in Nat /\ s[n].doc \in Nat
      BY <1>0, <1>1
    <3>2. i = n \/ i < n
      BY <1>0
    <3>3. i < n => s[i].doc < s[n].doc
      BY <1>0 DEF Ascends
    <3> HIDE DEF n, s
    <3>4. CASE i = n
      BY <2>4, <3>1, <3>4
    <3>5. CASE i < n
      BY <3>1, <3>3, <3>5
    <3> QED BY <3>2, <3>4, <3>5
  <2> HIDE DEF r
  <2>6. \A i \in DOMAIN r : (i \in DOMAIN s /\ r[i] = s[i]) \/ (i = n + 1 /\ r[i] = new)
    <3>1. \A i \in 1..(n + 1) : i \in 1..n \/ i = n + 1
      BY <1>0
    <3> HIDE DEF n, s
    <3> QED BY <1>0, <2>2, <3>1
  <2>7. Ascends(r)
    <3> SUFFICES ASSUME NEW i \in DOMAIN r, NEW j \in DOMAIN r, i < j
                 PROVE  r[i].doc < r[j].doc
      BY DEF Ascends
    <3>1. i \in DOMAIN s /\ r[i] = s[i]
      <4>1. i # n + 1
        <5> HIDE DEF n, s
        <5> QED BY <1>0, <2>2
      <4> QED BY <2>6, <4>1
    <3>2. CASE j \in DOMAIN s /\ r[j] = s[j]
      BY <3>1, <3>2 DEF Ascends
    <3>3. CASE r[j] = new
      BY <2>1, <2>5, <3>1, <3>3
    <3> QED BY <2>6, <3>2, <3>3
  <2> HIDE DEF n
  <2>8. EntryAdded(ToSet(s), ToSet(r), doc, loc, pos)
    <3>1. ToSet(s) \subseteq ToSet(r)
      <4>1. \A i \in DOMAIN s : i \in DOMAIN r /\ r[i] = s[i]
        <5> HIDE DEF s
        <5> QED BY <1>0, <2>2
      <4> QED BY <4>1 DEF ToSet
    <3>2. new \in ToSet(r)
      <4>1. n + 1 \in DOMAIN r
        <5> HIDE DEF s
        <5> QED BY <1>0, <2>2
      <4> QED BY <2>2, <4>1 DEF ToSet
    <3>3. ToSet(r) \subseteq ToSet(s) \cup {new}
      BY <2>6 DEF ToSet
    <3> HIDE DEF s
    <3>4. Begun(ToSet(s), ToSet(r), new, loc, pos)
      BY <2>1, <3>1 DEF Begun
    <3> QED BY <2>1, <3>1, <3>2, <3>3, <3>4 DEF EntryAdded
  <2>9. ASSUME NEW i \in DOMAIN r PROVE \E j \in DOMAIN s : s[j].doc <= r[i].doc
    <3>1. CASE i \in DOMAIN s /\ r[i] = s[i]
      <4>1. s[i].doc <= r[i].doc
        BY <1>1, <3>1
      <4> QED BY <3>1, <4>1
    <3>2. CASE r[i] = new
      <4>1. s[n].doc <= r[i].doc
        BY <1>0, <2>1, <3>2 DEF n
      <4> QED BY <1>0, <4>1
    <3> QED BY <2>6, <3>1, <3>2
  <2> HIDE DEF s
  <2> QED BY <2>2, <2>3, <2>7, <2>8, <2>9 DEF s
<1> QED BY <1>2, <1>3 DEF PageAfter

(* The entries of all terms, after a posting of one of them. *)
OneEntryMore(m, n, own, m2, n2, own2, T, t, doc, loc, pos) ==
    /\ EntryAdded(Entries(m, n, own, t), Entries(m2, n2, own2, t), doc, loc, pos)
    /\ \A s \in T \ {t} : Entries(m2, n2, own2, s) = Entries(m, n, own, s)

(* The head page of the chain has changed, to which no other links. *)
LEMMA HeadChanged ==
    ASSUME NEW h, NEW m, NEW n \in Nat, NEW own, NEW Locs,
           Chained(h, m, n, own), Ascending(m, n), Filled(m, n, Locs),
           NEW t \in DOMAIN h, h[t] # NoPage,
           \A p \in PostingPages(m, n) : m[p].next # h[t],
           NEW doc \in Nat, NEW loc \in Locs, NEW pos \in Nat,
           \A e \in Entries(m, n, own, t) : e.doc <= doc,
           NEW q, PageAfter(m[h[t]], doc, loc, pos, q),
           NEW m2, m2[h[t]] = q,
           \A p \in FirstFree..(n - 1) : p # h[t] => m2[p] = m[p]
    PROVE  /\ PostingPages(m2, n) = PostingPages(m, n)
           /\ Chained(h, m2, n, own) /\ Ascending(m2, n) /\ Filled(m2, n, Locs)
           /\ OneEntryMore(m, n, own, m2, n, own, DOMAIN h, t, doc, loc, pos)
<1> DEFINE P == PostingPages(m, n)
           c == h[t]
<1>1. c \in P /\ own[c] = t
  BY DEF Chained
<1>2. /\ m[c].postings \in Seq(Posting(Locs)) /\ m[c].postings # <<>>
      /\ Ascends(m[c].postings)
  BY <1>1 DEF Filled, Ascending
<1>3. \A i \in DOMAIN m[c].postings : m[c].postings[i].doc <= doc
  <2>1. \A e \in ToSet(m[c].postings) : e \in Entries(m, n, own, t)
    BY <1>1 DEF Entries
  <2>2. \A i \in DOMAIN m[c].postings : m[c].postings[i] \in ToSet(m[c].postings)
    BY DEF ToSet
  <2> QED BY <2>1, <2>2
<1>4. /\ q.kind = "posting" /\ q.next = m[c].next
      /\ q.postings \in Seq(Posting(Locs)) /\ q.postings # <<>>
      /\ Ascends(q.postings)
      /\ EntryAdded(ToSet(m[c].postings), ToSet(q.postings), doc, loc, pos)
      /\ \A i \in DOMAIN q.postings : \E j \in DOMAIN m[c].postings :
            m[c].postings[j].doc <= q.postings[i].doc
  <2>1. PICK page : page = m[c]
    OBVIOUS
  <2>2. NoneLater(page, doc)
    BY <1>3, <2>1 DEF NoneLater
  <2>3. page.postings \in Seq(Posting(Locs)) /\ page.postings # <<>> /\ Ascends(page.postings)
    BY <1>2, <2>1
  <2>4. PageAfter(page, doc, loc, pos, q)
    BY <2>1
  <2>5. PageGrown(page, doc, loc, pos, Locs, q)
    BY <2>2, <2>3, <2>4, PageAfterEntries
  <2> QED BY <2>1, <2>5 DEF PageGrown
<1>5. /\ PostingPages(m2, n) = P
      /\ \A p \in P : p # c => m2[p] = m[p]
      /\ m2[c] = q
  <2>1. \A p \in FirstFree..(n - 1) : p # c => m2[p] = m[p]
    OBVIOUS
  <2>2. m2[c].kind = "posting" /\ m[c].kind = "posting" /\ c \in FirstFree..(n - 1)
    BY <1>1, <1>4 DEF PostingPages
  <2> HIDE DEF c
  <2> QED BY <2>1, <2>2 DEF PostingPages, c
<1>6. \A p \in P : m2[p].next = m[p].next /\ m[p].next # c
  BY <1>4, <1>5
<1>7. Chained(h, m2, n, own)
  <2>1. \A p \in P : m2[p].next # NoPage =>
          m2[p].next \in P /\ m2[p].next < p /\ own[m2[p].next] = own[p]
    BY <1>6 DEF Chained
  <2>2. \A p \in P : /\ own[p] \in DOMAIN h
                     /\ p = h[own[p]] \/ \E b \in P : m2[b].next = p
    BY <1>6 DEF Chained
  <2>3. \A s \in DOMAIN h : h[s] # NoPage => h[s] \in P /\ own[h[s]] = s
    BY DEF Chained
  <2> HIDE DEF P, c
  <2> QED BY <1>5, <2>1, <2>2, <2>3 DEF Chained, P
<1>8. Ascending(m2, n)
  <2>1. ASSUME NEW p \in P PROVE Ascends(m2[p].postings)
    <3>1. p # c => m2[p] = m[p]
      BY <1>5
    <3>2. Ascends(m[p].postings)
      BY DEF Ascending
    <3>3. p = c => m2[p] = q
      BY <1>5
    <3> HIDE DEF c, P
    <3> QED BY <1>4, <3>1, <3>2, <3>3
  <2>2. ASSUME NEW p \in P, m2[p].next # NoPage
        PROVE  \A i \in DOMAIN m2[m2[p].next].postings, j \in DOMAIN m2[p].postings :
                  m2[m2[p].next].postings[i].doc < m2[p].postings[j].doc
    <3> DEFINE b == m[p].next
    <3>1. m2[p].next = b /\ b \in P /\ b # c /\ m2[b] = m[b] /\ b # NoPage
      BY <1>5, <1>6, <2>2 DEF Chained
    <3>2. \A i \in DOMAIN m[b].postings, j \in DOMAIN m[p].postings :
             m[b].postings[i].doc < m[p].postings[j].doc
      BY <3>1 DEF Ascending
    <3>3. CASE p # c
      <4>1. m2[p] = m[p]
        BY <1>5, <3>3
      <4> HIDE DEF b, c
      <4> QED BY <3>1, <3>2, <4>1
    <3>4. CASE p = c
      <4>1. m2[p] = q
        BY <1>5, <3>4
      <4>2. ASSUME NEW i \in DOMAIN m[b].postings, NEW j \in DOMAIN q.postings
            PROVE  m[b].postings[i].doc < q.postings[j].doc
        <5>1. PICK k \in DOMAIN m[c].postings : m[c].postings[k].doc <= q.postings[j].doc
          BY <1>4
        <5>2. m[b].postings[i].doc < m[c].postings[k].doc
          BY <3>2, <3>4
        <5>3. m[b].postings[i].doc \in Nat
          <6>1. m[b].postings \in Seq(Posting(Locs)) /\ Ascends(m[b].postings)
            BY <3>1 DEF Filled, Ascending
          <6> HIDE DEF b, c
          <6> QED BY <6>1, PageAscends
        <5>4. m[c].postings[k].doc \in Nat
          BY <1>2, PageAscends
        <5>5. q.postings[j].doc \in Nat
          BY <1>4, PageAscends
        <5> HIDE DEF b, c
        <5> QED BY <5>1, <5>2, <5>3, <5>4, <5>5
      <4> HIDE DEF b, c
      <4> QED BY <3>1, <4>1, <4>2
    <3> QED BY <3>3, <3>4
  <2> HIDE DEF P, c
  <2> QED BY <1>5, <2>1, <2>2 DEF Ascending
<1>9. Filled(m2, n, Locs)
  BY <1>4, <1>5 DEF Filled
<1>10. \A s \in DOMAIN h \ {t} : Entries(m2, n, own, s) = Entries(m, n, own, s)
  <2> TAKE s \in DOMAIN h \ {t}
  <2>1. {p \in P : own[p] = s} = {p \in PostingPages(m2, n) : own[p] = s}
    BY <1>5
  <2>2. \A p \in {p \in P : own[p] = s} : m2[p] = m[p]
    BY <1>1, <1>5
  <2>3. \A p \in {p \in P : own[p] = s} : ToSet(m2[p].postings) = ToSet(m[p].postings)
    BY <2>2
  <2> HIDE DEF P
  <2> QED BY <2>1, <2>3 DEF Entries, P
<1>11. EntryAdded(Entries(m, n, own, t), Entries(m2, n, own, t), doc, loc, pos)
  <2> DEFINE old == ToSet(m[c].postings)
             new == ToSet(q.postings)
             E == Entries(m, n, own, t)
             E2 == Entries(m2, n, own, t)
  <2>1. old \subseteq E /\ new \subseteq E2
    BY <1>1, <1>5 DEF Entries
  <2>2. E2 \subseteq E \cup new
    <3> SUFFICES ASSUME NEW e \in E2, e \notin new PROVE e \in E
      OBVIOUS
    <3>1. PICK p \in P : own[p] = t /\ e \in ToSet(m2[p].postings)
      BY <1>5 DEF Entries
    <3>2. p # c
      BY <1>5, <3>1
    <3>3. m2[p] = m[p]
      BY <1>5, <3>2
    <3> QED BY <3>1, <3>3 DEF Entries
  <2>3. E \subseteq E2 \cup old
    <3> SUFFICES ASSUME NEW e \in E, e \notin old PROVE e \in E2
      OBVIOUS
    <3>1. PICK p \in P : own[p] = t /\ e \in ToSet(m[p].postings)
      BY DEF Entries
    <3>2. p # c
      BY <3>1
    <3>3. m2[p] = m[p]
      BY <1>5, <3>2
    <3> QED BY <1>5, <3>1, <3>3 DEF Entries
  <2>4. EntryAdded(old, new, doc, loc, pos)
    BY <1>4
  <2> HIDE DEF old, new, E, E2
  <2>5. PICK x \in new : /\ x.doc = doc
                         /\ Begun(old, new, x, loc, pos) \/ Grown(old, x, doc, pos)
                         /\ new \subseteq old \cup {x}
                         /\ \A e \in old : e.doc # doc => e \in new
    BY <2>4 DEF EntryAdded
  <2>6. x \in E2 /\ E2 \subseteq E \cup {x} /\ \A e \in E : e.doc # doc => e \in E2
    BY <2>1, <2>2, <2>3, <2>5
  <2>7. Begun(E, E2, x, loc, pos) \/ Grown(E, x, doc, pos)
    BY <2>1, <2>3, <2>5 DEF Begun, Grown
  <2>8. EntryAdded(E, E2, doc, loc, pos)
    BY <2>5, <2>6, <2>7 DEF EntryAdded
  <2> QED BY <2>8 DEF E, E2
<1> HIDE DEF P, c
<1> QED BY <1>5, <1>7, <1>8, <1>9, <1>10, <1>11 DEF OneEntryMore, P

(* A page has been put in front of the chain. *)
PutInFront(h, m, n, own, t, posting, h2, m2, own2) ==
    /\ m2[n] = PostingPage(<<posting>>, h[t])
    /\ \A p \in FirstFree..(n - 1) : m2[p] = m[p]
    /\ h2 = [h EXCEPT ![t] = n]
    /\ own2[n] = t /\ \A p \in FirstFree..(n - 1) : own2[p] = own[p]

(* A new page in front of a chain keeps the chains, their order and what   *)
(* is on pages, and adds one entry.                                        *)
LEMMA HeadLinked ==
    ASSUME NEW h, NEW m, NEW n \in Nat, n >= FirstFree, NEW own, NEW Locs,
           Chained(h, m, n, own), Ascending(m, n), Filled(m, n, Locs),
           NEW t \in DOMAIN h,
           NEW doc \in Nat, NEW loc \in Locs, NEW pos \in Nat,
           \A e \in Entries(m, n, own, t) : e.doc <= doc,
           h[t] # NoPage => ~EndsWith(m[h[t]].postings, doc),
           NEW h2, NEW m2, NEW own2,
           PutInFront(h, m, n, own, t, NewPosting(doc, loc, pos), h2, m2, own2)
    PROVE  /\ Chained(h2, m2, n + 1, own2) /\ Ascending(m2, n + 1) /\ Filled(m2, n + 1, Locs)
           /\ OneEntryMore(m, n, own, m2, n + 1, own2, DOMAIN h, t, doc, loc, pos)
<1>0. /\ m2[n] = PostingPage(<<NewPosting(doc, loc, pos)>>, h[t])
      /\ \A p \in FirstFree..(n - 1) : m2[p] = m[p]
      /\ h2 = [h EXCEPT ![t] = n]
      /\ own2[n] = t /\ \A p \in FirstFree..(n - 1) : own2[p] = own[p]
  BY DEF PutInFront
<1> DEFINE P == PostingPages(m, n)
           P2 == PostingPages(m2, n + 1)
           x == NewPosting(doc, loc, pos)
<1>1. m2[n].kind = "posting" /\ m2[n].postings = <<x>> /\ m2[n].next = h[t]
  BY <1>0 DEF PostingPage
<1>2. x \in Posting(Locs) /\ x.doc = doc /\ x.loc = loc /\ x.positions = <<pos>>
  BY DEF NewPosting, Posting
<1> HIDE DEF x
<1>3. /\ P2 = P \cup {n} /\ n \notin P
      /\ \A p \in P : m2[p] = m[p] /\ own2[p] = own[p] /\ p \in Nat /\ p < n
      /\ NoPage \notin P2 /\ own2[n] = t
  <2>1. \A p : p \in FirstFree..((n + 1) - 1) <=> p \in FirstFree..(n - 1) \/ p = n
    BY DEF FirstFree
  <2>2. n \notin FirstFree..(n - 1) /\ \A p \in FirstFree..(n - 1) : p \in Nat /\ p < n
    BY DEF FirstFree
  <2>3. NoPage \notin FirstFree..((n + 1) - 1)
    BY DEF NoPage, FirstFree
  <2>4. P2 = P \cup {n}
    BY <1>0, <1>1, <2>1 DEF PostingPages
  <2> QED BY <1>0, <2>2, <2>3, <2>4 DEF PostingPages
<1>4. h[t] # NoPage => h[t] \in P /\ own[h[t]] = t
  BY DEF Chained
<1>5. DOMAIN h2 = DOMAIN h /\ h2[t] = n /\ \A s \in DOMAIN h \ {t} : h2[s] = h[s]
  BY <1>0
<1>6. \A p \in P : m[p].next # NoPage =>
        m[p].next \in P /\ m[p].next < p /\ own[m[p].next] = own[p]
  BY DEF Chained
<1>7. Chained(h2, m2, n + 1, own2)
  <2>1. ASSUME NEW p \in P2, m2[p].next # NoPage
        PROVE  m2[p].next \in P2 /\ m2[p].next < p /\ own2[m2[p].next] = own2[p]
    <3>1. CASE p = n
      BY <1>1, <1>3, <1>4, <2>1, <3>1
    <3>2. CASE p \in P
      BY <1>3, <1>6, <2>1, <3>2
    <3> QED BY <1>3, <3>1, <3>2
  <2>2. ASSUME NEW p \in P2
        PROVE  own2[p] \in DOMAIN h2 /\ (p = h2[own2[p]] \/ \E b \in P2 : m2[b].next = p)
    <3>1. CASE p = n
      BY <1>3, <1>5, <3>1
    <3>2. CASE p \in P
      <4>1. own[p] \in DOMAIN h /\ (p = h[own[p]] \/ \E b \in P : m[b].next = p)
        BY <3>2 DEF Chained
      <4>2. CASE \E b \in P : m[b].next = p
        BY <1>3, <1>5, <3>2, <4>1, <4>2
      <4>3. CASE p = h[own[p]]
        <5>1. CASE own[p] = t
          <6>1. m2[n].next = p /\ n \in P2
            BY <1>1, <1>3, <4>3, <5>1
          <6> QED BY <1>3, <1>5, <3>2, <4>1, <6>1
        <5>2. CASE own[p] # t
          BY <1>3, <1>5, <3>2, <4>1, <4>3, <5>2
        <5> QED BY <5>1, <5>2
      <4> QED BY <4>1, <4>2, <4>3
    <3> QED BY <1>3, <3>1, <3>2
  <2>3. ASSUME NEW s \in DOMAIN h2, h2[s] # NoPage PROVE h2[s] \in P2 /\ own2[h2[s]] = s
    <3>1. CASE s = t
      BY <1>3, <1>5, <3>1
    <3>2. CASE s # t
      <4>1. h2[s] = h[s]
        BY <1>5, <3>2
      <4>2. h[s] \in P /\ own[h[s]] = s
        BY <1>5, <2>3, <4>1 DEF Chained
      <4> QED BY <1>3, <4>1, <4>2
    <3> QED BY <3>1, <3>2
  <2> HIDE DEF P2
  <2> QED BY <2>1, <2>2, <2>3 DEF Chained, P2
<1>8. ASSUME h[t] # NoPage
      PROVE  \A i \in DOMAIN m[h[t]].postings : m[h[t]].postings[i].doc < doc
  <2> DEFINE s == m[h[t]].postings
  <2>1. s \in Seq(Posting(Locs)) /\ s # <<>> /\ Ascends(s) /\ ToSet(s) \subseteq Entries(m, n, own, t)
    BY <1>4, <1>8 DEF Filled, Ascending, Entries
  <2>2. ~EndsWith(s, doc)
    BY <1>8
  <2> HIDE DEF s
  <2>3. Len(s) \in DOMAIN s /\ DOMAIN s = 1..Len(s) /\ Len(s) \in Nat
    BY <2>1
  <2>4. s[Len(s)].doc # doc
    BY <2>1, <2>2 DEF EndsWith, Last
  <2>5. \A i \in DOMAIN s : s[i].doc <= doc /\ s[i].doc \in Nat
    <3>1. \A i \in DOMAIN s : s[i] \in ToSet(s)
      BY DEF ToSet
    <3>2. \A i \in DOMAIN s : s[i].doc \in Nat
      BY <2>1, PageAscends
    <3> QED BY <2>1, <3>1, <3>2
  <2>6. ASSUME NEW i \in DOMAIN s PROVE s[i].doc < doc
    <3>1. i = Len(s) \/ i < Len(s)
      BY <2>3
    <3>2. i < Len(s) => s[i].doc < s[Len(s)].doc
      BY <2>1, <2>3 DEF Ascends
    <3>3. s[i].doc <= doc /\ s[i].doc \in Nat /\ s[Len(s)].doc <= doc /\ s[Len(s)].doc \in Nat
      BY <2>3, <2>5
    <3>4. CASE i = Len(s)
      BY <2>4, <3>3, <3>4
    <3>5. CASE i < Len(s)
      BY <3>2, <3>3, <3>5
    <3> QED BY <3>1, <3>4, <3>5
  <2> QED BY <2>6 DEF s
<1>9. DOMAIN <<x>> = {1} /\ <<x>>[1] = x /\ <<x>> \in Seq(Posting(Locs)) /\ <<x>> # <<>>
  BY <1>2
<1>10. Ascending(m2, n + 1)
  <2>1. ASSUME NEW p \in P2 PROVE Ascends(m2[p].postings)
    <3>1. p \in P => Ascends(m[p].postings)
      BY DEF Ascending
    <3>2. Ascends(<<x>>)
      BY <1>9 DEF Ascends
    <3> QED BY <1>1, <1>3, <3>1, <3>2
  <2>2. ASSUME NEW p \in P2, m2[p].next # NoPage
        PROVE  \A i \in DOMAIN m2[m2[p].next].postings, j \in DOMAIN m2[p].postings :
                  m2[m2[p].next].postings[i].doc < m2[p].postings[j].doc
    <3>1. CASE p = n
      <4>1. m2[p].next = h[t] /\ h[t] # NoPage /\ m2[h[t]] = m[h[t]] /\ m2[p].postings = <<x>>
        BY <1>1, <1>3, <1>4, <2>2, <3>1
      <4>2. \A i \in DOMAIN m[h[t]].postings : m[h[t]].postings[i].doc < x.doc
        BY <1>2, <1>8, <4>1
      <4> QED BY <1>9, <4>1, <4>2
    <3>2. CASE p \in P
      <4> DEFINE b == m[p].next
      <4>1. m2[p] = m[p] /\ b # NoPage
        BY <1>3, <2>2, <3>2
      <4>2. b \in P /\ m2[b] = m[b]
        BY <1>3, <1>6, <3>2, <4>1
      <4>3. \A i \in DOMAIN m[b].postings, j \in DOMAIN m[p].postings :
               m[b].postings[i].doc < m[p].postings[j].doc
        BY <3>2, <4>1 DEF Ascending
      <4>4. m2[p].next = b
        BY <4>1
      <4> HIDE DEF b
      <4> QED BY <4>1, <4>2, <4>3, <4>4
    <3> QED BY <1>3, <3>1, <3>2
  <2> HIDE DEF P2
  <2> QED BY <2>1, <2>2 DEF Ascending, P2
<1>11. Filled(m2, n + 1, Locs)
  <2>1. \A p \in P : m[p].postings \in Seq(Posting(Locs)) /\ m[p].postings # <<>>
    BY DEF Filled
  <2>2. \A p \in P2 : m2[p].postings \in Seq(Posting(Locs)) /\ m2[p].postings # <<>>
    BY <1>1, <1>3, <1>9, <2>1
  <2> QED BY <2>2 DEF Filled
<1>12. \A s \in DOMAIN h \ {t} : Entries(m2, n + 1, own2, s) = Entries(m, n, own, s)
  <2> TAKE s \in DOMAIN h \ {t}
  <2>1. {p \in P : own[p] = s} = {p \in P2 : own2[p] = s}
    BY <1>3
  <2>2. \A p \in {p \in P : own[p] = s} : ToSet(m2[p].postings) = ToSet(m[p].postings)
    BY <1>3
  <2> HIDE DEF P, P2
  <2> QED BY <2>1, <2>2 DEF Entries, P, P2
<1>13. Entries(m2, n + 1, own2, t) = Entries(m, n, own, t) \cup {x}
  <2>1. {p \in P2 : own2[p] = t} = {p \in P : own[p] = t} \cup {n}
    BY <1>3
  <2>2. \A p \in {p \in P : own[p] = t} : ToSet(m2[p].postings) = ToSet(m[p].postings)
    BY <1>3
  <2>3. ToSet(m2[n].postings) = {x}
    BY <1>1, <1>9 DEF ToSet
  <2> HIDE DEF P, P2
  <2> QED BY <2>1, <2>2, <2>3 DEF Entries, P, P2
<1>14. EntryAdded(Entries(m, n, own, t), Entries(m2, n + 1, own2, t), doc, loc, pos)
  <2> DEFINE E == Entries(m, n, own, t)
             E2 == Entries(m2, n + 1, own2, t)
  <2>1. E2 = E \cup {x}
    BY <1>13
  <2> HIDE DEF E, E2
  <2>2. EntryAdded(E, E2, doc, loc, pos)
    BY <1>2, <2>1 DEF EntryAdded, Begun
  <2> QED BY <2>2 DEF E, E2
<1> QED BY <1>7, <1>10, <1>11, <1>12, <1>14 DEF OneEntryMore
-----------------------------------------------------------------------------
(***************************************************************************)
(* The merge of a phrase search.                                           *)
(***************************************************************************)

ListsOk(lists, K) ==
    /\ K \in Nat /\ K >= 1 /\ DOMAIN lists = 1..K
    /\ \A i \in 1..K : lists[i] \in Seq(Posting(Nat))

(* A posting of the first list whose document has the phrase, as far as    *)
(* the lists say.                                                          *)
Meets(lists, K, z) ==
    \E at : /\ \A i \in 1..K : at[i] \in DOMAIN lists[i] /\ lists[i][at[i]].doc = z.doc
            /\ PositionsMeet([i \in 1..K |-> lists[i][at[i]]])

AllAscend(lists, K) == \A i \in 1..K : Ascends(lists[i])

(* After n postings of the first list: what was found is right, and on     *)
(* lists in order no cursor has passed a document still to come, and       *)
(* nothing was missed.                                                     *)
Merged(lists, K, acc, n) ==
    /\ \A i \in 2..K : acc.cursors[i] \in 1..(Len(lists[i]) + 1)
    /\ acc.found \in Seq(Posting(Nat)) /\ \A z \in ToSet(acc.found) : Meets(lists, K, z)
    /\ AllAscend(lists, K) =>
         /\ \A i \in 2..K : \A b \in 1..(acc.cursors[i] - 1) : \A m \in (n + 1)..Len(lists[1]) :
               lists[i][b].doc < lists[1][m].doc
         /\ \A m \in 1..n : Meets(lists, K, lists[1][m]) => lists[1][m] \in ToSet(acc.found)

(* A cursor stops at the first document that is not earlier. *)
LEMMA MovedTo ==
    ASSUME NEW list \in Seq(Posting(Nat)), NEW cursor \in 1..(Len(list) + 1), NEW doc \in Nat,
           NEW c, c = Moved(list, cursor, doc)
    PROVE  /\ c \in cursor..(Len(list) + 1)
           /\ c <= Len(list) => list[c].doc >= doc
           /\ \A b \in cursor..(c - 1) : list[b].doc < doc
<1> DEFINE N == Len(list)
           S == {x \in cursor..(N + 1) : x <= N => list[x].doc >= doc}
           Stops(x) == /\ x <= N => list[x].doc >= doc
                       /\ \A b \in cursor..(x - 1) : list[b].doc < doc
<1>1. /\ N \in Nat /\ cursor \in Nat /\ cursor >= 1 /\ cursor <= N + 1
      /\ \A x \in 1..N : list[x].doc \in Nat
  <2>1. N \in Nat /\ \A x \in 1..N : list[x] \in Posting(Nat)
    OBVIOUS
  <2>2. \A x \in 1..N : list[x].doc \in Nat
    BY <2>1 DEF Posting
  <2> HIDE DEF N
  <2> QED BY <2>1, <2>2 DEF N
<1>2. S \in SUBSET Nat /\ N + 1 \in S
  BY <1>1
<1>3. PICK x \in S : \A y \in S : x <= y
  <2> HIDE DEF S
  <2> QED BY <1>2, LeastOne
<1>4. x \in cursor..(N + 1) /\ (x <= N => list[x].doc >= doc)
  OBVIOUS
<1>5. ASSUME NEW b \in cursor..(x - 1) PROVE list[b].doc < doc
  <2>1. b \in cursor..(N + 1) /\ b \in 1..N /\ ~(x <= b)
    BY <1>1, <1>4
  <2>2. b \notin S
    BY <1>3, <2>1
  <2>3. ~(list[b].doc >= doc)
    BY <2>1, <2>2
  <2> QED BY <1>1, <2>1, <2>3
<1>6. Stops(x)
  BY <1>4, <1>5
<1>7. c = CHOOSE y \in cursor..(N + 1) : Stops(y)
  BY DEF Moved
<1> HIDE DEF Stops, S
<1>8. c \in cursor..(N + 1) /\ Stops(c)
  BY <1>4, <1>6, <1>7, Zenon
<1> QED BY <1>8 DEF Stops

(* One round of the merge. *)
LEMMA MergedRound ==
    ASSUME NEW lists, NEW K, ListsOk(lists, K), NEW n \in 1..Len(lists[1]),
           NEW acc, Merged(lists, K, acc, n - 1), NEW new, new = PhraseRound(lists, acc, n)
    PROVE  Merged(lists, K, new, n)
<1>1. /\ K \in Nat /\ K >= 1 /\ DOMAIN lists = 1..K /\ 1 \in 1..K
      /\ \A i \in 1..K : lists[i] \in Seq(Posting(Nat))
  BY DEF ListsOk
<1>2. PICK first, N, z, doc : first = lists[1] /\ N = Len(first) /\ z = first[n] /\ doc = z.doc
  OBVIOUS
<1>3. /\ first \in Seq(Posting(Nat)) /\ N \in Nat /\ DOMAIN first = 1..N /\ n \in 1..N
      /\ \A m \in 1..N : first[m] \in Posting(Nat) /\ first[m].doc \in Nat
      /\ z \in Posting(Nat) /\ doc \in Nat
  <2>1. first \in Seq(Posting(Nat)) /\ n \in 1..N
    BY <1>1, <1>2
  <2>2. N \in Nat /\ DOMAIN first = 1..N /\ \A m \in 1..N : first[m] \in Posting(Nat)
    BY <1>2, <2>1
  <2> QED BY <1>2, <2>1, <2>2 DEF Posting
<1> DEFINE at == [i \in DOMAIN lists |-> IF i = 1 THEN n
                                          ELSE Moved(lists[i], acc.cursors[i], lists[1][n].doc)]
           is(i, d) == at[i] <= Len(lists[i]) /\ lists[i][at[i]].doc = d
           has(i) == is(i, doc)
           here   == [i \in DOMAIN lists |-> lists[i][at[i]]]
<1>4. \A i \in 1..K : at[i] = IF i = 1 THEN n ELSE Moved(lists[i], acc.cursors[i], doc)
  BY <1>1, <1>2
<1>5. /\ \A i \in 1..K : new.cursors[i] = at[i] \/ new.cursors[i] = acc.cursors[i]
      /\ new.found = IF (\A i \in 1..K : has(i)) /\ PositionsMeet(here)
                     THEN Append(acc.found, z) ELSE acc.found
  <2>1. new = [cursors |-> [i \in DOMAIN lists |->
                              IF \A j \in 2..(i - 1) : is(j, lists[1][n].doc)
                              THEN at[i] ELSE acc.cursors[i]],
               found   |-> IF (\A i \in DOMAIN lists : is(i, lists[1][n].doc)) /\ PositionsMeet(here)
                           THEN Append(acc.found, lists[1][n]) ELSE acc.found]
    BY DEF PhraseRound
  <2> HIDE DEF at, is, here
  <2>2. /\ new.cursors = [i \in DOMAIN lists |->
                             IF \A j \in 2..(i - 1) : is(j, lists[1][n].doc)
                             THEN at[i] ELSE acc.cursors[i]]
        /\ new.found = IF (\A i \in DOMAIN lists : is(i, lists[1][n].doc)) /\ PositionsMeet(here)
                       THEN Append(acc.found, lists[1][n]) ELSE acc.found
    BY <2>1
  <2>3. \A i \in 1..K : new.cursors[i] = at[i] \/ new.cursors[i] = acc.cursors[i]
    BY <1>1, <2>2
  <2> QED BY <1>1, <1>2, <2>2, <2>3
<1> HIDE DEF at
<1>6. ASSUME NEW i \in 2..K
      PROVE  /\ Len(lists[i]) \in Nat /\ acc.cursors[i] \in 1..(Len(lists[i]) + 1)
             /\ at[i] \in acc.cursors[i]..(Len(lists[i]) + 1)
             /\ at[i] <= Len(lists[i]) => lists[i][at[i]].doc >= doc
             /\ \A b \in acc.cursors[i]..(at[i] - 1) : lists[i][b].doc < doc
  <2>1. PICK list, cursor, c : list = lists[i] /\ cursor = acc.cursors[i] /\ c = at[i]
    OBVIOUS
  <2>2. i \in 1..K /\ i # 1
    BY <1>1
  <2>3. list \in Seq(Posting(Nat)) /\ cursor \in 1..(Len(list) + 1) /\ c = Moved(list, cursor, doc)
    BY <1>1, <1>4, <2>1, <2>2 DEF Merged
  <2>4. /\ c \in cursor..(Len(list) + 1)
        /\ c <= Len(list) => list[c].doc >= doc
        /\ \A b \in cursor..(c - 1) : list[b].doc < doc
    BY <1>3, <2>3, MovedTo
  <2>5. Len(list) \in Nat
    BY <2>3
  <2> QED BY <2>1, <2>3, <2>4, <2>5
<1>7. at[1] = n
  BY <1>1, <1>4
<1>8. ASSUME NEW i \in 1..K PROVE at[i] \in Nat /\ at[i] >= 1
  <2>1. CASE i = 1
    BY <1>3, <1>7, <2>1
  <2>2. CASE i # 1
    <3>1. i \in 2..K
      BY <1>1, <2>2
    <3> QED BY <1>6, <3>1
  <2> QED BY <2>1, <2>2
<1>9. ASSUME NEW i \in 2..K PROVE new.cursors[i] = at[i] \/ new.cursors[i] = acc.cursors[i]
  <2>1. i \in 1..K
    BY <1>1
  <2> HIDE DEF has, here
  <2> QED BY <1>5, <2>1
<1>10. ASSUME NEW i \in 2..K PROVE new.cursors[i] \in 1..(Len(lists[i]) + 1)
  <2>1. at[i] \in 1..(Len(lists[i]) + 1)
    BY <1>6
  <2> QED BY <1>6, <1>9, <2>1
<1>11. acc.found \in Seq(Posting(Nat)) /\ \A x \in ToSet(acc.found) : Meets(lists, K, x)
  BY DEF Merged
<1>12. ASSUME (\A i \in 1..K : has(i)) /\ PositionsMeet(here) PROVE Meets(lists, K, z)
  <2>0. here = [i \in 1..K |-> lists[i][at[i]]]
    BY <1>1
  <2>1. \A i \in 1..K : at[i] \in DOMAIN lists[i] /\ lists[i][at[i]].doc = z.doc
    <3> TAKE i \in 1..K
    <3>1. at[i] <= Len(lists[i]) /\ lists[i][at[i]].doc = doc
      BY <1>12
    <3>2. DOMAIN lists[i] = 1..Len(lists[i]) /\ Len(lists[i]) \in Nat
      BY <1>1
    <3> QED BY <1>2, <1>8, <3>1, <3>2
  <2> HIDE DEF here
  <2>2. PositionsMeet([i \in 1..K |-> lists[i][at[i]]])
    BY <1>12, <2>0
  <2> QED BY <2>1, <2>2 DEF Meets
<1>13. /\ new.found \in Seq(Posting(Nat))
       /\ \A x \in ToSet(new.found) : x \in ToSet(acc.found) \/ (x = z /\ Meets(lists, K, z))
       /\ ToSet(acc.found) \subseteq ToSet(new.found)
       /\ (\A i \in 1..K : has(i)) /\ PositionsMeet(here) => z \in ToSet(new.found)
  <2>1. PICK old, M : old = acc.found /\ M = Len(old)
    OBVIOUS
  <2>2. PICK more : more = Append(old, z)
    OBVIOUS
  <2>3. /\ old \in Seq(Posting(Nat)) /\ M \in Nat /\ DOMAIN old = 1..M
        /\ more \in Seq(Posting(Nat)) /\ DOMAIN more = 1..(M + 1)
        /\ more[M + 1] = z /\ \A j \in 1..M : more[j] = old[j]
    BY <1>3, <1>11, <2>1, <2>2
  <2>4. \A j : j \in 1..(M + 1) <=> j \in 1..M \/ j = M + 1
    BY <2>3
  <2>5. ToSet(more) = ToSet(old) \cup {z}
    BY <2>3, <2>4 DEF ToSet
  <2> HIDE DEF has, here
  <2> QED BY <1>5, <1>12, <2>1, <2>2, <2>3, <2>5
<1> HIDE DEF is, has, here
<1>14. ASSUME AllAscend(lists, K), NEW m \in 1..N, n < m PROVE doc < first[m].doc
  <2>1. Ascends(first)
    BY <1>1, <1>2, <1>14 DEF AllAscend
  <2> QED BY <1>2, <1>3, <1>14, <2>1 DEF Ascends
<1>15. ASSUME AllAscend(lists, K), NEW i \in 2..K, NEW b \in 1..(acc.cursors[i] - 1),
              NEW m \in n..N
       PROVE  lists[i][b].doc < first[m].doc
  <2>1. m \in ((n - 1) + 1)..Len(lists[1])
    BY <1>2, <1>3
  <2> QED BY <1>2, <1>15, <2>1 DEF Merged
<1>16. ASSUME AllAscend(lists, K), NEW i \in 2..K, NEW b \in 1..(at[i] - 1)
       PROVE  b \in DOMAIN lists[i] /\ lists[i][b].doc < doc
  <2>1. /\ i \in 1..K /\ at[i] \in Nat /\ acc.cursors[i] \in Nat /\ acc.cursors[i] >= 1
        /\ at[i] <= Len(lists[i]) + 1 /\ Len(lists[i]) \in Nat
    <3>1. PICK l, c : l = Len(lists[i]) /\ c = acc.cursors[i]
      OBVIOUS
    <3>2. l \in Nat /\ c \in 1..(l + 1) /\ at[i] \in c..(l + 1)
      BY <1>6, <3>1
    <3> QED BY <1>1, <3>1, <3>2
  <2>2. PICK list, c : list = lists[i] /\ c = acc.cursors[i]
    OBVIOUS
  <2>3. b \in 1..Len(list)
    BY <2>1, <2>2
  <2>4. DOMAIN list = 1..Len(list)
    BY <1>1, <2>1, <2>2
  <2>5. CASE b < c
    <3>1. b \in 1..(c - 1) /\ n \in n..N
      BY <1>3, <2>1, <2>2, <2>5
    <3> QED BY <1>2, <1>15, <1>16, <2>2, <2>3, <2>4, <3>1
  <2>6. CASE ~(b < c)
    <3>1. b \in c..(at[i] - 1)
      BY <2>1, <2>2, <2>6
    <3> QED BY <1>6, <2>2, <2>3, <2>4, <3>1
  <2> QED BY <2>5, <2>6
<1>17. ASSUME AllAscend(lists, K), NEW i \in 2..K, NEW b \in 1..(new.cursors[i] - 1),
              NEW m \in (n + 1)..N
       PROVE  lists[i][b].doc < first[m].doc
  <2>1. m \in 1..N /\ m \in n..N /\ n < m
    BY <1>3
  <2>2. CASE new.cursors[i] = acc.cursors[i]
    BY <1>15, <1>17, <2>1, <2>2
  <2>3. CASE new.cursors[i] = at[i]
    <3>1. b \in DOMAIN lists[i] /\ lists[i][b].doc < doc /\ doc < first[m].doc
      BY <1>14, <1>16, <1>17, <2>1, <2>3
    <3>2. lists[i][b] \in Posting(Nat)
      <4>1. lists[i] \in Seq(Posting(Nat))
        BY <1>1
      <4> QED BY <3>1, <4>1
    <3>3. PICK d, e \in Nat : d = lists[i][b].doc /\ e = first[m].doc
      BY <1>3, <2>1, <3>2 DEF Posting
    <3> QED BY <1>3, <3>1, <3>3
  <2> QED BY <1>9, <2>2, <2>3
<1>18. ASSUME AllAscend(lists, K), Meets(lists, K, z)
       PROVE  (\A i \in 1..K : has(i)) /\ PositionsMeet(here)
  <2>1. PICK there : /\ \A i \in 1..K : there[i] \in DOMAIN lists[i] /\ lists[i][there[i]].doc = doc
                     /\ PositionsMeet([i \in 1..K |-> lists[i][there[i]]])
    BY <1>2, <1>18 DEF Meets
  <2>2. ASSUME NEW i \in 1..K PROVE at[i] = there[i]
    <3>1. PICK list, a, b : list = lists[i] /\ a = at[i] /\ b = there[i]
      OBVIOUS
    <3>2. /\ list \in Seq(Posting(Nat)) /\ b \in DOMAIN list /\ list[b].doc = doc
          /\ DOMAIN list = 1..Len(list) /\ Len(list) \in Nat /\ a \in Nat /\ a >= 1
      BY <1>1, <1>8, <2>1, <3>1
    <3>3. \A x \in DOMAIN list : list[x].doc \in Nat
      <4> TAKE x \in DOMAIN list
      <4>1. list[x] \in Posting(Nat)
        BY <3>2
      <4> QED BY <4>1 DEF Posting
    <3>4. \A x, y \in DOMAIN list : x < y => list[x].doc < list[y].doc
      BY <1>18, <3>1 DEF AllAscend, Ascends
    <3>5. CASE i = 1
      <4>1. a \in DOMAIN list /\ list[a].doc = doc
        BY <1>2, <1>3, <1>7, <3>1, <3>5
      <4>2. ~(a < b) /\ ~(b < a)
        BY <3>2, <3>3, <3>4, <4>1
      <4> QED BY <3>1, <3>2, <4>2
    <3>6. CASE i # 1
      <4>1. i \in 2..K
        BY <1>1, <3>6
      <4>2. ~(b < a)
        <5>1. ASSUME b < a PROVE FALSE
          <6>1. b \in 1..(a - 1)
            BY <3>2, <5>1
          <6>2. list[b].doc < doc
            BY <1>16, <1>18, <3>1, <4>1, <6>1
          <6> QED BY <1>3, <3>2, <6>2
        <5> QED BY <5>1
      <4>3. a <= Len(list) /\ a \in DOMAIN list
        BY <3>2, <4>2
      <4>4. list[a].doc >= doc
        BY <1>6, <3>1, <4>1, <4>3
      <4>5. ~(a < b)
        <5>1. ASSUME a < b PROVE FALSE
          <6>1. list[a].doc < doc
            BY <3>2, <3>4, <4>3, <5>1
          <6>2. PICK d \in Nat : d = list[a].doc
            BY <3>3, <4>3
          <6> QED BY <1>3, <4>4, <6>1, <6>2
        <5> QED BY <5>1
      <4> QED BY <3>1, <3>2, <4>2, <4>5
    <3> QED BY <3>5, <3>6
  <2>3. \A i \in 1..K : has(i)
    <3> TAKE i \in 1..K
    <3>1. at[i] = there[i] /\ there[i] \in DOMAIN lists[i] /\ lists[i][there[i]].doc = doc
      BY <2>1, <2>2
    <3>2. DOMAIN lists[i] = 1..Len(lists[i]) /\ Len(lists[i]) \in Nat
      BY <1>1
    <3> QED BY <3>1, <3>2 DEF has, is
  <2>4. here = [i \in 1..K |-> lists[i][there[i]]]
    BY <1>1, <2>2 DEF here
  <2> QED BY <2>1, <2>3, <2>4
<1>19. ASSUME AllAscend(lists, K), NEW m \in 1..n, Meets(lists, K, first[m])
       PROVE  first[m] \in ToSet(new.found)
  <2>1. CASE m = n
    BY <1>2, <1>13, <1>18, <1>19, <2>1
  <2>2. CASE m # n
    <3>1. m \in 1..(n - 1)
      BY <1>3, <2>2
    <3> QED BY <1>2, <1>13, <1>19, <3>1 DEF Merged
  <2> QED BY <2>1, <2>2
<1>20. \A x \in ToSet(new.found) : Meets(lists, K, x)
  BY <1>11, <1>13
<1> QED BY <1>2, <1>10, <1>13, <1>17, <1>19, <1>20 DEF Merged

(* The merge after each posting of the first list. *)
Rounds(N, lists, f) ==
    f = [n \in 0..N |->
            IF n = 0 THEN [cursors |-> [i \in DOMAIN lists |-> 1], found |-> <<>>]
            ELSE PhraseRound(lists, f[n - 1], n)]

LEMMA RoundsExist ==
    ASSUME NEW N \in Nat, NEW lists
    PROVE  \E f : Rounds(N, lists, f)
<1> DEFINE first == [cursors |-> [i \in DOMAIN lists |-> 1], found |-> <<>>]
           Row(n, x) == IF n = 0 THEN first ELSE PhraseRound(lists, x, n)
           Is(k, f) == f = [n \in 0..k |-> Row(n, f[n-1])]
           G == {k \in 0..N : \E f : Is(k, f)}
<1>0. \A f : Is(N, f) <=> Rounds(N, lists, f)
  BY Zenon DEF Rounds
<1> HIDE DEF first
<1>1. 0 \in G
  <2> DEFINE f == [n \in 0..0 |-> first]
  <2>1. \A x : Row(0, x) = first
    BY DEF Row
  <2> HIDE DEF Row
  <2>2. f = [n \in 0..0 |-> Row(n, f[n-1])]
    BY <2>1
  <2> HIDE DEF f
  <2> QED BY <2>2
<1> HIDE DEF Row
<1>2. ASSUME NEW k \in 1..N, k - 1 \in G PROVE k \in G
  <2>1. PICK g : Is(k - 1, g)
    BY <1>2
  <2> DEFINE f == [n \in 0..k |-> IF n = k THEN Row(k, g[k-1]) ELSE g[n]]
  <2>2. \A n \in 0..(k-1) : f[n] = g[n] /\ n \in 0..k
    OBVIOUS
  <2>3. \A n \in 0..(k-1) : g[n] = Row(n, g[n-1])
    BY <2>1
  <2>4. f[k] = Row(k, g[k-1]) /\ k # 0 /\ k - 1 \in 0..(k-1)
    OBVIOUS
  <2>5. f = [n \in 0..k |-> f[n]]
    OBVIOUS
  <2>6. Row(0, f[0-1]) = Row(0, g[0-1])
    BY DEF Row
  <2> HIDE DEF f
  <2>7. \A n \in 0..k : f[n] = Row(n, f[n-1])
    <3> TAKE n \in 0..k
    <3>1. CASE n = k
      BY <2>2, <2>4, <3>1
    <3>2. CASE n = 0
      BY <2>2, <2>3, <2>4, <2>6, <3>2
    <3>3. CASE n # k /\ n # 0
      <4>1. n \in 0..(k-1) /\ n - 1 \in 0..(k-1)
        BY <3>3
      <4> QED BY <2>2, <2>3, <4>1
    <3> QED BY <3>1, <3>2, <3>3
  <2>8. [n \in 0..k |-> f[n]] = [n \in 0..k |-> Row(n, f[n-1])]
    BY <2>7
  <2>9. Is(k, f)
    BY <2>5, <2>8, Zenon
  <2> QED BY <2>9
<1> HIDE DEF G
<1>3. \A k \in 0..N : k \in G
  BY <1>1, <1>2, FromTheStart
<1>4. \E f : Is(N, f)
  BY <1>3 DEF G
<1> QED BY <1>0, <1>4

(* What a phrase search finds in the lists of its terms: postings whose    *)
(* documents have the phrase, and on lists in order all of them.           *)
LEMMA PhraseMerged ==
    ASSUME NEW ix, NEW phrase, NEW K, Len(phrase) = K, K # 1, DOMAIN phrase = 1..K,
           NEW lists, lists = [i \in DOMAIN phrase |-> GetPostings(ix, phrase[i])],
           ListsOk(lists, K), NEW found, found = PhrasePostings(ix, phrase)
    PROVE  /\ found \in Seq(Posting(Nat))
           /\ \A z \in ToSet(found) : Meets(lists, K, z)
           /\ AllAscend(lists, K) => \A m \in DOMAIN lists[1] :
                 Meets(lists, K, lists[1][m]) => lists[1][m] \in ToSet(found)
<1>1. /\ K \in Nat /\ DOMAIN lists = 1..K /\ 1 \in 1..K
      /\ \A i \in 1..K : lists[i] \in Seq(Posting(Nat))
  BY DEF ListsOk
<1>2. PICK N, first : first = lists[1] /\ N = Len(first)
  OBVIOUS
<1>3. first \in Seq(Posting(Nat)) /\ N \in Nat /\ DOMAIN first = 1..N
  BY <1>1, <1>2
<1>4. found = IF \E i \in DOMAIN lists : lists[i] = <<>> THEN <<>>
              ELSE ((CHOOSE f : Rounds(Len(lists[1]), lists, f))[Len(lists[1])]).found
  <2> DEFINE all == [i \in DOMAIN phrase |-> GetPostings(ix, phrase[i])]
  <2>1. lists = all
    OBVIOUS
  <2>2. found = IF Len(phrase) = 1 THEN all[1]
                ELSE IF \E i \in DOMAIN all : all[i] = <<>> THEN <<>>
                ELSE ((CHOOSE f : Rounds(Len(all[1]), all, f))[Len(all[1])]).found
    BY Zenon DEF PhrasePostings, Rounds
  <2> HIDE DEF all
  <2> QED BY <2>1, <2>2
<1>5. CASE \E i \in DOMAIN lists : lists[i] = <<>>
  <2>1. PICK i \in 1..K : lists[i] = <<>>
    BY <1>1, <1>5
  <2>2. DOMAIN lists[i] = {}
    BY <2>1
  <2>3. \A z : ~Meets(lists, K, z)
    BY <2>2 DEF Meets
  <2>4. found = <<>> /\ ToSet(<<>>) = {} /\ <<>> \in Seq(Posting(Nat))
    BY <1>4, <1>5 DEF ToSet
  <2> QED BY <2>3, <2>4
<1>6. CASE ~\E i \in DOMAIN lists : lists[i] = <<>>
  <2>1. PICK f : f = CHOOSE g : Rounds(N, lists, g)
    OBVIOUS
  <2>2. Rounds(N, lists, f)
    <3>1. \E g : Rounds(N, lists, g)
      BY <1>3, RoundsExist
    <3> QED BY <2>1, <3>1, Zenon
  <2>3. found = f[N].found
    BY <1>2, <1>4, <1>6, <2>1
  <2>4. \A n \in 0..N : f[n] = IF n = 0 THEN [cursors |-> [i \in DOMAIN lists |-> 1], found |-> <<>>]
                              ELSE PhraseRound(lists, f[n - 1], n)
    BY <2>2 DEF Rounds
  <2> DEFINE G == {n \in 0..N : Merged(lists, K, f[n], n)}
  <2>5. 0 \in G
    <3>1. PICK acc : acc = f[0]
      OBVIOUS
    <3>2. acc = [cursors |-> [i \in 1..K |-> 1], found |-> <<>>] /\ 0 \in 0..N
      <4>1. 0 \in 0..N
        BY <1>3
      <4>2. acc = [cursors |-> [i \in DOMAIN lists |-> 1], found |-> <<>>]
        BY <2>4, <3>1, <4>1
      <4> QED BY <1>1, <4>1, <4>2
    <3>3. acc.found = <<>> /\ <<>> \in Seq(Posting(Nat)) /\ ToSet(<<>>) = {}
      BY <3>2 DEF ToSet
    <3>4. \A i \in 2..K : acc.cursors[i] = 1 /\ i \in 1..K
      BY <1>1, <3>2
    <3>5. \A i \in 2..K : acc.cursors[i] \in 1..(Len(lists[i]) + 1)
      <4> TAKE i \in 2..K
      <4>1. Len(lists[i]) \in Nat
        BY <1>1, <3>4
      <4> QED BY <3>4, <4>1
    <3>6. \A i \in 2..K : 1..(acc.cursors[i] - 1) = {}
      BY <3>4
    <3>7. Merged(lists, K, acc, 0)
      <4>1. 1..0 = {}
        OBVIOUS
      <4> QED BY <3>3, <3>5, <3>6, <4>1 DEF Merged
    <3> QED BY <3>1, <3>2, <3>7
  <2>6. ASSUME NEW n \in 1..N, n - 1 \in G PROVE n \in G
    <3>1. PICK old, new : old = f[n - 1] /\ new = f[n]
      OBVIOUS
    <3>2. n \in 0..N /\ n # 0 /\ n \in 1..Len(lists[1])
      BY <1>2, <1>3
    <3>3. Merged(lists, K, old, n - 1) /\ new = PhraseRound(lists, old, n)
      BY <2>4, <2>6, <3>1, <3>2
    <3>4. Merged(lists, K, new, n)
      BY <3>2, <3>3, MergedRound
    <3> QED BY <3>1, <3>2, <3>4
  <2> HIDE DEF G
  <2>7. \A n \in 0..N : n \in G
    BY <1>3, <2>5, <2>6, FromTheStart
  <2>8. PICK acc : acc = f[N]
    OBVIOUS
  <2>9. Merged(lists, K, acc, N)
    BY <1>3, <2>7, <2>8 DEF G
  <2>10. found = acc.found
    BY <2>3, <2>8
  <2> QED BY <1>2, <1>3, <2>9, <2>10 DEF Merged
<1> QED BY <1>5, <1>6
===============================================================================
