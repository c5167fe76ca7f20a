----------------------------- MODULE LeastElement -----------------------------
(* The least-number principle, as a fact about sets, and what follows from *)
(* it without an operator as a parameter: induction over the places of a   *)
(* sequence, and walks along it that a recursive function describes.       *)
EXTENDS Integers, Sequences, WellFoundedInduction, TLAPS

(* Every set of naturals that is not empty has a least one: the first free *)
(* entry of the registry, the first larger key of a leaf.                  *)
LEMMA LeastOne ==
    ASSUME NEW S \in SUBSET Nat, S # {}
    PROVE  \E i \in S : \A j \in S : i <= j
<1>1. \E i \in S : \A j \in S : <<j, i>> \notin OpToRel(<, Nat)
  BY NatLessThanWellFounded, WFMin
<1>2. \A i, j \in S : <<j, i>> \in OpToRel(<, Nat) <=> j < i
  BY DEF OpToRel
<1>3. \E i \in S : \A j \in S : ~(j < i)
  BY <1>1, <1>2, Zenon
<1> QED BY <1>3

(* Every such set that has a bound has a greatest one: the last page of    *)
(* records of a file.                                                      *)
LEMMA GreatestOne ==
    ASSUME NEW S \in SUBSET Nat, S # {},
           NEW b \in Nat, \A i \in S : i <= b
    PROVE  \E i \in S : \A j \in S : j <= i
<1> DEFINE D == {b - i : i \in S}
<1>0. \A i \in S : i \in Nat /\ i <= b /\ b - i \in Nat
  OBVIOUS
<1>1. D \in SUBSET Nat /\ D # {}
  BY <1>0
<1>2. PICK d \in D : \A e \in D : d <= e
  BY <1>1, LeastOne
<1>3. PICK i \in S : d = b - i
  OBVIOUS
<1>4. ASSUME NEW j \in S PROVE j <= i
  <2>1. b - j \in D
    OBVIOUS
  <2>2. b - i <= b - j
    BY <1>2, <1>3, <2>1
  <2> QED BY <1>0, <2>2
<1> QED BY <1>4
-------------------------------------------------------------------------------
(* Induction from the far end, for a set of places: what holds of a place  *)
(* whenever it holds of all later ones holds of every place.               *)
LEMMA FromTheEnd ==
    ASSUME NEW N \in Nat, NEW G,
           \A m \in 1..N : (\A k \in 1..N : k > m => k \in G) => m \in G
    PROVE  \A m \in 1..N : m \in G
<1> DEFINE S == 1..N \ G
<1>1. S \in SUBSET Nat /\ \A i \in S : i <= N
  OBVIOUS
<1>2. ASSUME S # {} PROVE FALSE
  <2>1. PICK m \in S : \A k \in S : k <= m
    <3> HIDE DEF S
    <3> QED BY <1>1, <1>2, GreatestOne
  <2>2. \A k \in 1..N : k > m => k \in G
    <3> TAKE k \in 1..N
    <3>1. k \in S => k <= m
      BY <2>1
    <3>2. k \in S => ~(k > m)
      BY <3>1
    <3> QED BY <3>2
  <2> QED BY <2>2
<1> QED BY <1>2

(* A walk over the places 1..N that leaves every place for a later one,    *)
(* and the sequence it collects from each place on.                        *)
GoesOn(N, stops, next) == \A i \in 1..N \ stops : next[i] \in (i + 1)..N

Collects(N, stops, next, last, part, f) ==
    f = [i \in 1..N |-> IF i \in stops THEN last[i] ELSE part[i] \o f[next[i]]]

(* Such a walk is well defined...                                          *)
LEMMA WalkExists ==
    ASSUME NEW N \in Nat, NEW stops, NEW next, NEW last, NEW part,
           GoesOn(N, stops, next)
    PROVE  \E f : Collects(N, stops, next, last, part, f)
<1> USE DEF GoesOn
<1> DEFINE Walks(f, m) == f = [i \in m..N |-> IF i \in stops THEN last[i]
                                              ELSE part[i] \o f[next[i]]]
           Exists(m) == \E f : Walks(f, m)
           G == {m \in 1..(N + 1) : Exists(m)}
<1>1. Exists(N + 1)
  <2> DEFINE e == [i \in (N + 1)..N |-> 0]
  <2>1. (N + 1)..N = {}
    OBVIOUS
  <2>2. \A f : [i \in (N + 1)..N |-> IF i \in stops THEN last[i] ELSE part[i] \o f[next[i]]] = e
    BY <2>1
  <2>3. Walks(e, N + 1)
    BY <2>2
  <2> HIDE DEF e, Walks
  <2> QED BY <2>3
<1>2. ASSUME NEW m \in 1..N, Exists(m + 1) PROVE Exists(m)
  <2>1. PICK g : Walks(g, m + 1)
    BY <1>2
  <2> DEFINE f == [i \in m..N |-> IF i = m THEN IF m \in stops THEN last[m]
                                                ELSE part[m] \o g[next[m]]
                                  ELSE g[i]]
  <2>2. \A i \in (m + 1)..N : f[i] = g[i]
    OBVIOUS
  <2>3. \A i \in m..N : i \notin stops => next[i] \in (m + 1)..N
    OBVIOUS
  <2>4. \A i \in m..N : f[i] = IF i \in stops THEN last[i] ELSE part[i] \o f[next[i]]
    <3> TAKE i \in m..N
    <3>1. i \notin stops => g[next[i]] = f[next[i]]
      BY <2>2, <2>3
    <3>2. f[i] = IF i \in stops THEN last[i] ELSE part[i] \o g[next[i]]
      <4>1. CASE i = m
        BY <4>1
      <4>2. CASE i # m
        <5>1. i \in (m + 1)..N /\ f[i] = g[i]
          BY <2>2, <4>2
        <5> HIDE DEF f
        <5> QED BY <2>1, <5>1
      <4> QED BY <4>1, <4>2
    <3> HIDE DEF f
    <3> QED BY <3>1, <3>2
  <2>5. Walks(f, m)
    <3>1. f = [i \in m..N |-> f[i]]
      OBVIOUS
    <3> HIDE DEF f
    <3>2. [i \in m..N |-> f[i]]
          = [i \in m..N |-> IF i \in stops THEN last[i] ELSE part[i] \o f[next[i]]]
      BY <2>4
    <3> QED BY <3>1, <3>2
  <2> HIDE DEF f, Walks
  <2> QED BY <2>5
<1> HIDE DEF Exists
<1>3. \A m \in 1..(N + 1) : m \in G
  <2>1. \A m \in 1..(N + 1) : (\A k \in 1..(N + 1) : k > m => k \in G) => m \in G
    <3> TAKE m \in 1..(N + 1)
    <3> HAVE \A k \in 1..(N + 1) : k > m => k \in G
    <3>1. CASE m = N + 1
      BY <1>1, <3>1
    <3>2. CASE m # N + 1
      <4>1. m \in 1..N /\ m + 1 \in 1..(N + 1) /\ m + 1 > m
        BY <3>2
      <4> QED BY <1>2, <4>1
    <3> QED BY <3>1, <3>2
  <2> HIDE DEF G
  <2>2. N + 1 \in Nat
    OBVIOUS
  <2> QED BY <2>1, <2>2, FromTheEnd
<1>4. Exists(1)
  BY <1>3
<1> QED BY <1>4 DEF Exists, Collects

(* ...and what it collects has the type of its parts.                      *)
LEMMA WalkTyped ==
    ASSUME NEW N \in Nat, NEW stops, NEW next, NEW last, NEW part, NEW f, NEW T,
           GoesOn(N, stops, next), Collects(N, stops, next, last, part, f),
           \A i \in 1..N : IF i \in stops THEN last[i] \in Seq(T) ELSE part[i] \in Seq(T)
    PROVE  \A i \in 1..N : f[i] \in Seq(T)
<1> DEFINE G == {i \in 1..N : f[i] \in Seq(T)}
<1>0. \A i \in 1..N : f[i] = IF i \in stops THEN last[i] ELSE part[i] \o f[next[i]]
  BY DEF Collects
<1>1. ASSUME NEW m \in 1..N, \A k \in 1..N : k > m => k \in G
      PROVE  m \in G
  <2>1. CASE m \in stops
    BY <1>0, <2>1
  <2>2. CASE m \notin stops
    <3>1. next[m] \in 1..N /\ next[m] > m
      BY <2>2 DEF GoesOn
    <3>2. f[next[m]] \in Seq(T)
      BY <1>1, <3>1
    <3>3. f[m] = part[m] \o f[next[m]] /\ part[m] \in Seq(T)
      BY <1>0, <2>2
    <3>4. part[m] \o f[next[m]] \in Seq(T)
      BY <3>2, <3>3
    <3> QED BY <3>3, <3>4
  <2> QED BY <2>1, <2>2
<1> HIDE DEF G
<1>2. \A m \in 1..N : m \in G
  BY <1>1, FromTheEnd
<1> QED BY <1>2 DEF G
-------------------------------------------------------------------------------
(* Induction from the start.                                               *)
LEMMA FromTheStart ==
    ASSUME NEW N \in Nat, NEW G, 0 \in G,
           \A n \in 1..N : n - 1 \in G => n \in G
    PROVE  \A n \in 0..N : n \in G
<1> DEFINE S == 0..N \ G
<1>1. ASSUME S # {} PROVE FALSE
  <2>1. S \in SUBSET Nat
    OBVIOUS
  <2>2. PICK n \in S : \A k \in S : n <= k
    <3> HIDE DEF S
    <3> QED BY <1>1, <2>1, LeastOne
  <2>3. n \in 1..N /\ n - 1 \in 0..N /\ ~(n <= n - 1)
    OBVIOUS
  <2>4. n - 1 \in S
    BY <2>3
  <2> HIDE DEF S
  <2> QED BY <2>2, <2>3, <2>4
<1> QED BY <1>1

(* A function repeated: what it gives after 0, 1, ... N rounds.            *)
Repeats(N, first, F, f) == f = [n \in 0..N |-> IF n = 0 THEN first ELSE F[f[n-1]]]

(* A function can be repeated any number of times. *)
LEMMA RepeatExists ==
    ASSUME NEW N \in Nat, NEW first, NEW F
    PROVE  \E f : Repeats(N, first, F, f)
<1> DEFINE G == {m \in 0..N : \E f : Repeats(m, first, F, f)}
<1>1. 0 \in G
  <2> DEFINE f == [n \in 0..0 |-> first]
  <2>1. f = [n \in 0..0 |-> IF n = 0 THEN first ELSE F[f[n-1]]]
    OBVIOUS
  <2> HIDE DEF f
  <2> QED BY <2>1 DEF Repeats
<1>2. ASSUME NEW m \in 1..N, m - 1 \in G PROVE m \in G
  <2>1. PICK g : Repeats(m - 1, first, F, g)
    BY <1>2
  <2> DEFINE f == [n \in 0..m |-> IF n = m THEN F[g[m-1]] ELSE g[n]]
  <2>2. \A n \in 0..(m-1) : f[n] = g[n] /\ n \in 0..m
    OBVIOUS
  <2>3. \A n \in 0..(m-1) : g[n] = IF n = 0 THEN first ELSE F[g[n-1]]
    BY <2>1 DEF Repeats
  <2>4. f[m] = F[g[m-1]] /\ m # 0 /\ m - 1 \in 0..(m-1)
    OBVIOUS
  <2>5. f = [n \in 0..m |-> f[n]]
    OBVIOUS
  <2> HIDE DEF f
  <2>6. \A n \in 0..m : f[n] = IF n = 0 THEN first ELSE F[f[n-1]]
    <3> TAKE n \in 0..m
    <3>1. CASE n = m
      BY <2>2, <2>4, <3>1
    <3>2. CASE n # m
      <4>1. n \in 0..(m-1) /\ (n # 0 => n - 1 \in 0..(m-1))
        BY <3>2
      <4> QED BY <2>2, <2>3, <4>1
    <3> QED BY <3>1, <3>2
  <2>7. [n \in 0..m |-> f[n]] = [n \in 0..m |-> IF n = 0 THEN first ELSE F[f[n-1]]]
    BY <2>6
  <2>8. Repeats(m, first, F, f)
    BY <2>5, <2>7, Zenon DEF Repeats
  <2> QED BY <2>8
<1> HIDE DEF G
<1>3. \A m \in 0..N : m \in G
  BY <1>1, <1>2, FromTheStart
<1> QED BY <1>3 DEF G

(* A repeated function stays in a set it keeps. *)
LEMMA RepeatTyped ==
    ASSUME NEW N \in Nat, NEW first, NEW F, NEW f, Repeats(N, first, F, f),
           NEW S, first \in S, \A x \in S : F[x] \in S
    PROVE  \A n \in 0..N : f[n] \in S
<1> DEFINE G == {n \in 0..N : f[n] \in S}
<1>0. \A n \in 0..N : f[n] = IF n = 0 THEN first ELSE F[f[n-1]]
  BY DEF Repeats
<1>1. 0 \in G
  BY <1>0
<1>2. ASSUME NEW n \in 1..N, n - 1 \in G PROVE n \in G
  <2>1. n \in 0..N /\ n # 0
    OBVIOUS
  <2> QED BY <1>0, <1>2, <2>1
<1> HIDE DEF G
<1>3. \A n \in 0..N : n \in G
  BY <1>1, <1>2, FromTheStart
<1> QED BY <1>3 DEF G
===============================================================================
