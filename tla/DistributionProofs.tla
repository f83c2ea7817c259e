------------------------- MODULE DistributionProofs -------------------------
(***************************************************************************)
(* Theorems about Distribution and Sampling: the names of one subscription *)
(* are all different and show what the unlock filter asked for, and the    *)
(* reservoir of a weighted sample keeps the entries with the largest keys, *)
(* for every pool, every sample size and every draw of keys.               *)
(***************************************************************************)
EXTENDS Distribution, FiniteSetTheorems, WellFoundedInduction, TLAPS

-----------------------------------------------------------------------------
(* Names *)

(* Flag and full name of a region tell it from every other.                 *)
LEMMA RegionsTold ==
    ASSUME NEW r, NEW t, flagFor(r) = flagFor(t), RegionName(r) = RegionName(t)
    PROVE  r = t
<1>1. CASE r \in DOMAIN Flag \/ t \in DOMAIN Flag
  <2>1. \A x \in DOMAIN Flag : Flag[x] # ""
    BY FlagAssumption DEF Range
  <2>2. r \in DOMAIN Flag /\ t \in DOMAIN Flag /\ Flag[r] = Flag[t]
    BY <1>1, <2>1 DEF flagFor
  <2> QED BY <2>2, FlagAssumption DEF IsInjective
<1>2. CASE r \notin DOMAIN Flag /\ t \notin DOMAIN Flag
  BY <1>2, FlagAssumption DEF RegionName
<1> QED BY <1>1, <1>2

(* A name of an answer is that of a node of its region, with its place.     *)
LEMMA NameOf ==
    ASSUME NEW S, NEW requested, NEW mode, NEW a \in Answers(S, requested, mode),
           NEW j \in DOMAIN a
    PROVE  \E e \in S : a[j] = Render(e, j, assembleUnlockFlags(e, requested, mode))
<1>1. PICK s \in Numbered(S) : a = Names(s, requested, mode)
  BY DEF Answers
<1>2. s \in [1..Cardinality(S) -> S]
  BY DEF Numbered
<1>3. DOMAIN a = DOMAIN s /\ a[j] = Render(s[j], j, assembleUnlockFlags(s[j], requested, mode))
  BY <1>1 DEF Names
<1> QED BY <1>2, <1>3

(* The same name twice is the same place in the same region.                *)
LEMMA NamesDiffer ==
    ASSUME NEW requested, NEW mode, NEW r, NEW t,
           NEW a \in Answers(In(selected, r), requested, mode),
           NEW b \in Answers(In(selected, t), requested, mode),
           NEW j \in DOMAIN a, NEW k \in DOMAIN b, a[j] = b[k]
    PROVE  r = t /\ j = k
<1>1. PICK e \in In(selected, r) :
        a[j] = Render(e, j, assembleUnlockFlags(e, requested, mode))
  BY NameOf
<1>2. PICK f \in In(selected, t) :
        b[k] = Render(f, k, assembleUnlockFlags(f, requested, mode))
  BY NameOf
<1>3. RegionOf[e] = r /\ RegionOf[f] = t
  BY DEF In
<1>4. /\ a[j].seq = j /\ a[j].region_flag = flagFor(r)
      /\ a[j].region = IF preset = "common" THEN r ELSE RegionName(r)
  BY <1>1, <1>3 DEF Render
<1>5. /\ b[k].seq = k /\ b[k].region_flag = flagFor(t)
      /\ b[k].region = IF preset = "common" THEN t ELSE RegionName(t)
  BY <1>2, <1>3 DEF Render
<1>6. CASE preset = "common"
  BY <1>4, <1>5, <1>6
<1>7. CASE preset # "common"
  BY <1>4, <1>5, <1>7, RegionsTold
<1> QED BY <1>6, <1>7

(* A node that passed the filter is marked with what it passed by.          *)
LEMMA Marked ==
    ASSUME NEW e, NEW requested \in SUBSET Services, requested # {}, NEW mode \in Modes,
           admitted(e, requested, mode)
    PROVE  LET marks == assembleUnlockFlags(e, requested, mode)
           IN  /\ mode = "mark" => marks # {} /\ marks \subseteq requested
               /\ mode = "select" /\ Cardinality(requested) > 1 => marks = requested
<1>1. CASE mode = "mark"
  BY <1>1 DEF admitted, assembleUnlockFlags, nodeMatchesAnyUnlock
<1>2. CASE mode = "select" /\ Cardinality(requested) > 1
  <2>1. Cardinality(requested) \in Nat
    BY UnlocksAssumption, FS_Subset, FS_CardinalityType
  <2>2. ~(Cardinality(requested) <= 1)
    BY <1>2, <2>1
  <2> QED BY <1>2, <2>2 DEF admitted, assembleUnlockFlags, nodeMatchesUnlocks
<1> QED BY <1>1, <1>2

(* The names of one subscription all differ, although numbers start anew in *)
(* every region and regions share full names: the flag tells those apart;   *)
(* and they show the services that were asked for (naming.go:128-165,       *)
(* distribution/handler.go:173-202).                                        *)
THEOREM NamesAreDistinct == Spec => []NamesTell
<1>1. NamesTell
  BY NamesDiffer, Marked DEF NamesTell
<1> QED BY <1>1, PTL

-----------------------------------------------------------------------------
(* Induction over the natural numbers *)

LEMMA LeastElement ==
    ASSUME NEW T, T \subseteq Nat, T # {}
    PROVE  \E m \in T : \A k \in T : m <= k
<1>1. PICK R : IsWellFoundedOn(R, Nat) /\ \A x, y \in Nat : <<y, x>> \in R <=> y < x
  <2>1. IsWellFoundedOn(OpToRel(<, Nat), Nat)
    BY NatLessThanWellFounded
  <2>2. \A x, y \in Nat : <<y, x>> \in OpToRel(<, Nat) <=> y < x
    BY DEF OpToRel
  <2> QED BY <2>1, <2>2
<1>2. IsWellFoundedOn(R, Nat)
  BY <1>1
<1>3. \E m \in T : \A k \in T : ~(<<k, m>> \in R)
  BY <1>2, WFMin
<1>4. \A m, k \in T : ~(<<k, m>> \in R) => m <= k
  BY <1>1
<1> QED BY <1>3, <1>4

LEMMA Induct ==
    ASSUME NEW S, 0 \in S, \A n \in Nat : n \in S => n + 1 \in S
    PROVE  Nat \subseteq S
<1> SUFFICES ASSUME Nat \ S # {} PROVE FALSE
  OBVIOUS
<1>1. PICK m \in Nat \ S : \A k \in Nat \ S : m <= k
  <2>1. Nat \ S \subseteq Nat
    OBVIOUS
  <2> QED BY <2>1, LeastElement
<1>2. m # 0 /\ m - 1 \in Nat /\ m - 1 \in S
  BY <1>1
<1> QED BY <1>1, <1>2

-----------------------------------------------------------------------------
(* Heaps *)

Kids(i) == {2 * i, 2 * i + 1}

(* No item is larger than its children, if it is no item of X, and no       *)
(* parent of an item of X is larger than the children of that item.         *)
HeapBut(h, X, key) ==
    /\ \A p \in DOMAIN h \ X : \A c \in Kids(p) \cap DOMAIN h : key[h[p]] <= key[h[c]]
    /\ \A i \in X, p \in DOMAIN h : i \in Kids(p) =>
         \A c \in Kids(i) \cap DOMAIN h : key[h[p]] <= key[h[c]]

Heap(h, key) == HeapBut(h, {}, key)

(* h holds the items of X, each once.                                       *)
Holds(h, k, X) == h \in [1..k -> X] /\ IsInjective(h) /\ Range(h) = X

LEMMA ChildFacts ==
    ASSUME NEW k \in Nat, NEW X, NEW key, \A x \in X : key[x] \in Int, NEW h \in [1..k -> X],
           NEW i \in 1..k
    PROVE  LET s == SmallerChild(h, i, key)
           IN  \/ s = i /\ \A c \in Kids(i) \cap 1..k : key[h[i]] <= key[h[c]]
               \/ /\ s \in Kids(i) \cap 1..k /\ s > i /\ key[h[s]] < key[h[i]]
                  /\ \A c \in Kids(i) \cap 1..k : key[h[s]] <= key[h[c]]
<1> DEFINE below == {c \in {2 * i, 2 * i + 1} \cap DOMAIN h : key[h[c]] < key[h[i]]}
           least(c) == \A d \in below :
                key[h[c]] < key[h[d]] \/ (key[h[c]] = key[h[d]] /\ c <= d)
<1>1. \A j \in 1..k : key[h[j]] \in Int
  OBVIOUS
<1>2. below = {c \in Kids(i) \cap 1..k : key[h[c]] < key[h[i]]}
  BY DEF Kids
<1>3. SmallerChild(h, i, key) = IF below = {} THEN i ELSE CHOOSE c \in below : least(c)
  BY DEF SmallerChild
<1>4. CASE below = {}
  BY <1>1, <1>2, <1>3, <1>4
<1>5. CASE below # {}
  <2>1. \E c \in below : least(c)
    <3> DEFINE l == 2 * i
               r == 2 * i + 1
    <3>1. below \subseteq {l, r} /\ \A c \in below : key[h[c]] \in Int /\ c \in Int
      BY <1>1, <1>2 DEF Kids
    <3>2. l < r
      OBVIOUS
    <3>3. CASE l \notin below \/ r \notin below
      <4> HIDE DEF l, r, below
      <4>1. PICK c \in below : \A d \in below : d = c
        BY <1>5, <3>1, <3>3
      <4>2. c <= c
        BY <3>1
      <4>3. least(c)
        BY <4>1, <4>2
      <4> QED BY <4>3
    <3>4. CASE l \in below /\ r \in below
      <4>1. below = {l, r} /\ key[h[l]] \in Int /\ key[h[r]] \in Int
        BY <3>1, <3>4
      <4>2. l <= l /\ r <= r /\ l <= r
        OBVIOUS
      <4> HIDE DEF l, r, below
      <4>3. CASE key[h[l]] <= key[h[r]]
        <5>1. least(l)
          BY <4>1, <4>2, <4>3
        <5> QED BY <4>1, <5>1
      <4>4. CASE key[h[r]] < key[h[l]]
        <5>1. least(r)
          BY <4>1, <4>2, <4>4
        <5> QED BY <4>1, <5>1
      <4> QED BY <4>1, <4>3, <4>4
    <3> QED BY <3>3, <3>4
  <2> DEFINE s == CHOOSE c \in below : least(c)
  <2>2. s \in below /\ least(s)
    BY <2>1
  <2> HIDE DEF s
  <2>3. s \in Kids(i) \cap 1..k /\ key[h[s]] < key[h[i]] /\ s > i
    BY <1>2, <2>2 DEF Kids
  <2>4. ASSUME NEW c \in Kids(i) \cap 1..k PROVE key[h[s]] <= key[h[c]]
    <3>1. key[h[c]] \in Int /\ key[h[s]] \in Int /\ key[h[i]] \in Int
      BY <1>1, <2>3, <2>4
    <3>2. CASE c \in below
      <4>1. key[h[s]] < key[h[c]] \/ key[h[s]] = key[h[c]]
        BY <2>2, <3>2
      <4> QED BY <3>1, <4>1
    <3>3. CASE c \notin below
      BY <1>2, <2>3, <2>4, <3>1, <3>3
    <3> QED BY <3>2, <3>3
  <2>5. SmallerChild(h, i, key) = s
    BY <1>3, <1>5 DEF s
  <2> QED BY <2>3, <2>4, <2>5
<1> QED BY <1>4, <1>5

(* A turn of siftDownHeap that leaves a heap moves down the item that may   *)
(* be larger than its children, and loses none.                             *)
LEMMA TurnKeeps ==
    ASSUME NEW k \in Nat, NEW X, NEW key, \A x \in X : key[x] \in Int,
           NEW h, Holds(h, k, X), NEW i \in 1..k, HeapBut(h, {i}, key),
           NEW to, to = Turn([heap |-> h, i |-> i], key)
    PROVE  \/ to = [heap |-> h, i |-> i] /\ Heap(h, key)
           \/ /\ to = [heap |-> to.heap, i |-> to.i] /\ to.i \in 1..k /\ to.i > i
              /\ Holds(to.heap, k, X) /\ HeapBut(to.heap, {to.i}, key)
<1> DEFINE s == SmallerChild(h, i, key)
           g == [h EXCEPT ![i] = h[s], ![s] = h[i]]
<1>1. h \in [1..k -> X] /\ IsInjective(h) /\ Range(h) = X
  BY DEF Holds
<1>2. \A j \in 1..k : key[h[j]] \in Int
  BY <1>1
<1>3. \/ s = i /\ \A c \in Kids(i) \cap 1..k : key[h[i]] <= key[h[c]]
      \/ /\ s \in Kids(i) \cap 1..k /\ s > i /\ key[h[s]] < key[h[i]]
         /\ \A c \in Kids(i) \cap 1..k : key[h[s]] <= key[h[c]]
  BY <1>1, ChildFacts
<1>4. to = IF s = i THEN [heap |-> h, i |-> i] ELSE [heap |-> g, i |-> s]
  BY DEF Turn
<1> HIDE DEF s
<1>5. CASE s = i
  <2>1. \A c \in Kids(i) \cap 1..k : key[h[i]] <= key[h[c]]
    BY <1>3, <1>5
  <2>2. Heap(h, key)
    BY <1>1, <2>1 DEF Heap, HeapBut
  <2> QED BY <1>4, <1>5, <2>2
<1>6. CASE s # i
  <2>1. /\ s \in Kids(i) \cap 1..k /\ s > i /\ key[h[s]] < key[h[i]]
        /\ \A c \in Kids(i) \cap 1..k : key[h[s]] <= key[h[c]]
    BY <1>3, <1>6
  <2>2. /\ g \in [1..k -> X] /\ g[i] = h[s] /\ g[s] = h[i]
        /\ \A j \in 1..k : j # i /\ j # s => g[j] = h[j]
    BY <1>1, <2>1
  <2> HIDE DEF g
  <2>3. Holds(g, k, X)
    <3>1. IsInjective(g)
      BY <1>1, <2>1, <2>2 DEF IsInjective
    <3>2. Range(g) = X
      <4>1. \A x \in X : \E j \in 1..k : h[j] = x
        BY <1>1 DEF Range
      <4>2. \A x \in X : \E j \in 1..k : g[j] = x
        BY <2>1, <2>2, <4>1
      <4> QED BY <2>2, <4>2 DEF Range
    <3> QED BY <2>2, <3>1, <3>2 DEF Holds
  <2>4. /\ \A p \in (1..k) \ {i} : \A c \in Kids(p) \cap 1..k : key[h[p]] <= key[h[c]]
        /\ \A p \in 1..k : i \in Kids(p) =>
             \A c \in Kids(i) \cap 1..k : key[h[p]] <= key[h[c]]
    BY <1>1 DEF HeapBut
  <2>5. ASSUME NEW p \in (1..k) \ {s}, NEW c \in Kids(p) \cap 1..k
        PROVE  key[g[p]] <= key[g[c]]
    <3>1. c > p /\ (c = s => p = i)
      BY <2>1, <2>5 DEF Kids
    <3>2. CASE p = i
      <4>1. CASE c = s
        BY <1>2, <2>1, <2>2, <3>2, <4>1
      <4>2. CASE c # s
        BY <2>1, <2>2, <3>1, <3>2, <4>2
      <4> QED BY <4>1, <4>2
    <3>3. CASE p # i
      <4>1. c # s /\ g[p] = h[p]
        BY <2>2, <3>1, <3>3
      <4>2. CASE c = i
        BY <2>1, <2>2, <2>4, <4>1, <4>2
      <4>3. CASE c # i
        BY <2>2, <2>4, <3>3, <4>1, <4>3
      <4> QED BY <4>2, <4>3
    <3> QED BY <3>2, <3>3
  <2>6. ASSUME NEW p \in 1..k, s \in Kids(p), NEW c \in Kids(s) \cap 1..k
        PROVE  key[g[p]] <= key[g[c]]
    <3>1. p = i /\ c > s
      BY <2>1, <2>6 DEF Kids
    <3>2. g[p] = h[s] /\ g[c] = h[c]
      BY <2>1, <2>2, <3>1
    <3>3. key[h[s]] <= key[h[c]]
      BY <1>6, <2>1, <2>4
    <3> QED BY <3>2, <3>3
  <2>7. HeapBut(g, {s}, key)
    <3>1. DOMAIN g = 1..k
      BY <2>2
    <3>2. ASSUME NEW i2 \in {s}, NEW p \in DOMAIN g, i2 \in Kids(p), NEW c \in Kids(i2) \cap DOMAIN g
          PROVE  key[g[p]] <= key[g[c]]
      BY <2>6, <3>1, <3>2
    <3>3. ASSUME NEW p \in DOMAIN g \ {s}, NEW c \in Kids(p) \cap DOMAIN g
          PROVE  key[g[p]] <= key[g[c]]
      BY <2>5, <3>1
    <3> QED BY <3>2, <3>3, Zenon DEF HeapBut
  <2>8. to = [heap |-> g, i |-> s]
    BY <1>4, <1>6
  <2>9. to.heap = g /\ to.i = s
    BY <2>8
  <2>10. to = [heap |-> to.heap, i |-> to.i] /\ to.i \in 1..k /\ to.i > i
    BY <2>1, <2>8, <2>9
  <2>11. Holds(to.heap, k, X) /\ HeapBut(to.heap, {to.i}, key)
    BY <2>3, <2>7, <2>9, Zenon
  <2> QED BY <2>10, <2>11, Zenon
<1> QED BY <1>5, <1>6

(* siftDownHeap makes a heap again of one whose root may be too large: each *)
(* turn that changes something goes further down.                           *)
LEMMA SiftDown ==
    ASSUME NEW k \in Nat \ {0}, NEW X, NEW key, \A x \in X : key[x] \in Int,
           NEW h, Holds(h, k, X), Len(h) = k, HeapBut(h, {1}, key)
    PROVE  LET out == siftDownHeap(h, 1, key) IN Holds(out, k, X) /\ Heap(out, key)
<1> DEFINE start == [heap |-> h, i |-> 1]
           Turns(m, a) == a = [n \in 0..m |-> IF n = 0 THEN start ELSE Turn(a[n - 1], key)]
           K == {m \in Nat : \E a : Turns(m, a)}
<1>1. 0 \in K
  <2>1. Turns(0, [n \in 0..0 |-> start])
    OBVIOUS
  <2> HIDE DEF Turns
  <2> QED BY <2>1
<1>2. ASSUME NEW m \in Nat, m \in K PROVE m + 1 \in K
  <2>1. PICK a : Turns(m, a)
    BY <1>2
  <2> DEFINE b == [n \in 0..(m + 1) |-> IF n = m + 1 THEN Turn(a[m], key) ELSE a[n]]
  <2>2. Turns(m + 1, b)
    BY <2>1
  <2> HIDE DEF b, Turns
  <2> QED BY <2>2
<1> HIDE DEF K
<1>3. k \in K
  BY <1>1, <1>2, Induct
<1> DEFINE a == CHOOSE a : Turns(k, a)
<1>4. siftDownHeap(h, 1, key) = a[k].heap
  BY DEF siftDownHeap
<1>5. Turns(k, a)
  BY <1>3 DEF K
<1> HIDE DEF a
<1> DEFINE Down(n, at) ==
             /\ at = [heap |-> at.heap, i |-> at.i] /\ at.i \in 1..k
             /\ Holds(at.heap, k, X) /\ HeapBut(at.heap, {at.i}, key)
             /\ at.i > n \/ (Heap(at.heap, key) /\ Turn(at, key) = at)
           J == {n \in Nat : n \in 0..k => Down(n, a[n])}
           Moved(g, i, to) ==
             \/ to = [heap |-> g, i |-> i] /\ Heap(g, key)
             \/ /\ to = [heap |-> to.heap, i |-> to.i] /\ to.i \in 1..k /\ to.i > i
                /\ Holds(to.heap, k, X) /\ HeapBut(to.heap, {to.i}, key)
<1>t. ASSUME NEW g, Holds(g, k, X), NEW i \in 1..k, HeapBut(g, {i}, key)
      PROVE  Moved(g, i, Turn([heap |-> g, i |-> i], key))
  <2>1. k \in Nat
    OBVIOUS
  <2> QED BY <1>t, <2>1, TurnKeeps, Zenon
<1>6. 0 \in J
  <2>1. a[0] = start
    BY <1>5
  <2>2. Down(0, start)
    OBVIOUS
  <2> HIDE DEF Down, start
  <2> QED BY <2>1, <2>2
<1>7. ASSUME NEW n \in Nat, n \in J PROVE n + 1 \in J
  <2> SUFFICES ASSUME n + 1 \in 0..k PROVE Down(n + 1, a[n + 1])
    OBVIOUS
  <2> DEFINE at == a[n]
             to == Turn(at, key)
  <2>1. a[n + 1] = to
    BY <1>5
  <2>2. Down(n, at)
    BY <1>7
  <2> HIDE DEF at
  <2>3. \/ to = at /\ Heap(at.heap, key)
        \/ /\ to = [heap |-> to.heap, i |-> to.i] /\ to.i \in 1..k /\ to.i > at.i
           /\ Holds(to.heap, k, X) /\ HeapBut(to.heap, {to.i}, key)
    <3> DEFINE hp == at.heap
               i == at.i
    <3>1. at = [heap |-> hp, i |-> i] /\ i \in 1..k /\ Holds(hp, k, X) /\ HeapBut(hp, {i}, key)
      BY <2>2
    <3> HIDE DEF hp, i
    <3>2. to = Turn([heap |-> hp, i |-> i], key)
      BY <3>1
    <3> HIDE DEF to
    <3> HIDE DEF Moved
    <3>3. Moved(hp, i, to)
      BY <1>t, <3>1, <3>2
    <3> QED BY <3>1, <3>3 DEF hp, i, Moved
  <2> HIDE DEF to
  <2>4. CASE to = at /\ Heap(at.heap, key)
    <3>1. Turn(to, key) = to
      BY <2>4 DEF to
    <3> QED BY <2>1, <2>2, <2>4, <3>1
  <2>5. CASE to # at
    <3>1. at.i > n
      BY <2>2, <2>5 DEF to
    <3>2. to.i > n + 1
      BY <2>2, <2>3, <2>5, <3>1
    <3> QED BY <2>1, <2>3, <2>5, <3>2
  <2> QED BY <2>3, <2>4, <2>5
<1> HIDE DEF J
<1>8. k \in J
  BY <1>6, <1>7, Induct
<1>9. Down(k, a[k])
  BY <1>8 DEF J
<1>10. Heap(a[k].heap, key) /\ Holds(a[k].heap, k, X)
  BY <1>9
<1> QED BY <1>4, <1>10

(* The root of a heap has the smallest key.                                 *)
LEMMA RootLeast ==
    ASSUME NEW k \in Nat \ {0}, NEW X, NEW key, \A x \in X : key[x] \in Int,
           NEW h, Holds(h, k, X), Heap(h, key)
    PROVE  h[1] \in X /\ \A x \in X : key[h[1]] <= key[x]
<1>1. h \in [1..k -> X] /\ Range(h) = X
  BY DEF Holds
<1>2. \A j \in 1..k : key[h[j]] \in Int
  BY <1>1
<1> DEFINE S == {m \in Nat : \A j \in 1..k : j <= m => key[h[1]] <= key[h[j]]}
<1>3. 0 \in S
  OBVIOUS
<1>4. ASSUME NEW m \in Nat, m \in S PROVE m + 1 \in S
  <2> SUFFICES ASSUME NEW j \in 1..k, j = m + 1 PROVE key[h[1]] <= key[h[j]]
    BY <1>4
  <2>1. CASE j = 1
    BY <1>2, <2>1
  <2>2. CASE j # 1
    <3>1. PICK p \in 1..k : p < j /\ j \in Kids(p)
      <4>1. /\ j \div 2 \in 1..k /\ j \div 2 < j
            /\ j = 2 * (j \div 2) \/ j = 2 * (j \div 2) + 1
        BY <2>2
      <4> QED BY <4>1 DEF Kids
    <3>2. p <= m
      BY <3>1
    <3>3. key[h[1]] <= key[h[p]]
      BY <1>4, <3>2
    <3>4. key[h[p]] <= key[h[j]]
      BY <1>1, <3>1 DEF Heap, HeapBut
    <3>5. key[h[1]] \in Int /\ key[h[p]] \in Int /\ key[h[j]] \in Int
      BY <1>2
    <3> QED BY <3>3, <3>4, <3>5
  <2> QED BY <2>1, <2>2
<1> HIDE DEF S
<1>5. k \in S
  BY <1>3, <1>4, Induct
<1>6. \A j \in 1..k : key[h[1]] <= key[h[j]]
  BY <1>5 DEF S
<1>7. ASSUME NEW x \in X PROVE \E j \in 1..k : h[j] = x
  BY <1>1 DEF Range
<1> QED BY <1>1, <1>6, <1>7

-----------------------------------------------------------------------------
(* Sorting *)

(* Sorting the items of a full heap loses none and gives a heap.            *)
LEMMA SortedHeap ==
    ASSUME NEW k \in Nat, NEW X, NEW key, \A x \in X : key[x] \in Int,
           NEW h, Holds(h, k, X), Len(h) = k
    PROVE  Holds(ByKey(h, key), k, X) /\ Heap(ByKey(h, key), key)
<1> DEFINE before(i, j) == key[h[i]] < key[h[j]] \/ (key[h[i]] = key[h[j]] /\ i < j)
           B(j) == {i \in DOMAIN h : before(i, j)}
           pl(j) == 1 + Cardinality(B(j))
           place == [j \in 1..k |-> pl(j)]
           at(p) == CHOOSE j \in DOMAIN h : pl(j) = p
           s == ByKey(h, key)
<1>1. h \in [1..k -> X] /\ IsInjective(h) /\ Range(h) = X
  BY DEF Holds
<1>2. \A j \in 1..k : key[h[j]] \in Int
  BY <1>1
<1>3. IsFiniteSet(1..k) /\ Cardinality(1..k) = k
  BY FS_Interval
<1>4. s = [p \in 1..k |-> h[at(p)]]
  <2>1. s = [p \in 1..Len(h) |-> h[at(p)]]
    BY DEF ByKey
  <2> HIDE DEF s, at
  <2> QED BY <2>1
<1> HIDE DEF s
<1>5. \A i, j \in 1..k : /\ ~before(i, i)
                         /\ i # j => before(i, j) \/ before(j, i)
                         /\ before(i, j) => key[h[i]] <= key[h[j]]
  BY <1>2
<1>6. \A i, j, l \in 1..k : before(i, j) /\ before(j, l) => before(i, l)
  BY <1>2
<1> HIDE DEF before
<1>7. ASSUME NEW j \in 1..k PROVE IsFiniteSet(B(j)) /\ Cardinality(B(j)) \in 0..(k - 1)
  <2>1. B(j) \in SUBSET ((1..k) \ {j})
    BY <1>1, <1>5
  <2>2. IsFiniteSet((1..k) \ {j}) /\ Cardinality((1..k) \ {j}) = k - 1
    BY <1>3, FS_RemoveElement
  <2> HIDE DEF B
  <2>3. IsFiniteSet(B(j)) /\ Cardinality(B(j)) <= k - 1
    BY <2>1, <2>2, FS_Subset
  <2> QED BY <2>3, FS_CardinalityType
<1>8. ASSUME NEW i \in 1..k, NEW j \in 1..k, before(i, j) PROVE place[i] < place[j]
  <2>1. B(i) \in SUBSET B(j) /\ i \in B(j) /\ i \notin B(i)
    BY <1>1, <1>5, <1>6, <1>8
  <2> HIDE DEF B
  <2>2. IsFiniteSet(B(j)) /\ Cardinality(B(i)) \in Nat /\ Cardinality(B(j)) \in Nat
    BY <1>7
  <2>3. Cardinality(B(i)) <= Cardinality(B(j)) /\ Cardinality(B(i)) # Cardinality(B(j))
    BY <2>1, <2>2, FS_Subset
  <2> QED BY <2>2, <2>3
<1>9. /\ place \in [1..k -> 1..k]
      /\ \A p : at(p) = CHOOSE j \in 1..k : pl(j) = p
      /\ \A j \in 1..k : pl(j) = place[j]
  <2> HIDE DEF B
  <2> QED BY <1>1, <1>7
<1> HIDE DEF B, pl, place, at
<1>10. \A i, j \in 1..k : place[i] = place[j] => i = j
  <2> SUFFICES ASSUME NEW i \in 1..k, NEW j \in 1..k, place[i] = place[j], i # j PROVE FALSE
    OBVIOUS
  <2>1. place[i] < place[j] \/ place[j] < place[i]
    BY <1>5, <1>8
  <2> QED BY <1>9, <2>1
<1>11. ASSUME NEW p \in 1..k PROVE \E j \in 1..k : place[j] = p
  <2>1. place \in Injection(1..k, 1..k)
    BY <1>9, <1>10 DEF Injection, IsInjective
  <2>2. place \in Surjection(1..k, 1..k)
    BY <1>3, <2>1, FS_Injection
  <2> QED BY <2>2 DEF Surjection
<1>12. ASSUME NEW p \in 1..k PROVE at(p) \in 1..k /\ place[at(p)] = p
  <2>1. \E j \in 1..k : pl(j) = p
    BY <1>9, <1>11
  <2>2. at(p) \in 1..k /\ pl(at(p)) = p
    BY <1>9, <2>1
  <2> QED BY <1>9, <2>2
<1>13. ASSUME NEW j \in 1..k PROVE at(place[j]) = j
  <2>1. place[j] \in 1..k
    BY <1>9
  <2>2. at(place[j]) \in 1..k /\ place[at(place[j])] = place[j]
    BY <1>12, <2>1
  <2> QED BY <1>10, <2>2
<1>14. Holds(s, k, X)
  <2>1. s \in [1..k -> X]
    BY <1>1, <1>4, <1>12
  <2>2. IsInjective(s)
    <3>1. ASSUME NEW p \in 1..k, NEW q \in 1..k, s[p] = s[q] PROVE p = q
      <4>1. h[at(p)] = h[at(q)]
        BY <1>4, <3>1
      <4>2. at(p) = at(q)
        BY <1>1, <1>12, <4>1 DEF IsInjective
      <4> QED BY <1>12, <4>2
    <3> QED BY <2>1, <3>1 DEF IsInjective
  <2>3. ASSUME NEW x \in X PROVE \E p \in 1..k : s[p] = x
    <3>1. PICK j \in 1..k : h[j] = x
      BY <1>1 DEF Range
    <3>2. place[j] \in 1..k /\ s[place[j]] = x
      BY <1>4, <1>9, <1>13, <3>1
    <3> QED BY <3>2
  <2>4. Range(s) = X
    BY <2>1, <2>3 DEF Range
  <2> QED BY <2>1, <2>2, <2>4 DEF Holds
<1>15. ASSUME NEW p \in 1..k, NEW q \in 1..k, p < q PROVE key[s[p]] <= key[s[q]]
  <2>1. at(p) \in 1..k /\ at(q) \in 1..k /\ place[at(p)] = p /\ place[at(q)] = q
    BY <1>12
  <2>2. at(p) # at(q) /\ ~before(at(q), at(p))
    BY <1>8, <1>15, <2>1
  <2>3. key[h[at(p)]] <= key[h[at(q)]]
    BY <1>5, <2>1, <2>2
  <2> QED BY <1>4, <2>3
<1>16. Heap(s, key)
  <2>1. DOMAIN s = 1..k
    BY <1>4
  <2>2. \A p \in 1..k : \A c \in Kids(p) \cap 1..k : p < c
    BY DEF Kids
  <2> QED BY <1>15, <2>1, <2>2 DEF Heap, HeapBut
<1> QED BY <1>14, <1>16 DEF s

-----------------------------------------------------------------------------
(* The weighted sample *)

(* What the heap holds after i entries: all of them until it is full, then  *)
(* k of them, and none with a larger key is left out.                       *)
Kept(h, i, k, key) ==
    /\ i < k => Holds(h, i, 1..i)
    /\ i >= k => \E X \in SUBSET (1..i) :
         /\ Holds(h, k, X) /\ Heap(h, key)
         /\ \A x \in X, j \in (1..i) \ X : key[x] >= key[j]

LEMMA HoldsLen ==
    ASSUME NEW k \in Nat, NEW X, NEW h, Holds(h, k, X)
    PROVE  h \in Seq(X) /\ Len(h) = k
BY DEF Holds

LEMMA Appended ==
    ASSUME NEW i \in Nat, NEW h, Holds(h, i, 1..i)
    PROVE  Holds(Append(h, i + 1), i + 1, 1..(i + 1))
<1> DEFINE g == Append(h, i + 1)
<1>1. h \in [1..i -> 1..i] /\ IsInjective(h) /\ Range(h) = 1..i /\ h \in Seq(1..i) /\ Len(h) = i
  BY HoldsLen DEF Holds
<1>2. /\ g \in [1..(i + 1) -> 1..(i + 1)] /\ g[i + 1] = i + 1
      /\ \A j \in 1..i : g[j] = h[j]
  <2>1. h \in Seq(1..(i + 1)) /\ i + 1 \in 1..(i + 1)
    BY <1>1
  <2>2. g \in Seq(1..(i + 1)) /\ Len(g) = i + 1
    BY <1>1, <2>1
  <2>3. g[i + 1] = i + 1 /\ \A j \in 1..i : g[j] = h[j]
    BY <1>1, <2>1
  <2> HIDE DEF g
  <2> QED BY <2>2, <2>3
<1> HIDE DEF g
<1>3. ASSUME NEW a \in 1..(i + 1), NEW b \in 1..(i + 1), g[a] = g[b] PROVE a = b
  <2>1. CASE a \in 1..i /\ b \in 1..i
    BY <1>1, <1>2, <1>3, <2>1 DEF IsInjective
  <2>2. CASE a = i + 1 \/ b = i + 1
    <3>1. \A j \in 1..i : g[j] # i + 1
      <4>1. \A j \in 1..i : h[j] \in 1..i
        BY <1>1
      <4> QED BY <1>2, <4>1
    <3> QED BY <1>2, <1>3, <2>2, <3>1
  <2> QED BY <2>1, <2>2
<1>4. ASSUME NEW x \in 1..(i + 1) PROVE \E j \in 1..(i + 1) : g[j] = x
  <2>1. CASE x = i + 1
    BY <1>2, <2>1
  <2>2. CASE x \in 1..i
    <3>1. PICK j \in 1..i : h[j] = x
      BY <1>1, <2>2 DEF Range
    <3> QED BY <1>2, <3>1
  <2> QED BY <2>1, <2>2
<1>5. IsInjective(g)
  BY <1>2, <1>3 DEF IsInjective
<1>6. Range(g) = 1..(i + 1)
  BY <1>2, <1>4 DEF Range
<1> QED BY <1>2, <1>5, <1>6 DEF Holds, g

(* A new item in the place of the root.                                     *)
LEMMA Replaced ==
    ASSUME NEW k \in Nat \ {0}, NEW X, NEW key, NEW h, Holds(h, k, X), Heap(h, key),
           NEW e, e \notin X
    PROVE  LET g == [h EXCEPT ![1] = e]
           IN  /\ Holds(g, k, (X \ {h[1]}) \cup {e}) /\ Len(g) = k
               /\ HeapBut(g, {1}, key)
<1> DEFINE g == [h EXCEPT ![1] = e]
           Y == (X \ {h[1]}) \cup {e}
<1>1. h \in [1..k -> X] /\ IsInjective(h) /\ Range(h) = X
  BY DEF Holds
<1>2. DOMAIN g = 1..k /\ g[1] = e /\ \A j \in (1..k) \ {1} : g[j] = h[j] /\ g[j] \in X
  BY <1>1
<1> HIDE DEF g
<1>3. \A j \in (1..k) \ {1} : g[j] \in X \ {h[1]}
  BY <1>1, <1>2 DEF IsInjective
<1>4. g \in [1..k -> Y]
  <2>1. \A j \in 1..k : g[j] \in Y
    BY <1>2, <1>3
  <2>2. g = [j \in 1..k |-> g[j]]
    BY <1>1 DEF g
  <2> QED BY <2>1, <2>2
<1>5. IsInjective(g)
  <2>1. ASSUME NEW a \in 1..k, NEW b \in 1..k, g[a] = g[b] PROVE a = b
    <3>1. CASE a = 1 \/ b = 1
      BY <1>2, <2>1, <3>1
    <3>2. CASE a # 1 /\ b # 1
      BY <1>1, <1>2, <2>1, <3>2 DEF IsInjective
    <3> QED BY <3>1, <3>2
  <2> QED BY <1>2, <2>1 DEF IsInjective
<1>6. ASSUME NEW x \in Y PROVE \E j \in 1..k : g[j] = x
  <2>1. CASE x = e
    BY <1>2, <2>1
  <2>2. CASE x # e
    <3>1. PICK j \in 1..k : h[j] = x
      BY <1>1, <2>2 DEF Range
    <3>2. j # 1
      BY <2>2, <3>1
    <3> QED BY <1>2, <3>1, <3>2
  <2> QED BY <2>1, <2>2
<1>7. Range(g) = Y
  BY <1>4, <1>6 DEF Range
<1>8. Holds(g, k, Y)
  BY <1>4, <1>5, <1>7 DEF Holds
<1>9. HeapBut(g, {1}, key)
  <2>1. ASSUME NEW p \in (1..k) \ {1}, NEW c \in Kids(p) \cap 1..k PROVE key[g[p]] <= key[g[c]]
    <3>1. c # 1
      BY DEF Kids
    <3>2. key[h[p]] <= key[h[c]]
      BY <1>1 DEF Heap, HeapBut
    <3> QED BY <1>2, <3>1, <3>2
  <2>2. \A p \in 1..k : 1 \notin Kids(p)
    BY DEF Kids
  <2> QED BY <1>2, <2>1, <2>2 DEF HeapBut
<1>10. Len(g) = k
  BY <1>8, HoldsLen
<1> QED BY <1>8, <1>9, <1>10 DEF g

LEMMA Considered ==
    ASSUME NEW k \in Nat \ {0}, NEW i \in Nat, NEW key, \A x \in 1..(i + 1) : key[x] \in Int,
           NEW h, Kept(h, i, k, key)
    PROVE  Kept(Consider(h, i + 1, k, key), i + 1, k, key)
<1> DEFINE e == i + 1
<1>1. CASE i < k
  <2>1. Holds(h, i, 1..i) /\ Len(h) = i
    BY <1>1, HoldsLen DEF Kept
  <2>2. Holds(Append(h, e), e, 1..e) /\ Len(Append(h, e)) = e
    BY <2>1, Appended, HoldsLen
  <2>3. CASE i < k - 1
    <3>1. Consider(h, e, k, key) = Append(h, e)
      BY <2>1, <2>3 DEF Consider
    <3>2. e < k /\ ~(e >= k)
      BY <2>3
    <3> QED BY <2>2, <3>1, <3>2, Zenon DEF Kept
  <2>4. CASE i = k - 1
    <3>1. Consider(h, e, k, key) = ByKey(Append(h, e), key)
      BY <2>1, <2>4 DEF Consider
    <3>2. e = k
      BY <2>4
    <3>3. Holds(ByKey(Append(h, e), key), k, 1..k) /\ Heap(ByKey(Append(h, e), key), key)
      BY <2>2, <3>2, SortedHeap
    <3> QED BY <3>1, <3>2, <3>3 DEF Kept
  <2> QED BY <1>1, <2>3, <2>4
<1>2. CASE i >= k
  <2>1. PICK X \in SUBSET (1..i) :
          /\ Holds(h, k, X) /\ Heap(h, key)
          /\ \A x \in X, j \in (1..i) \ X : key[x] >= key[j]
    BY <1>2 DEF Kept
  <2>2. Len(h) = k
    BY <2>1, HoldsLen
  <2>3. /\ \A x \in 1..e : key[x] \in Int
        /\ X \subseteq 1..e /\ e \notin X /\ e \in 1..e /\ 1..e = (1..i) \cup {e}
    OBVIOUS
  <2>4. h[1] \in X /\ \A x \in X : key[h[1]] <= key[x]
    <3>1. \A x \in X : key[x] \in Int
      BY <2>3
    <3> QED BY <2>1, <3>1, RootLeast
  <2>5. CASE key[e] > key[h[1]]
    <3> DEFINE Y == (X \ {h[1]}) \cup {e}
               g == [h EXCEPT ![1] = e]
               out == siftDownHeap(g, 1, key)
    <3>1. Consider(h, e, k, key) = out
      BY <2>2, <2>5 DEF Consider
    <3>2. Holds(g, k, Y) /\ Len(g) = k /\ HeapBut(g, {1}, key)
      BY <2>1, <2>3, Replaced
    <3>3. \A x \in Y : key[x] \in Int
      BY <2>3
    <3> HIDE DEF Y, g
    <3>4. Holds(out, k, Y) /\ Heap(out, key)
      BY <3>2, <3>3, SiftDown
    <3> HIDE DEF out
    <3>5. ASSUME NEW x \in Y, NEW j \in (1..e) \ Y PROVE key[x] >= key[j]
      <4>1. key[x] \in Int /\ key[j] \in Int /\ key[h[1]] \in Int
        BY <2>3, <2>4, <3>3
      <4>2. key[h[1]] >= key[j]
        BY <2>1, <2>3, <2>4, <4>1 DEF Y
      <4>3. key[x] >= key[h[1]]
        BY <2>4, <2>5, <4>1 DEF Y
      <4> QED BY <4>1, <4>2, <4>3
    <3>6. Y \in SUBSET (1..e)
      BY <2>3 DEF Y
    <3>7. Kept(out, e, k, key)
      <4>1. \A x \in Y, j \in (1..e) \ Y : key[x] >= key[j]
        BY <3>5
      <4> QED BY <1>2, <3>4, <3>6, <4>1 DEF Kept
    <3> QED BY <3>1, <3>7
  <2>6. CASE ~(key[e] > key[h[1]])
    <3>1. Consider(h, e, k, key) = h
      BY <2>2, <2>6 DEF Consider
    <3>2. ASSUME NEW x \in X, NEW j \in (1..e) \ X PROVE key[x] >= key[j]
      <4>1. key[x] \in Int /\ key[e] \in Int /\ key[h[1]] \in Int
        BY <2>3, <2>4
      <4>2. CASE j = e
        BY <2>4, <2>6, <4>1, <4>2
      <4>3. CASE j # e
        BY <2>1, <2>3, <4>3
      <4> QED BY <4>2, <4>3
    <3>3. \A x \in X, j \in (1..e) \ X : key[x] >= key[j]
      BY <3>2
    <3>4. X \in SUBSET (1..e)
      BY <2>3
    <3>5. Kept(h, e, k, key)
      BY <1>2, <2>1, <3>3, <3>4 DEF Kept
    <3> QED BY <3>1, <3>5
  <2> QED BY <2>5, <2>6
<1> QED BY <1>1, <1>2

LEMMA Sampled ==
    ASSUME NEW k \in Nat \ {0}, NEW n \in Nat, n > k, NEW key \in [1..n -> Int]
    PROVE  Kept(weightedSample(Entries(n), k, key), n, k, key)
<1> DEFINE Turns(m, a) ==
             a = [i \in 0..m |-> IF i = 0 THEN <<>>
                                 ELSE Consider(a[i - 1], Entries(n)[i], k, key)]
           K == {m \in Nat : \E a : Turns(m, a)}
<1>1. 0 \in K
  <2>1. Turns(0, [i \in 0..0 |-> <<>>])
    OBVIOUS
  <2> HIDE DEF Turns
  <2> QED BY <2>1
<1>2. ASSUME NEW m \in Nat, m \in K PROVE m + 1 \in K
  <2>1. PICK a : Turns(m, a)
    BY <1>2
  <2> DEFINE b == [i \in 0..(m + 1) |->
                     IF i = m + 1 THEN Consider(a[m], Entries(n)[i], k, key) ELSE a[i]]
  <2>2. Turns(m + 1, b)
    BY <2>1
  <2> HIDE DEF b, Turns
  <2> QED BY <2>2
<1> HIDE DEF K
<1>3. n \in K
  BY <1>1, <1>2, Induct
<1> DEFINE a == CHOOSE a : Turns(n, a)
<1>4. weightedSample(Entries(n), k, key) = a[n]
  <2>1. Len(Entries(n)) = n
    BY DEF Entries
  <2> QED BY <2>1 DEF weightedSample
<1>5. Turns(n, a)
  BY <1>3 DEF K
<1> HIDE DEF a
<1> DEFINE J == {i \in Nat : i \in 0..n => Kept(a[i], i, k, key)}
<1>6. 0 \in J
  <2>1. a[0] = <<>>
    BY <1>5
  <2>2. Holds(<<>>, 0, 1..0)
    BY DEF Holds, IsInjective, Range
  <2>3. Kept(<<>>, 0, k, key)
    BY <2>2 DEF Kept
  <2> QED BY <2>1, <2>3
<1>7. ASSUME NEW i \in Nat, i \in J PROVE i + 1 \in J
  <2> SUFFICES ASSUME i + 1 \in 0..n PROVE Kept(a[i + 1], i + 1, k, key)
    OBVIOUS
  <2>1. a[i + 1] = Consider(a[i], i + 1, k, key)
    <3>1. a[i + 1] = Consider(a[(i + 1) - 1], Entries(n)[i + 1], k, key)
      BY <1>5
    <3>2. Entries(n)[i + 1] = i + 1 /\ (i + 1) - 1 = i
      BY DEF Entries
    <3> QED BY <3>1, <3>2
  <2>2. Kept(a[i], i, k, key)
    BY <1>7
  <2>3. \A x \in 1..(i + 1) : key[x] \in Int
    OBVIOUS
  <2> QED BY <2>1, <2>2, <2>3, Considered
<1> HIDE DEF J
<1>8. n \in J
  BY <1>6, <1>7, Induct
<1> QED BY <1>4, <1>8 DEF J

LEMMA Bounds ==
    ASSUME NEW a \in Int, NEW b \in Int
    PROVE  Min({a, b}) = (IF a < b THEN a ELSE b) /\ Max({a, b}) = (IF a < b THEN b ELSE a)
<1>1. ASSUME NEW x \in {a, b}, \A y \in {a, b} : x <= y PROVE x = IF a < b THEN a ELSE b
  BY <1>1
<1>2. ASSUME NEW x \in {a, b}, \A y \in {a, b} : x >= y PROVE x = IF a < b THEN b ELSE a
  BY <1>2
<1>3. (\E x \in {a, b} : \A y \in {a, b} : x <= y) /\ (\E x \in {a, b} : \A y \in {a, b} : x >= y)
  OBVIOUS
<1> QED BY <1>1, <1>2, <1>3 DEF Min, Max

LEMMA SampleLargest == LargestOnly
<1> SUFFICES ASSUME NEW n \in 0..MaxPool, NEW k \in -1..MaxPool, NEW key \in [1..n -> 1..n]
             PROVE  LET out   == weightedSample(Entries(n), k, key)
                        taken == Range(out)
                    IN  /\ IsInjective(out) /\ taken \subseteq 1..n
                        /\ Len(out) = Max({0, Min({k, n})})
                        /\ \A i \in taken, j \in (1..n) \ taken : key[i] >= key[j]
  BY DEF LargestOnly
<1> DEFINE out == weightedSample(Entries(n), k, key)
<1>1. n \in Nat /\ k \in Int /\ key \in [1..n -> Int]
  OBVIOUS
<1>2. Max({0, Min({k, n})}) = IF k <= 0 THEN 0 ELSE IF n <= k THEN n ELSE k
  <2>1. Min({k, n}) = IF k < n THEN k ELSE n
    BY <1>1, Bounds
  <2>2. Min({k, n}) \in Int
    BY <1>1, <2>1
  <2> DEFINE m == Min({k, n})
  <2> HIDE DEF m
  <2>3. Max({0, m}) = IF 0 < m THEN m ELSE 0
    <3>1. 0 \in Int /\ m \in Int
      BY <2>2 DEF m
    <3> QED BY <3>1, Bounds
  <2>4. Max({0, m}) = IF k <= 0 THEN 0 ELSE IF n <= k THEN n ELSE k
    BY <1>1, <2>1, <2>3 DEF m
  <2> QED BY <2>4 DEF m
<1>3. CASE k <= 0
  <2>1. out = <<>>
    BY <1>3 DEF weightedSample
  <2>2. IsInjective(<<>>) /\ Range(<<>>) = {} /\ Len(<<>>) = 0
    BY DEF IsInjective, Range
  <2> QED BY <1>2, <1>3, <2>1, <2>2
<1>4. CASE k > 0 /\ n <= k
  <2>1. out = Entries(n)
    BY <1>1, <1>4 DEF weightedSample, Entries
  <2>2. IsInjective(Entries(n)) /\ Range(Entries(n)) = 1..n /\ Len(Entries(n)) = n
    BY <1>1 DEF IsInjective, Range, Entries
  <2> QED BY <1>1, <1>2, <1>4, <2>1, <2>2
<1>5. CASE k > 0 /\ n > k
  <2>1. Kept(out, n, k, key)
    BY <1>1, <1>5, Sampled
  <2> HIDE DEF out
  <2>2. PICK X \in SUBSET (1..n) :
          Holds(out, k, X) /\ \A x \in X, j \in (1..n) \ X : key[x] >= key[j]
    BY <1>1, <1>5, <2>1 DEF Kept
  <2>3. IsInjective(out) /\ Range(out) = X /\ Len(out) = k
    BY <1>1, <1>5, <2>2, HoldsLen DEF Holds
  <2>4. Len(out) = Max({0, Min({k, n})})
    BY <1>1, <1>2, <1>5, <2>3
  <2>5. \A x \in Range(out), j \in (1..n) \ Range(out) : key[x] >= key[j]
    BY <2>2, <2>3
  <2> QED BY <2>3, <2>4, <2>5 DEF out
<1> QED BY <1>1, <1>3, <1>4, <1>5

(* Of a pool of any size a weighted sample takes as many entries as asked   *)
(* for, none twice, and none with a larger key is left out: filling the     *)
(* heap, sorting it and replacing its root again and again never lose the   *)
(* smallest key at the root (selector.go:395-451).                          *)
THEOREM SamplesKeepLargest == Spec => []KeepsLargest
<1>1. KeepsLargest
  BY SampleLargest DEF KeepsLargest
<1> QED BY <1>1, PTL
=============================================================================
