------------------------------ MODULE Sampling ------------------------------
(***************************************************************************)
(* The weighted sample of the selector (distribution/selector.go), an      *)
(* A-Res reservoir: every entry draws a key, and a heap holds the k        *)
(* entries with the largest keys seen so far, the smallest at its root.    *)
(* Of the keys only their order matters here; any order may be drawn, and  *)
(* keys tie when they underflow.                                           *)
(***************************************************************************)
EXTENDS Integers, Sequences, SequencesExt, FiniteSets, FiniteSetsExt

CONSTANT MaxPool    \* bound: entries of a pool

-----------------------------------------------------------------------------
(* Mutant of SmallerChild: looks at the left child only.                   *)
LeftChild(h, i, key) ==
    LET l == 2 * i IN IF l \in DOMAIN h /\ key[h[l]] < key[h[i]] THEN l ELSE i

(* The smaller child of i that is smaller than i, else i.                   *)
SmallerChild(h, i, key) ==
    LET below == {c \in {2 * i, 2 * i + 1} \cap DOMAIN h : key[h[c]] < key[h[i]]}
    IN  IF below = {} THEN i
        ELSE CHOOSE c \in below : \A d \in below :
                key[h[c]] < key[h[d]] \/ (key[h[c]] = key[h[d]] /\ c <= d)

(* Parent and child change places, and the loop goes on with the child.     *)
Turn(at, key) ==
    LET h == at.heap
        s == SmallerChild(h, at.i, key)
    IN  IF s = at.i THEN at
        ELSE [heap |-> [h EXCEPT ![at.i] = h[s], ![s] = h[at.i]], i |-> s]

(* No path down the heap has more turns than the heap has items.            *)
siftDownHeap(h, i, key) ==
    LET after[n \in 0..Len(h)] ==
            IF n = 0 THEN [heap |-> h, i |-> i] ELSE Turn(after[n - 1], key)
    IN  after[Len(h)].heap

(* An item goes to the place that as many items come before.                *)
ByKey(h, key) ==
    LET before(i, j) == key[h[i]] < key[h[j]] \/ (key[h[i]] = key[h[j]] /\ i < j)
        place(j) == 1 + Cardinality({i \in DOMAIN h : before(i, j)})
    IN  [p \in 1..Len(h) |-> h[CHOOSE j \in DOMAIN h : place(j) = p]]

(* One turn of the loop over the pool: the heap fills up, is sorted once it *)
(* is full, and from then on only a larger key than the root's comes in.    *)
Consider(h, e, k, key) ==
    CASE Len(h) < k - 1 -> Append(h, e)
      [] Len(h) = k - 1 -> ByKey(Append(h, e), key)
      [] Len(h) = k -> IF key[e] > key[h[1]]
                       THEN siftDownHeap([h EXCEPT ![1] = e], 1, key)
                       ELSE h

weightedSample(pool, k, key) ==
    LET heap[i \in 0..Len(pool)] == IF i = 0 THEN <<>> ELSE Consider(heap[i - 1], pool[i], k, key)
    IN  IF k <= 0 THEN <<>>
        ELSE IF Len(pool) <= k THEN pool
        ELSE heap[Len(pool)]

-----------------------------------------------------------------------------
Entries(n) == [i \in 1..n |-> i]

(* As many different entries as asked for, or all, and none is left out     *)
(* whose key is larger than that of one that is taken.                      *)
LargestOnly ==
    \A n \in 0..MaxPool : \A k \in -1..MaxPool, key \in [1..n -> 1..n] :
        LET out   == weightedSample(Entries(n), k, key)
            taken == Range(out)
        IN  /\ IsInjective(out) /\ taken \subseteq 1..n
            /\ Len(out) = Max({0, Min({k, n})})
            /\ \A i \in taken, j \in (1..n) \ taken : key[i] >= key[j]
=============================================================================
