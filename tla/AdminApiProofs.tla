--------------------------- MODULE AdminApiProofs ---------------------------
(***************************************************************************)
(* Theorems about AdminApi, for any rows, expressions and requests:        *)
(* sources with the same content are only due to updates, to creations     *)
(* that overlap and to look-ups that fail, and a walk over the pages of a  *)
(* list misses and repeats no row that stays.                              *)
(***************************************************************************)
EXTENDS AdminApi, SequenceTheorems, FiniteSetTheorems, FunctionTheorems, TLAPS

-----------------------------------------------------------------------------
(* Searches and previews of either table take an expression, or none.       *)
LEMMA SearchQueries ==
    ASSUME query \in Queries, ~InSQL
    PROVE  query.table \in Envs /\ query.where \in {"all"} \cup Expressions
<1>1. PICK l \in Lists : query \in [table : {l.table}, sort : l.sorts,
                                    where : l.wheres, how : {l.how}]
  BY DEF Queries
<1>2. query.table = l.table /\ query.where \in l.wheres /\ query.how = l.how
  BY <1>1
<1>3. l.how # "sql"
  BY <1>2 DEF InSQL
<1>4. l \in {NodeSearch, SourceSearch, previewNodes, previewSources}
  BY <1>3 DEF Lists, FetchList, CheckList, GetInitialChecks, GetDeepChecks,
              SponsorList, SourceList, NodeList, SourceGetNodes
<1>5. l.table \in Envs /\ l.wheres \subseteq {"all"} \cup Expressions
  BY <1>4 DEF NodeSearch, SourceSearch, previewNodes, previewSources, Envs
<1> QED BY <1>2, <1>5

-----------------------------------------------------------------------------
(* The rows of a table *)

Tables == Seq(SUBSET Ids)

LEMMA RowsOf ==
    ASSUME NEW T \in Tables, NEW i
    PROVE  i \in Rows(T) <=> \E j \in 1..Len(T) : i \in T[j]
BY DEF Tables, Rows, Range

LEMMA Sorts == ASSUME query \in Queries PROVE query.sort \in {"none", "time", "key"}
<1>1. PICK l \in Lists : query \in [table : {l.table}, sort : l.sorts,
                                    where : l.wheres, how : {l.how}]
  BY DEF Queries
<1>2. query.sort \in l.sorts
  BY <1>1
<1>3. l.sorts \subseteq {"none", "time", "key"}
  BY DEF Lists, FetchList, CheckList, GetInitialChecks, GetDeepChecks, SponsorList,
         SourceList, NodeList, SourceGetNodes, NodeSearch, SourceSearch,
         previewNodes, previewSources
<1> QED BY <1>2, <1>3

LEMMA ConcatRows ==
    ASSUME NEW T \in Tables, NEW U \in Tables
    PROVE  T \o U \in Tables /\ Rows(T \o U) = Rows(T) \cup Rows(U)
<1> DEFINE V == T \o U
<1>1. /\ V \in Tables /\ Len(V) = Len(T) + Len(U)
      /\ \A k \in 1..(Len(T) + Len(U)) : V[k] = IF k <= Len(T) THEN T[k] ELSE U[k - Len(T)]
  BY ConcatProperties DEF Tables
<1>2. Len(T) \in Nat /\ Len(U) \in Nat
  BY LenProperties DEF Tables
<1> HIDE DEF V
<1>3. ASSUME NEW x PROVE x \in Rows(V) => x \in Rows(T) \/ x \in Rows(U)
  <2> SUFFICES ASSUME x \in Rows(V) PROVE x \in Rows(T) \/ x \in Rows(U)
    OBVIOUS
  <2>1. PICK k \in 1..Len(V) : x \in V[k]
    BY <1>1, RowsOf
  <2>2. CASE k <= Len(T)
    <3>1. k \in 1..Len(T) /\ x \in T[k]
      BY <2>1, <2>2, <1>1, <1>2
    <3> QED BY <3>1, RowsOf
  <2>3. CASE ~(k <= Len(T))
    <3>1. k - Len(T) \in 1..Len(U) /\ x \in U[k - Len(T)]
      BY <2>1, <2>3, <1>1, <1>2
    <3> QED BY <3>1, RowsOf
  <2> QED BY <2>2, <2>3
<1>4. ASSUME NEW x PROVE x \in Rows(T) => x \in Rows(V)
  <2> SUFFICES ASSUME x \in Rows(T) PROVE x \in Rows(V)
    OBVIOUS
  <2>1. PICK k \in 1..Len(T) : x \in T[k]
    BY RowsOf
  <2>2. k \in 1..Len(V) /\ x \in V[k]
    BY <2>1, <1>1, <1>2
  <2> QED BY <2>2, <1>1, RowsOf
<1>5. ASSUME NEW x PROVE x \in Rows(U) => x \in Rows(V)
  <2> SUFFICES ASSUME x \in Rows(U) PROVE x \in Rows(V)
    OBVIOUS
  <2>1. PICK k \in 1..Len(U) : x \in U[k]
    BY RowsOf
  <2>2. Len(T) + k \in 1..Len(V) /\ x \in V[Len(T) + k]
    BY <2>1, <1>1, <1>2
  <2> QED BY <2>2, <1>1, RowsOf
<1>6. Rows(V) = Rows(T) \cup Rows(U)
  BY <1>3, <1>4, <1>5
<1> QED BY <1>1, <1>6 DEF V

(* The rows before position m, and those from position l on.                *)
LEMMA PartRows ==
    ASSUME NEW T \in Tables, NEW m \in 1..(Len(T) + 1), NEW l \in 1..(Len(T) + 1)
    PROVE  /\ SubSeq(T, 1, m - 1) \in Tables /\ SubSeq(T, l, Len(T)) \in Tables
           /\ \A x : x \in Rows(SubSeq(T, 1, m - 1)) <=> \E k \in 1..(m - 1) : x \in T[k]
           /\ \A x : x \in Rows(SubSeq(T, l, Len(T))) <=> \E k \in l..Len(T) : x \in T[k]
<1> DEFINE A == SubSeq(T, 1, m - 1)
           B == SubSeq(T, l, Len(T))
<1>1. Len(T) \in Nat /\ \A k \in 1..Len(T) : T[k] \in SUBSET Ids
  BY LenProperties DEF Tables
<1>2. /\ A \in Tables /\ Len(A) = m - 1
      /\ \A k \in 1..(m - 1) : A[k] = T[k]
  <2>1. \A k \in 1..(m - 1) : T[k] \in SUBSET Ids
    BY <1>1
  <2>2. /\ A \in Seq(SUBSET Ids) /\ Len(A) = IF 1 <= m - 1 THEN (m - 1) - 1 + 1 ELSE 0
        /\ \A k \in 1..((m - 1) - 1 + 1) : A[k] = T[1 + k - 1]
    BY <2>1, <1>1, SubSeqProperties
  <2> HIDE DEF A
  <2> QED BY <2>2, <1>1 DEF Tables
<1>3. /\ B \in Tables /\ Len(B) = Len(T) - l + 1
      /\ \A k \in 1..(Len(T) - l + 1) : B[k] = T[l + k - 1]
  <2>1. \A k \in l..Len(T) : T[k] \in SUBSET Ids
    BY <1>1
  <2>2. /\ B \in Seq(SUBSET Ids) /\ Len(B) = IF l <= Len(T) THEN Len(T) - l + 1 ELSE 0
        /\ \A k \in 1..(Len(T) - l + 1) : B[k] = T[l + k - 1]
    BY <2>1, <1>1, SubSeqProperties
  <2> HIDE DEF B
  <2> QED BY <2>2, <1>1 DEF Tables
<1> HIDE DEF A, B
<1>4. ASSUME NEW x PROVE x \in Rows(A) <=> \E k \in 1..(m - 1) : x \in T[k]
  BY <1>2, RowsOf
<1>5. ASSUME NEW x PROVE x \in Rows(B) <=> \E k \in l..Len(T) : x \in T[k]
  <2>1. ASSUME NEW k \in l..Len(T), x \in T[k] PROVE x \in Rows(B)
    <3>1. k - l + 1 \in 1..Len(B) /\ B[k - l + 1] = T[k]
      BY <1>1, <1>3
    <3> QED BY <2>1, <3>1, <1>3, RowsOf
  <2>2. ASSUME x \in Rows(B) PROVE \E k \in l..Len(T) : x \in T[k]
    <3>1. PICK k \in 1..Len(B) : x \in B[k]
      BY <2>2, <1>3, RowsOf
    <3>2. l + k - 1 \in l..Len(T) /\ x \in T[l + k - 1]
      BY <3>1, <1>1, <1>3
    <3> QED BY <3>2
  <2> QED BY <2>1, <2>2
<1> QED BY <1>2, <1>3, <1>4, <1>5 DEF A, B

LEMMA OneRow == ASSUME NEW S \in SUBSET Ids PROVE <<S>> \in Tables /\ Rows(<<S>>) = S
<1> DEFINE W == <<S>>
<1>1. W \in Tables /\ Len(W) = 1 /\ W[1] = S
  BY DEF Tables
<1> HIDE DEF W
<1>2. \A x : x \in Rows(W) <=> \E k \in 1..1 : x \in W[k]
  BY <1>1, RowsOf
<1>3. ASSUME NEW x PROVE x \in Rows(W) <=> x \in S
  BY <1>1, <1>2
<1> QED BY <1>1, <1>3 DEF W

LEMMA InsertedRows ==
    ASSUME NEW T \in Tables, NEW i \in Ids, NEW j \in 1..(Len(T) + 1)
    PROVE  /\ InsertAt(T, j, {i}) \in Tables
           /\ Rows(InsertAt(T, j, {i})) = Rows(T) \cup {i}
<1> DEFINE A == SubSeq(T, 1, j - 1)
           B == SubSeq(T, j, Len(T))
<1>1. A \in Tables /\ B \in Tables
  BY PartRows
<1>2. Rows(A) \cup Rows(B) = Rows(T)
  <2>1. Len(T) \in Nat
    BY LenProperties DEF Tables
  <2>2. \A x : /\ x \in Rows(A) <=> \E k \in 1..(j - 1) : x \in T[k]
               /\ x \in Rows(B) <=> \E k \in j..Len(T) : x \in T[k]
    BY PartRows
  <2>3. \A x : x \in Rows(T) <=> \E k \in 1..Len(T) : x \in T[k]
    BY RowsOf
  <2>4. \A k : k \in 1..Len(T) <=> k \in 1..(j - 1) \/ k \in j..Len(T)
    BY <2>1
  <2> HIDE DEF A, B
  <2>5. ASSUME NEW x PROVE x \in Rows(A) \cup Rows(B) <=> x \in Rows(T)
    BY <2>2, <2>3, <2>4
  <2> QED BY <2>5
<1> HIDE DEF A, B
<1>3. <<{i}>> \in Tables /\ Rows(<<{i}>>) = {i}
  BY OneRow
<1> DEFINE W == <<{i}>>
           V == A \o W
<1>6. InsertAt(T, j, {i}) = V \o B
  BY DEF InsertAt, A, B
<1> HIDE DEF W
<1>4. V \in Tables /\ Rows(V) = Rows(A) \cup {i}
  <2>1. W \in Tables /\ Rows(W) = {i}
    BY <1>3 DEF W
  <2> QED BY <1>1, <2>1, ConcatRows
<1> HIDE DEF V
<1>5. V \o B \in Tables /\ Rows(V \o B) = Rows(A) \cup {i} \cup Rows(B)
  BY <1>1, <1>4, ConcatRows
<1> QED BY <1>2, <1>5, <1>6

LEMMA ReplacedRows ==
    ASSUME NEW T \in Tables, NEW j \in 1..Len(T), NEW S \in SUBSET Ids
    PROVE  LET U == [T EXCEPT ![j] = S]
           IN  /\ U \in Tables
               /\ \A x : x \in Rows(U) <=>
                      \/ x \in S
                      \/ \E k \in 1..Len(T) : k # j /\ x \in T[k]
<1> DEFINE U == [T EXCEPT ![j] = S]
<1>1. /\ U \in Tables /\ Len(U) = Len(T)
      /\ \A k \in 1..Len(T) : U[k] = IF k = j THEN S ELSE T[k]
  BY ExceptSeq DEF Tables
<1> HIDE DEF U
<1>2. \A x : x \in Rows(U) <=> \E k \in 1..Len(T) : x \in U[k]
  BY <1>1, RowsOf
<1>3. ASSUME NEW x
      PROVE  x \in Rows(U) <=> \/ x \in S
                              \/ \E k \in 1..Len(T) : k # j /\ x \in T[k]
  BY <1>1, <1>2
<1> QED BY <1>1, <1>3 DEF U

LEMMA JoinedRows ==
    ASSUME NEW T \in Tables, NEW i \in Ids, NEW j \in 1..Len(T)
    PROVE  LET U == [T EXCEPT ![j] = @ \cup {i}]
           IN  U \in Tables /\ Rows(U) = Rows(T) \cup {i}
<1> DEFINE U == [T EXCEPT ![j] = T[j] \cup {i}]
<1>1. T[j] \cup {i} \in SUBSET Ids
  BY ElementOfSeq DEF Tables
<1>2. /\ U \in Tables
      /\ \A x : x \in Rows(U) <=> \/ x \in T[j] \cup {i}
                                 \/ \E k \in 1..Len(T) : k # j /\ x \in T[k]
  BY <1>1, ReplacedRows
<1>3. \A x : x \in Rows(T) <=> \E k \in 1..Len(T) : x \in T[k]
  BY RowsOf
<1> HIDE DEF U
<1>4. Rows(U) = Rows(T) \cup {i}
  BY <1>2, <1>3
<1> QED BY <1>2, <1>4 DEF U

LEMMA WithRows ==
    ASSUME query \in Queries, NEW T \in Tables, NEW i \in Ids, Rows(T) \subseteq Ids,
           NEW U \in With(T, i)
    PROVE  U \in Tables /\ Rows(U) = Rows(T) \cup {i}
<1>1. CASE query.sort = "none"
  <2>1. U = <<{i} \cup Rows(T)>>
    BY <1>1 DEF With
  <2> QED BY <2>1, OneRow
<1>2. CASE query.sort \in {"time", "key"}
  <2>1. \/ \E j \in 1..(Len(T) + 1) : U = InsertAt(T, j, {i})
        \/ \E j \in DOMAIN T : U = [T EXCEPT ![j] = @ \cup {i}]
    BY <1>2 DEF With, Batches
  <2>2. DOMAIN T = 1..Len(T)
    BY LenProperties DEF Tables
  <2>3. ASSUME NEW j \in 1..(Len(T) + 1), U = InsertAt(T, j, {i})
        PROVE  U \in Tables /\ Rows(U) = Rows(T) \cup {i}
    BY <2>3, InsertedRows
  <2>4. ASSUME NEW j \in 1..Len(T), U = [T EXCEPT ![j] = @ \cup {i}]
        PROVE  U \in Tables /\ Rows(U) = Rows(T) \cup {i}
    <3> DEFINE W == [T EXCEPT ![j] = @ \cup {i}]
    <3>1. W \in Tables /\ Rows(W) = Rows(T) \cup {i}
      BY JoinedRows
    <3> QED BY <2>4, <3>1
  <2> QED BY <2>1, <2>2, <2>3, <2>4
<1> QED BY <1>1, <1>2, Sorts

LEMMA WithoutRows ==
    ASSUME NEW T \in Tables, NEW i \in Rows(T)
    PROVE  /\ Without(T, i) \in Tables
           /\ \A x : x \in Rows(Without(T, i)) => x \in Rows(T)
           /\ \A x : x \in Rows(T) /\ x # i => x \in Rows(Without(T, i))
<1> DEFINE j == Place(T, i)
<1>0. DOMAIN T = 1..Len(T) /\ Len(T) \in Nat
  BY LenProperties DEF Tables
<1>1. j \in 1..Len(T) /\ i \in T[j]
  BY <1>0, RowsOf DEF Place
<1>2. Without(T, i) = IF T[j] = {i} THEN RemoveAt(T, j) ELSE [T EXCEPT ![j] = T[j] \ {i}]
  BY DEF Without
<1> HIDE DEF j
<1>3. \A x : x \in Rows(T) <=> \E k \in 1..Len(T) : x \in T[k]
  BY RowsOf
<1>4. CASE T[j] = {i}
  <2> DEFINE A == SubSeq(T, 1, j - 1)
             B == SubSeq(T, j + 1, Len(T))
  <2>1. j \in 1..(Len(T) + 1) /\ j + 1 \in 1..(Len(T) + 1)
    BY <1>0, <1>1
  <2>2. /\ A \in Tables /\ B \in Tables
        /\ \A x : x \in Rows(A) <=> \E k \in 1..(j - 1) : x \in T[k]
        /\ \A x : x \in Rows(B) <=> \E k \in (j + 1)..Len(T) : x \in T[k]
    BY <2>1, PartRows
  <2>3. Without(T, i) = A \o B
    BY <1>2, <1>4 DEF RemoveAt
  <2> HIDE DEF A, B
  <2>4. A \o B \in Tables /\ Rows(A \o B) = Rows(A) \cup Rows(B)
    BY <2>2, ConcatRows
  <2>5. /\ \A k \in 1..Len(T) : k \in 1..(j - 1) \/ k = j \/ k \in (j + 1)..Len(T)
        /\ \A k : k \in 1..(j - 1) \/ k \in (j + 1)..Len(T) => k \in 1..Len(T)
    BY <1>0, <1>1
  <2>6. \A x : x \in Rows(A \o B) => x \in Rows(T)
    BY <2>2, <2>4, <2>5, <1>3
  <2>7. \A x : x \in Rows(T) /\ x # i => x \in Rows(A \o B)
    BY <2>2, <2>4, <2>5, <1>3, <1>4
  <2> QED BY <2>3, <2>4, <2>6, <2>7
<1>5. CASE T[j] # {i}
  <2> DEFINE U == [T EXCEPT ![j] = T[j] \ {i}]
  <2>1. T[j] \ {i} \in SUBSET Ids
    BY <1>1, ElementOfSeq DEF Tables
  <2>2. /\ U \in Tables
        /\ \A x : x \in Rows(U) <=> \/ x \in T[j] \ {i}
                                   \/ \E k \in 1..Len(T) : k # j /\ x \in T[k]
    BY <1>1, <2>1, ReplacedRows
  <2>3. Without(T, i) = U
    BY <1>2, <1>5
  <2> HIDE DEF U
  <2> QED BY <2>2, <2>3, <1>1, <1>3
<1> QED BY <1>4, <1>5

-----------------------------------------------------------------------------
(* Duplicates *)

(* Who has looked for a content in vain, with an answer, and has not been   *)
(* overtaken since still finds no row with it.                              *)
DupInv ==
    /\ query \in Queries
    /\ table \in Tables /\ Rows(table) \subseteq Ids
    /\ content \in [Ids -> Contents \cup {None}]
    /\ create \in [Admins -> [content : Contents \cup {None}, unsure : BOOLEAN]]
    /\ \A i \in Ids : content[i] # None => i \in Rows(table)
    /\ DuplicatesExcused
    /\ \A a \in Admins : create[a].content # None /\ ~create[a].unsure =>
          \A i \in Rows(table) : content[i] # create[a].content

LEMMA DupInit == Init => DupInv
<1> SUFFICES ASSUME Init PROVE DupInv
  OBVIOUS
<1>1. table = <<>> /\ table \in Tables /\ Len(table) = 0
  BY DEF Init, Tables
<1>2. \A x : x \notin Rows(table)
  BY <1>1, RowsOf
<1> QED BY <1>1, <1>2, NoneAssumption DEF Init, DupInv, DuplicatesExcused, NoCreate

(* Rows that come without a content or go change nothing.                   *)
LEMMA DupFewer ==
    ASSUME DupInv, query' = query, table' \in Tables, content' \in [Ids -> Contents \cup {None}],
           create' = create, Rows(table') \subseteq Ids,
           \A i \in Ids : content'[i] # None => content'[i] = content[i] /\ i \in Rows(table'),
           \A i \in Ids : i \in excused /\ content'[i] # None => i \in excused'
    PROVE  DupInv'
<1>1. DuplicatesExcused'
  <2> SUFFICES ASSUME NEW i \in Rows(table') \ excused', NEW j \in Rows(table') \ excused',
                      i # j, content'[i] # None
               PROVE  content'[i] # content'[j]
    BY DEF DuplicatesExcused
  <2>1. i \in Ids /\ j \in Ids
    OBVIOUS
  <2>2. CASE content'[j] = None
    BY <2>2
  <2>3. CASE content'[j] # None
    <3>1. /\ i \in Rows(table) \ excused /\ content'[i] = content[i]
          /\ j \in Rows(table) \ excused /\ content'[j] = content[j]
      BY <2>1, <2>3 DEF DupInv
    <3> QED BY <3>1 DEF DupInv, DuplicatesExcused
  <2> QED BY <2>2, <2>3
<1>2. ASSUME NEW a \in Admins, create'[a].content # None /\ ~create'[a].unsure,
             NEW i \in Rows(table')
      PROVE  content'[i] # create'[a].content
  <2>1. i \in Ids
    OBVIOUS
  <2> QED BY <1>2, <2>1 DEF DupInv
<1> QED BY <1>1, <1>2 DEF DupInv

(* A row with content c comes in; whoever else wants c is marked.           *)
LEMMA DupAdded ==
    ASSUME DupInv, NEW i \in Ids, NEW c \in Contents \cup {None},
           query' = query, table' \in Tables, Rows(table') = Rows(table) \cup {i},
           content' = [content EXCEPT ![i] = c],
           NEW J \in [Admins -> [content : Contents \cup {None}, unsure : BOOLEAN]],
           \A a \in Admins : J[a] = create[a] \/ J[a].content = None,
           create' = Raced(J, c),
           excused \subseteq excused',
           i \in excused' \/ c = None \/ \A j \in Rows(table) : content[j] # c
    PROVE  DupInv'
<1>1. content' \in [Ids -> Contents \cup {None}] /\ content'[i] = c
      /\ \A j \in Ids : j # i => content'[j] = content[j]
  BY DEF DupInv
<1>2. ASSUME NEW a \in Admins
      PROVE  /\ create'[a] \in [content : Contents \cup {None}, unsure : BOOLEAN]
             /\ create'[a].content = J[a].content
             /\ create'[a].content = c => create'[a].unsure
             /\ ~create'[a].unsure => ~J[a].unsure
  BY DEF Raced
<1>3. create' \in [Admins -> [content : Contents \cup {None}, unsure : BOOLEAN]]
  BY <1>2 DEF Raced
<1>4. DuplicatesExcused'
  <2> SUFFICES ASSUME NEW k \in Rows(table') \ excused', NEW j \in Rows(table') \ excused',
                      k # j, content'[k] # None
               PROVE  content'[k] # content'[j]
    BY DEF DuplicatesExcused
  <2>1. k \in Ids /\ j \in Ids
    BY DEF DupInv
  <2>2. CASE k # i /\ j # i
    BY <2>1, <2>2, <1>1 DEF DupInv, DuplicatesExcused
  <2>3. CASE k = i
    BY <2>1, <2>3, <1>1 DEF DupInv
  <2>4. CASE j = i
    BY <2>1, <2>4, <1>1 DEF DupInv
  <2> QED BY <2>2, <2>3, <2>4
<1>5. ASSUME NEW a \in Admins, create'[a].content # None /\ ~create'[a].unsure,
             NEW j \in Rows(table')
      PROVE  content'[j] # create'[a].content
  <2>1. create'[a].content = create[a].content /\ ~create[a].unsure /\ create'[a].content # c
    BY <1>2, <1>5
  <2>2. CASE j = i
    BY <2>1, <2>2, <1>1
  <2>3. CASE j # i
    <3>1. j \in Ids /\ j \in Rows(table)
      BY <2>3 DEF DupInv
    <3> QED BY <3>1, <2>1, <2>3, <1>1, <1>5 DEF DupInv
  <2> QED BY <2>2, <2>3
<1>6. Rows(table') \subseteq Ids /\ \A j \in Ids : content'[j] # None => j \in Rows(table')
  BY <1>1 DEF DupInv
<1> QED BY <1>1, <1>3, <1>4, <1>5, <1>6 DEF DupInv

LEMMA DupRowActions ==
    ASSUME DupInv, NEW i \in Ids, Insert(i) \/ Toggle(i) \/ Move(i) \/ Delete(i) \/ Update(i)
    PROVE  DupInv'
<1>1. CASE Insert(i)
  <2>1. table' \in Tables /\ Rows(table') = Rows(table) \cup {i}
    BY <1>1, WithRows DEF Insert, DupInv
  <2> QED BY <1>1, <2>1, DupFewer DEF Insert, DupInv
<1>2. CASE Toggle(i)
  BY <1>2, DupFewer DEF Toggle, DupInv
<1>3. CASE Move(i)
  <2> DEFINE T == Without(table, i)
  <2>1. i \in Rows(table) /\ table' \in With(T, i)
    BY <1>3 DEF Move
  <2>2. /\ T \in Tables
        /\ \A x : x \in Rows(T) => x \in Rows(table)
        /\ \A x : x \in Rows(table) /\ x # i => x \in Rows(T)
    BY <2>1, WithoutRows DEF DupInv
  <2> HIDE DEF T
  <2>3. table' \in Tables /\ Rows(table') = Rows(T) \cup {i}
    <3>1. Rows(T) \subseteq Ids
      BY <2>2 DEF DupInv
    <3> QED BY <2>1, <2>2, <3>1, WithRows DEF DupInv
  <2>4. Rows(table') \subseteq Ids /\ \A k \in Rows(table) : k \in Rows(table')
    BY <2>2, <2>3 DEF DupInv
  <2> QED BY <1>3, <2>3, <2>4, DupFewer DEF Move, DupInv
<1>4. CASE Delete(i)
  <2> DEFINE T == Without(table, i)
  <2>1. i \in Rows(table) /\ table' = T
    BY <1>4 DEF Delete
  <2>2. /\ T \in Tables
        /\ \A x : x \in Rows(T) => x \in Rows(table)
        /\ \A x : x \in Rows(table) /\ x # i => x \in Rows(T)
    BY <2>1, WithoutRows DEF DupInv
  <2> HIDE DEF T
  <2>3. /\ content' \in [Ids -> Contents \cup {None}]
        /\ \A k \in Ids : content'[k] # None =>
              k # i /\ content'[k] = content[k] /\ k \in Rows(table')
        /\ \A k \in Ids : k \in excused /\ content'[k] # None => k \in excused'
        /\ create' = create /\ query' = query
    BY <1>4, <2>1, <2>2 DEF Delete, DupInv
  <2>4. Rows(table') \subseteq Ids
    BY <2>1, <2>2 DEF DupInv
  <2> QED BY <2>1, <2>2, <2>3, <2>4, DupFewer
<1>5. CASE Update(i)
  <2>1. PICK c \in Contents : content' = [content EXCEPT ![i] = c] /\ create' = Raced(create, c)
    BY <1>5 DEF Update
  <2>2. /\ i \in Rows(table) /\ table' = table /\ query' = query
        /\ excused' = excused \cup {i}
    BY <1>5 DEF Update
  <2>3. Rows(table') = Rows(table) \cup {i} /\ table' \in Tables
    BY <2>2 DEF DupInv
  <2>4. create \in [Admins -> [content : Contents \cup {None}, unsure : BOOLEAN]]
    BY DEF DupInv
  <2> QED BY <2>1, <2>2, <2>3, <2>4, DupAdded
<1> QED BY <1>1, <1>2, <1>3, <1>4, <1>5

LEMMA DupLookup == ASSUME DupInv, NEW a \in Admins, Lookup(a) PROVE DupInv'
<1>1. PICK c \in Contents, u \in BOOLEAN :
           /\ u \/ \A i \in Rows(table) : content[i] # c
           /\ create' = [create EXCEPT ![a] = [content |-> c, unsure |-> u]]
  BY DEF Lookup
<1>2. ASSUME NEW b \in Admins, create'[b].content # None /\ ~create'[b].unsure,
             NEW i \in Rows(table)
      PROVE  content[i] # create'[b].content
  BY <1>1, <1>2 DEF DupInv
<1>3. create' \in [Admins -> [content : Contents \cup {None}, unsure : BOOLEAN]]
  BY <1>1 DEF DupInv
<1>4. UNCHANGED <<query, table, content, excused>>
  BY DEF Lookup
<1> QED BY <1>2, <1>3, <1>4 DEF DupInv, DuplicatesExcused

LEMMA DupCreate == ASSUME DupInv, NEW a \in Admins, NEW i \in Ids, Create(a, i) PROVE DupInv'
<1> DEFINE c == create[a].content
           J == [create EXCEPT ![a] = NoCreate]
<1>1. table' \in Tables /\ Rows(table') = Rows(table) \cup {i}
  BY WithRows DEF Create, DupInv
<1>2. /\ c \in Contents \cup {None}
      /\ J \in [Admins -> [content : Contents \cup {None}, unsure : BOOLEAN]]
      /\ \A b \in Admins : J[b] = create[b] \/ J[b].content = None
  BY DEF DupInv, NoCreate
<1>3. /\ content' = [content EXCEPT ![i] = c] /\ create' = Raced(J, c)
      /\ excused \subseteq excused' /\ query' = query
      /\ create[a].unsure => i \in excused'
  BY DEF Create
<1>4. i \in excused' \/ c = None \/ \A j \in Rows(table) : content[j] # c
  BY <1>3 DEF DupInv
<1> HIDE DEF c, J
<1> QED BY <1>1, <1>2, <1>3, <1>4, DupAdded

LEMMA DupInvariant == Spec => []DupInv
<1>1. Init => DupInv
  BY DupInit
<1>2. DupInv /\ [Next]_vars => DupInv'
  <2> SUFFICES ASSUME DupInv, [Next]_vars PROVE DupInv'
    OBVIOUS
  <2>1. CASE Walk
    <3>1. UNCHANGED <<query, data>>
      BY <2>1 DEF Walk, Start, More, ResolveIds, Count, Find, QueryFails, Load, Eval, Store, Run, Page, End, Quiet
    <3> QED BY <3>1 DEF data, DupInv, DuplicatesExcused
  <2>2. CASE UNCHANGED vars
    BY <2>2 DEF vars, data, DupInv, DuplicatesExcused
  <2>3. CASE \E i \in Ids : Insert(i) \/ Toggle(i) \/ Move(i) \/ Delete(i) \/ Update(i)
    BY <2>3, DupRowActions
  <2>4. CASE \E a \in Admins : Lookup(a) \/ \E i \in Ids : Create(a, i)
    BY <2>4, DupLookup, DupCreate
  <2>5. CASE \E e \in Expressions, env \in Envs : CompileElsewhere(e, env) \/ StoreElsewhere(e, env)
    BY <2>5 DEF CompileElsewhere, StoreElsewhere, data, DupInv, DuplicatesExcused
  <2> QED BY <2>1, <2>2, <2>3, <2>4, <2>5 DEF Next
<1> QED BY <1>1, <1>2, PTL DEF Spec

(* Sources have the same type and content only because an update gave one   *)
(* of them the other's, because two requests created them at the same time, *)
(* or because the look-up of the later one failed and was taken for none    *)
(* found (docs/source-management.md:13, source/service.go:25-33).           *)
THEOREM DuplicatesNeedACause == Spec => []DuplicatesExcused
<1>1. DupInv => DuplicatesExcused
  BY DEF DupInv
<1> QED BY <1>1, DupInvariant, PTL

-----------------------------------------------------------------------------
(* The order of a table *)

(* No place of the list is without a row, and no row in two places.         *)
Lined == Seq((SUBSET Ids) \ {{}})
Apart(T) == \A j, k \in DOMAIN T : T[j] \cap T[k] # {} => j = k

(* What becomes of row i leaves the order of all others as it is.           *)
OrderKept(T, U, i) ==
    /\ \A k : k # i => (k \in Rows(U) <=> k \in Rows(T))
    /\ \A k, l \in Rows(T) \ {i} : Place(U, k) < Place(U, l) <=> Place(T, k) < Place(T, l)

LEMMA LinedTables ==
    ASSUME NEW T \in Lined
    PROVE  /\ T \in Tables /\ Len(T) \in Nat /\ DOMAIN T = 1..Len(T)
           /\ \A k \in 1..Len(T) : T[k] \in (SUBSET Ids) \ {{}}
<1>1. \A k \in 1..Len(T) : T[k] \in (SUBSET Ids) \ {{}}
  BY ElementOfSeq DEF Lined
<1>2. Len(T) \in Nat /\ DOMAIN T = 1..Len(T) /\ T \in [1..Len(T) -> (SUBSET Ids) \ {{}}]
  BY LenProperties DEF Lined
<1>3. T \in Tables
  BY SeqMonotonic DEF Lined, Tables
<1> QED BY <1>1, <1>2, <1>3

LEMMA RowsAreIds == ASSUME NEW T \in Tables PROVE Rows(T) \subseteq Ids
BY RowsOf, ElementOfSeq DEF Tables

LEMMA PlaceOf ==
    ASSUME NEW T \in Lined, NEW i \in Rows(T)
    PROVE  Place(T, i) \in 1..Len(T) /\ i \in T[Place(T, i)]
BY LinedTables, RowsOf DEF Place

LEMMA OnePlace ==
    ASSUME NEW T \in Lined, Apart(T), NEW k \in 1..Len(T), NEW i \in T[k]
    PROVE  i \in Rows(T) /\ Place(T, i) = k
<1>1. i \in Rows(T)
  BY LinedTables, RowsOf
<1>2. Place(T, i) \in 1..Len(T) /\ i \in T[Place(T, i)]
  BY <1>1, PlaceOf
<1> QED BY <1>1, <1>2, LinedTables DEF Apart

LEMMA InsertedPlaces ==
    ASSUME NEW T \in Lined, NEW S \in (SUBSET Ids) \ {{}}, NEW j \in 1..(Len(T) + 1)
    PROVE  LET U == InsertAt(T, j, S)
           IN  /\ U \in Lined /\ Len(U) = Len(T) + 1
               /\ \A k \in 1..(Len(T) + 1) :
                    U[k] = IF k < j THEN T[k] ELSE IF k = j THEN S ELSE T[k - 1]
<1> DEFINE A == SubSeq(T, 1, j - 1)
           B == SubSeq(T, j, Len(T))
           W == <<S>>
           V == A \o W
           X == V \o B
           R == (SUBSET Ids) \ {{}}
<1>1. Len(T) \in Nat /\ \A k \in 1..Len(T) : T[k] \in R
  BY LinedTables
<1>2. A \in Seq(R) /\ Len(A) = j - 1 /\ \A k \in 1..(j - 1) : A[k] = T[k]
  <2>1. \A k \in 1..(j - 1) : T[k] \in R
    BY <1>1
  <2>2. /\ A \in Seq(R) /\ Len(A) = IF 1 <= j - 1 THEN (j - 1) - 1 + 1 ELSE 0
        /\ \A k \in 1..((j - 1) - 1 + 1) : A[k] = T[1 + k - 1]
    BY <2>1, <1>1, SubSeqProperties DEF Lined
  <2> HIDE DEF A, R
  <2> QED BY <2>2, <1>1
<1>3. /\ B \in Seq(R) /\ Len(B) = Len(T) - j + 1
      /\ \A k \in 1..(Len(T) - j + 1) : B[k] = T[j + k - 1]
  <2>1. \A k \in j..Len(T) : T[k] \in R
    BY <1>1
  <2>2. /\ B \in Seq(R) /\ Len(B) = IF j <= Len(T) THEN Len(T) - j + 1 ELSE 0
        /\ \A k \in 1..(Len(T) - j + 1) : B[k] = T[j + k - 1]
    BY <2>1, <1>1, SubSeqProperties DEF Lined
  <2> HIDE DEF B, R
  <2> QED BY <2>2, <1>1
<1>4. W \in Seq(R) /\ Len(W) = 1 /\ W[1] = S
  OBVIOUS
<1>5. InsertAt(T, j, S) = X
  BY DEF InsertAt
<1> HIDE DEF A, B, W, R
<1>6. /\ V \in Seq(R) /\ Len(V) = Len(A) + Len(W)
      /\ \A k \in 1..(Len(A) + Len(W)) : V[k] = IF k <= Len(A) THEN A[k] ELSE W[k - Len(A)]
  BY <1>2, <1>4, ConcatProperties
<1> HIDE DEF V
<1>7. /\ X \in Seq(R) /\ Len(X) = Len(V) + Len(B)
      /\ \A k \in 1..(Len(V) + Len(B)) : X[k] = IF k <= Len(V) THEN V[k] ELSE B[k - Len(V)]
  BY <1>3, <1>6, ConcatProperties
<1> HIDE DEF X
<1>8. Len(V) = j /\ Len(X) = Len(T) + 1
  BY <1>1, <1>2, <1>3, <1>4, <1>6, <1>7
<1>9. ASSUME NEW k \in 1..(Len(T) + 1)
      PROVE  X[k] = IF k < j THEN T[k] ELSE IF k = j THEN S ELSE T[k - 1]
  <2>1. CASE k < j
    <3>1. /\ k \in 1..(Len(V) + Len(B)) /\ k <= Len(V) /\ k <= Len(A)
          /\ k \in 1..(Len(A) + Len(W)) /\ k \in 1..(j - 1)
      BY <2>1, <1>1, <1>2, <1>3, <1>4, <1>8
    <3>2. X[k] = V[k] /\ V[k] = A[k] /\ A[k] = T[k]
      BY <3>1, <1>2, <1>6, <1>7
    <3> QED BY <2>1, <3>2
  <2>2. CASE k = j
    <3>1. k \in 1..(Len(V) + Len(B)) /\ k <= Len(V) /\ k - Len(A) = 1 /\ ~(k <= Len(A))
      BY <2>2, <1>1, <1>2, <1>3, <1>8
    <3>2. X[k] = V[k] /\ V[k] = W[k - Len(A)]
      BY <3>1, <1>2, <1>4, <1>6, <1>7
    <3> QED BY <2>2, <3>1, <3>2, <1>4
  <2>3. CASE k > j
    <3>1. k \in 1..(Len(V) + Len(B)) /\ ~(k <= Len(V)) /\ k - j \in 1..(Len(T) - j + 1)
      BY <2>3, <1>1, <1>3, <1>8
    <3>2. X[k] = B[k - j] /\ B[k - j] = T[j + (k - j) - 1]
      BY <3>1, <1>3, <1>7, <1>8
    <3> QED BY <2>3, <3>2
  <2> QED BY <2>1, <2>2, <2>3
<1>10. X \in Lined
  BY <1>7 DEF Lined, R
<1> QED BY <1>5, <1>8, <1>9, <1>10

LEMMA RemovedPlaces ==
    ASSUME NEW T \in Lined, NEW j \in 1..Len(T)
    PROVE  LET U == RemoveAt(T, j)
           IN  /\ U \in Lined /\ Len(U) = Len(T) - 1
               /\ \A k \in 1..(Len(T) - 1) : U[k] = IF k < j THEN T[k] ELSE T[k + 1]
<1> DEFINE A == SubSeq(T, 1, j - 1)
           B == SubSeq(T, j + 1, Len(T))
           X == A \o B
           R == (SUBSET Ids) \ {{}}
<1>1. Len(T) \in Nat /\ \A k \in 1..Len(T) : T[k] \in R
  BY LinedTables
<1>2. A \in Seq(R) /\ Len(A) = j - 1 /\ \A k \in 1..(j - 1) : A[k] = T[k]
  <2>1. \A k \in 1..(j - 1) : T[k] \in R
    BY <1>1
  <2>2. /\ A \in Seq(R) /\ Len(A) = IF 1 <= j - 1 THEN (j - 1) - 1 + 1 ELSE 0
        /\ \A k \in 1..((j - 1) - 1 + 1) : A[k] = T[1 + k - 1]
    BY <2>1, <1>1, SubSeqProperties DEF Lined
  <2> HIDE DEF A, R
  <2> QED BY <2>2, <1>1
<1>3. /\ B \in Seq(R) /\ Len(B) = Len(T) - j
      /\ \A k \in 1..(Len(T) - j) : B[k] = T[j + k]
  <2>1. \A k \in (j + 1)..Len(T) : T[k] \in R
    BY <1>1
  <2>2. /\ B \in Seq(R) /\ Len(B) = IF j + 1 <= Len(T) THEN Len(T) - (j + 1) + 1 ELSE 0
        /\ \A k \in 1..(Len(T) - (j + 1) + 1) : B[k] = T[(j + 1) + k - 1]
    BY <2>1, <1>1, SubSeqProperties DEF Lined
  <2> HIDE DEF B, R
  <2> QED BY <2>2, <1>1
<1>4. RemoveAt(T, j) = X
  BY DEF RemoveAt
<1> HIDE DEF A, B, R
<1>5. /\ X \in Seq(R) /\ Len(X) = Len(A) + Len(B)
      /\ \A k \in 1..(Len(A) + Len(B)) : X[k] = IF k <= Len(A) THEN A[k] ELSE B[k - Len(A)]
  BY <1>2, <1>3, ConcatProperties
<1> HIDE DEF X
<1>6. Len(X) = Len(T) - 1
  BY <1>1, <1>2, <1>3, <1>5
<1>7. ASSUME NEW k \in 1..(Len(T) - 1)
      PROVE  X[k] = IF k < j THEN T[k] ELSE T[k + 1]
  <2>1. CASE k < j
    BY <2>1, <1>1, <1>2, <1>3, <1>5
  <2>2. CASE k >= j
    <3>1. /\ k \in 1..(Len(A) + Len(B)) /\ ~(k <= Len(A))
          /\ k - (j - 1) \in 1..(Len(T) - j)
      BY <2>2, <1>1, <1>2, <1>3
    <3>2. X[k] = B[k - (j - 1)] /\ B[k - (j - 1)] = T[j + (k - (j - 1))]
      BY <3>1, <1>2, <1>3, <1>5
    <3> QED BY <2>2, <3>2
  <2> QED BY <2>1, <2>2
<1> QED BY <1>4, <1>5, <1>6, <1>7 DEF Lined, R

(* A table whose places follow those of another, row i left aside, has its  *)
(* rows in the same order.                                                  *)
LEMMA PlacesFollow ==
    ASSUME NEW T \in Lined, Apart(T), NEW U \in Lined, Apart(U), NEW i,
           NEW m \in [1..Len(T) -> Int],
           \A k, l \in 1..Len(T) : T[k] # {i} /\ T[l] # {i} /\ k < l => m[k] < m[l],
           \A k \in 1..Len(T) : T[k] # {i} => m[k] \in 1..Len(U) /\ T[k] \ {i} \subseteq U[m[k]],
           \A x \in Rows(U) : x # i => x \in Rows(T)
    PROVE  OrderKept(T, U, i)
<1>1. ASSUME NEW x \in Rows(T), x # i
      PROVE  /\ Place(T, x) \in 1..Len(T) /\ T[Place(T, x)] # {i}
             /\ x \in Rows(U) /\ Place(U, x) = m[Place(T, x)]
  <2>1. Place(T, x) \in 1..Len(T) /\ x \in T[Place(T, x)]
    BY PlaceOf
  <2>2. T[Place(T, x)] # {i}
    BY <1>1, <2>1
  <2>3. m[Place(T, x)] \in 1..Len(U) /\ x \in U[m[Place(T, x)]]
    BY <1>1, <2>1, <2>2
  <2> QED BY <2>1, <2>2, <2>3, OnePlace
<1>2. ASSUME NEW k \in Rows(T) \ {i}, NEW l \in Rows(T) \ {i}
      PROVE  Place(U, k) < Place(U, l) <=> Place(T, k) < Place(T, l)
  <2> DEFINE p == Place(T, k)
             q == Place(T, l)
  <2>1. /\ p \in 1..Len(T) /\ T[p] # {i} /\ Place(U, k) = m[p]
        /\ q \in 1..Len(T) /\ T[q] # {i} /\ Place(U, l) = m[q]
    BY <1>1
  <2> HIDE DEF p, q
  <2>2. m[p] \in Int /\ m[q] \in Int /\ p \in Int /\ q \in Int
    BY <2>1
  <2>3. p < q => m[p] < m[q]
    BY <2>1
  <2>4. q < p => m[q] < m[p]
    BY <2>1
  <2> QED BY <2>1, <2>2, <2>3, <2>4 DEF p, q
<1>3. ASSUME NEW k, k # i PROVE k \in Rows(U) <=> k \in Rows(T)
  BY <1>1, <1>3
<1> QED BY <1>2, <1>3 DEF OrderKept

LEMMA InsertKeepsOrder ==
    ASSUME NEW T \in Lined, Apart(T), NEW i \in Ids, i \notin Rows(T), NEW j \in 1..(Len(T) + 1)
    PROVE  LET U == InsertAt(T, j, {i})
           IN  U \in Lined /\ Apart(U) /\ OrderKept(T, U, i)
<1> DEFINE U == InsertAt(T, j, {i})
           m == [k \in 1..Len(T) |-> IF k < j THEN k ELSE k + 1]
<1>1. /\ U \in Lined /\ Len(U) = Len(T) + 1
      /\ \A k \in 1..(Len(T) + 1) : U[k] = IF k < j THEN T[k] ELSE IF k = j THEN {i} ELSE T[k - 1]
  <2> DEFINE S == {i}
  <2>1. S \in (SUBSET Ids) \ {{}}
    OBVIOUS
  <2> HIDE DEF S
  <2>2. LET V == InsertAt(T, j, S)
        IN  /\ V \in Lined /\ Len(V) = Len(T) + 1
            /\ \A k \in 1..(Len(T) + 1) :
                 V[k] = IF k < j THEN T[k] ELSE IF k = j THEN S ELSE T[k - 1]
    BY <2>1, InsertedPlaces
  <2> QED BY <2>2 DEF S
<1>2. Len(T) \in Nat /\ DOMAIN T = 1..Len(T) /\ T \in Tables
  BY LinedTables
<1>3. DOMAIN U = 1..Len(U) /\ U \in Tables
  BY <1>1, LinedTables
<1>4. \A x : x \in Rows(U) => x \in Rows(T) \cup {i}
  <2>1. Rows(U) = Rows(T) \cup {i}
    BY <1>2, InsertedRows
  <2> QED BY <2>1
<1> HIDE DEF U
<1>5. Apart(U)
  <2> SUFFICES ASSUME NEW k \in 1..Len(U), NEW l \in 1..Len(U), NEW x \in U[k] \cap U[l]
               PROVE  k = l
    BY <1>3 DEF Apart
  <2>1. CASE x = i
    <3>1. \A n \in 1..Len(T) : i \notin T[n]
      BY <1>2, RowsOf
    <3>2. \A n \in 1..Len(U) : i \in U[n] => n = j
      BY <3>1, <1>1, <1>2
    <3> QED BY <2>1, <3>2
  <2>2. CASE x # i
    <3> DEFINE p == IF k < j THEN k ELSE k - 1
               q == IF l < j THEN l ELSE l - 1
    <3>1. k # j /\ l # j
      BY <2>2, <1>1, <1>2
    <3>2. /\ p \in 1..Len(T) /\ x \in T[p]
          /\ q \in 1..Len(T) /\ x \in T[q]
      BY <3>1, <1>1, <1>2
    <3>3. p = q
      BY <3>2, <1>2 DEF Apart
    <3> QED BY <3>1, <3>3, <1>1, <1>2
  <2> QED BY <2>1, <2>2
<1>6. m \in [1..Len(T) -> Int] /\ \A k \in 1..Len(T) : m[k] = IF k < j THEN k ELSE k + 1
  BY <1>2
<1> HIDE DEF m
<1>7. \A k, l \in 1..Len(T) : k < l => m[k] < m[l]
  BY <1>2, <1>6
<1>8. \A k \in 1..Len(T) : m[k] \in 1..Len(U) /\ T[k] \ {i} \subseteq U[m[k]]
  BY <1>1, <1>2, <1>6
<1>9. OrderKept(T, U, i)
  BY <1>1, <1>4, <1>5, <1>6, <1>7, <1>8, PlacesFollow
<1> QED BY <1>1, <1>5, <1>9 DEF U

LEMMA JoinKeepsOrder ==
    ASSUME NEW T \in Lined, Apart(T), NEW i \in Ids, i \notin Rows(T), NEW j \in 1..Len(T)
    PROVE  LET U == [T EXCEPT ![j] = @ \cup {i}]
           IN  U \in Lined /\ Apart(U) /\ OrderKept(T, U, i)
<1> DEFINE S == T[j] \cup {i}
           U == [T EXCEPT ![j] = S]
           m == [k \in 1..Len(T) |-> k]
<1>1. Len(T) \in Nat /\ DOMAIN T = 1..Len(T) /\ T \in Tables
      /\ \A k \in 1..Len(T) : T[k] \in (SUBSET Ids) \ {{}}
  BY LinedTables
<1>2. S \in (SUBSET Ids) \ {{}}
  BY <1>1
<1> HIDE DEF S
<1>3. /\ U \in Lined /\ Len(U) = Len(T)
      /\ \A k \in 1..Len(T) : U[k] = IF k = j THEN S ELSE T[k]
  BY <1>2, ExceptSeq DEF Lined
<1>4. DOMAIN U = 1..Len(U)
  BY <1>3, LinedTables
<1>5. \A x : x \in Rows(U) => x \in Rows(T) \cup {i}
  <2>1. Rows(U) = Rows(T) \cup {i}
    BY <1>1, JoinedRows DEF S
  <2> QED BY <2>1
<1>6. \A n \in 1..Len(T) : i \notin T[n]
  BY <1>1, RowsOf
<1> HIDE DEF U
<1>7. Apart(U)
  <2> SUFFICES ASSUME NEW k \in 1..Len(U), NEW l \in 1..Len(U), NEW x \in U[k] \cap U[l]
               PROVE  k = l
    BY <1>4 DEF Apart
  <2>1. CASE x = i
    BY <2>1, <1>3, <1>6
  <2>2. CASE x # i
    <3>1. x \in T[k] /\ x \in T[l] /\ k \in 1..Len(T) /\ l \in 1..Len(T)
      BY <2>2, <1>3 DEF S
    <3> QED BY <3>1, <1>1 DEF Apart
  <2> QED BY <2>1, <2>2
<1>8. m \in [1..Len(T) -> Int] /\ \A k \in 1..Len(T) : m[k] = k
  BY <1>1
<1> HIDE DEF m
<1>9. \A k \in 1..Len(T) : m[k] \in 1..Len(U) /\ T[k] \ {i} \subseteq U[m[k]]
  BY <1>3, <1>8 DEF S
<1>10. OrderKept(T, U, i)
  BY <1>3, <1>5, <1>7, <1>8, <1>9, PlacesFollow
<1> QED BY <1>3, <1>7, <1>10 DEF U, S

(* Wherever a row comes in.                                                 *)
LEMMA WithKeepsOrder ==
    ASSUME query \in Queries, NEW T \in Lined, Apart(T), NEW i \in Ids, i \notin Rows(T),
           NEW U \in With(T, i)
    PROVE  U \in Lined /\ Apart(U) /\ (query.sort # "none" => OrderKept(T, U, i))
<1>1. CASE query.sort = "none"
  <2>1. Rows(T) \subseteq Ids
    BY LinedTables, RowsAreIds
  <2>2. U = <<{i} \cup Rows(T)>>
    BY <1>1 DEF With
  <2> DEFINE S == {i} \cup Rows(T)
  <2>3. S \in (SUBSET Ids) \ {{}}
    BY <2>1
  <2> HIDE DEF S
  <2>4. <<S>> \in Lined /\ Apart(<<S>>)
    BY <2>3 DEF Lined, Apart
  <2> QED BY <1>1, <2>2, <2>4 DEF S
<1>2. ASSUME NEW j \in 1..(Len(T) + 1), U = InsertAt(T, j, {i})
      PROVE  U \in Lined /\ Apart(U) /\ OrderKept(T, U, i)
  BY <1>2, InsertKeepsOrder
<1>3. ASSUME NEW j \in 1..Len(T), U = [T EXCEPT ![j] = @ \cup {i}]
      PROVE  U \in Lined /\ Apart(U) /\ OrderKept(T, U, i)
  <2> DEFINE W == [T EXCEPT ![j] = @ \cup {i}]
  <2>1. W \in Lined /\ Apart(W) /\ OrderKept(T, W, i)
    BY JoinKeepsOrder
  <2> QED BY <1>3, <2>1
<1>4. CASE query.sort \in {"time", "key"}
  <2>1. \/ \E j \in 1..(Len(T) + 1) : U = InsertAt(T, j, {i})
        \/ \E j \in DOMAIN T : U = [T EXCEPT ![j] = @ \cup {i}]
    BY <1>4 DEF With, Batches
  <2>2. DOMAIN T = 1..Len(T)
    BY LinedTables
  <2> QED BY <1>2, <1>3, <2>1, <2>2
<1> QED BY <1>1, <1>4, Sorts

LEMMA WithoutKeepsOrder ==
    ASSUME NEW T \in Lined, Apart(T), NEW i \in Rows(T)
    PROVE  LET U == Without(T, i)
           IN  U \in Lined /\ Apart(U) /\ i \notin Rows(U) /\ OrderKept(T, U, i)
<1> DEFINE j == Place(T, i)
           U == Without(T, i)
<1>0. Len(T) \in Nat /\ DOMAIN T = 1..Len(T) /\ T \in Tables
      /\ \A k \in 1..Len(T) : T[k] \in (SUBSET Ids) \ {{}}
  BY LinedTables
<1>1. j \in 1..Len(T) /\ i \in T[j] /\ \A k \in 1..Len(T) : i \in T[k] => k = j
  BY PlaceOf, OnePlace
<1>2. U = IF T[j] = {i} THEN RemoveAt(T, j) ELSE [T EXCEPT ![j] = T[j] \ {i}]
  BY DEF Without
<1>3. \A x : x \in Rows(U) => x \in Rows(T)
  BY <1>0, WithoutRows
<1> HIDE DEF j, U
<1>4. CASE T[j] = {i}
  <2> DEFINE m == [k \in 1..Len(T) |-> IF k < j THEN k ELSE k - 1]
  <2>1. /\ U \in Lined /\ Len(U) = Len(T) - 1
        /\ \A k \in 1..(Len(T) - 1) : U[k] = IF k < j THEN T[k] ELSE T[k + 1]
    BY <1>1, <1>2, <1>4, RemovedPlaces
  <2>2. DOMAIN U = 1..Len(U)
    BY <2>1, LinedTables
  <2>3. ASSUME NEW k \in 1..Len(U)
        PROVE  \E p \in 1..Len(T) : U[k] = T[p] /\ p # j /\ p = IF k < j THEN k ELSE k + 1
    BY <1>0, <1>1, <2>1
  <2>4. Apart(U)
    <3> SUFFICES ASSUME NEW k \in 1..Len(U), NEW l \in 1..Len(U), NEW x \in U[k] \cap U[l]
                 PROVE  k = l
      BY <2>2 DEF Apart
    <3>1. PICK p \in 1..Len(T) : U[k] = T[p] /\ p = IF k < j THEN k ELSE k + 1
      BY <2>3
    <3>2. PICK q \in 1..Len(T) : U[l] = T[q] /\ q = IF l < j THEN l ELSE l + 1
      BY <2>3
    <3>3. p = q
      BY <3>1, <3>2, <1>0 DEF Apart
    <3> QED BY <3>1, <3>2, <3>3, <1>1
  <2>5. i \notin Rows(U)
    <3>1. \A k \in 1..Len(U) : i \notin U[k]
      BY <2>3, <1>1
    <3> QED BY <3>1, <2>1, LinedTables, RowsOf
  <2>6. m \in [1..Len(T) -> Int] /\ \A k \in 1..Len(T) : m[k] = IF k < j THEN k ELSE k - 1
    BY <1>0
  <2> HIDE DEF m
  <2>7. \A k, l \in 1..Len(T) : T[k] # {i} /\ T[l] # {i} /\ k < l => m[k] < m[l]
    BY <1>0, <1>1, <1>4, <2>6
  <2>8. \A k \in 1..Len(T) : T[k] # {i} => m[k] \in 1..Len(U) /\ T[k] \ {i} \subseteq U[m[k]]
    BY <1>0, <1>1, <1>4, <2>1, <2>6
  <2>9. OrderKept(T, U, i)
    BY <1>3, <2>1, <2>4, <2>6, <2>7, <2>8, PlacesFollow
  <2> QED BY <2>1, <2>4, <2>5, <2>9 DEF U
<1>5. CASE T[j] # {i}
  <2> DEFINE S == T[j] \ {i}
             m == [k \in 1..Len(T) |-> k]
  <2>1. S \in (SUBSET Ids) \ {{}}
    BY <1>0, <1>1, <1>5
  <2>10. U = [T EXCEPT ![j] = S]
    BY <1>2, <1>5
  <2> HIDE DEF S
  <2>2. /\ U \in Lined /\ Len(U) = Len(T)
        /\ \A k \in 1..Len(T) : U[k] = IF k = j THEN S ELSE T[k]
    BY <1>1, <2>1, <2>10, ExceptSeq DEF Lined
  <2>3. DOMAIN U = 1..Len(U)
    BY <2>2, LinedTables
  <2>4. \A k \in 1..Len(U) : U[k] = T[k] \ {i}
    BY <2>2, <1>1 DEF S
  <2>5. Apart(U)
    BY <2>2, <2>3, <2>4, <1>0 DEF Apart
  <2>6. i \notin Rows(U)
    BY <2>2, <2>4, LinedTables, RowsOf
  <2>7. m \in [1..Len(T) -> Int] /\ \A k \in 1..Len(T) : m[k] = k
    BY <1>0
  <2> HIDE DEF m
  <2>8. \A k \in 1..Len(T) : m[k] \in 1..Len(U) /\ T[k] \ {i} \subseteq U[m[k]]
    BY <2>2, <2>4, <2>7
  <2>9. OrderKept(T, U, i)
    BY <1>3, <2>2, <2>5, <2>7, <2>8, PlacesFollow
  <2> QED BY <2>2, <2>5, <2>6, <2>9 DEF U
<1> QED BY <1>4, <1>5

-----------------------------------------------------------------------------
(* Pages under change *)

TableOK ==
    /\ query \in Queries
    /\ table \in Lined /\ Apart(table) /\ IsFiniteSet(Rows(table))
    /\ attr \in SUBSET Ids

Limits == 1..Max({DefaultLimit, MaxLimit, MaxPreview})

Walks == [pc : {"idle", "ids", "count", "find", "load", "eval", "store", "run",
                "page", "more", "done", "failed"},
          page : Nat, limit : Limits,
          total : Nat, ids : SUBSET Ids, matching : SUBSET Ids, got : SUBSET Ids,
          seen : SUBSET Ids, twice : SUBSET Ids, due : SUBSET Ids,
          calm : SUBSET Ids, grown : BOOLEAN, misled : BOOLEAN]

Paging == {"ids", "count", "find", "more"}

(* The rows before the next page.                                           *)
Passed == (IF walk.pc = "more" THEN walk.page ELSE walk.page - 1) * walk.limit

Resolved == IF query.where = "ids" THEN walk.ids ELSE {}
Shown == Visible(table, attr \cup Resolved)
Above(S, i) == {k \in S : Place(table, k) < Place(table, i)}

Phases ==
    /\ walk.pc \in {"ids", "count", "find"} => InSQL
    /\ walk.pc = "ids" => query.where = "ids"
    /\ walk.pc \in {"load", "eval", "store", "run", "page"} => ~InSQL

(* A row that is due or calm is in the list, and no other in its place.     *)
Certain ==
    /\ query.sort = "none" \/ walk.pc = "idle" => walk.due = {} /\ walk.calm = {}
    /\ \A i \in walk.due \cup walk.calm :
         /\ i \in Visible(table, attr)
         /\ \A k \in Shown : k # i => Place(table, k) # Place(table, i)
    /\ query.where = "ids" /\ walk.pc \in {"count", "find"} => walk.due \subseteq walk.ids

(* A due row not seen yet has all the pages so far before it.               *)
StillAhead ==
    walk.pc \in Paging =>
        \A i \in walk.due \ walk.seen : Cardinality(Above(Listed, i)) >= Passed

(* A calm row that was seen has less before it.                             *)
LeftBehind ==
    /\ walk.pc \in Paging =>
         \A i \in walk.calm \cap walk.seen : Cardinality(Above(Shown, i)) < Passed
    /\ walk.pc \in {"count", "find"} =>
         \A i \in walk.calm : Above(Shown, i) \subseteq Listed

Counted ==
    walk.pc = "find" => walk.grown \/ walk.misled \/ Cardinality(Listed) <= walk.total

WalkInv ==
    /\ TableOK
    /\ walk \in Walks /\ walk.page >= 1 /\ IsFiniteSet(walk.matching)
    /\ Phases /\ Certain /\ StillAhead /\ LeftBehind /\ Counted
    /\ NothingMissed /\ NothingTwice /\ PageAsAnnounced

(* Row i comes, changes or goes, and the others stay as they are.           *)
RowChanged(i) ==
    /\ table' \in Lined /\ Apart(table') /\ IsFiniteSet(Rows(table'))
    /\ attr' \in SUBSET Ids
    /\ \A k : k # i => (k \in attr' <=> k \in attr)
    /\ \A k : k # i => (k \in Rows(table') <=> k \in Rows(table))
    /\ query.sort # "none" => OrderKept(table, table', i)
    /\ i \in Rows(table) \/ i \notin walk.ids
    /\ Watch(i)
    /\ query' = query

LEMMA FreshRow ==
    ASSUME TableOK, NEW i \in Ids, i \in Fresh, table' \in With(table, i)
    PROVE  /\ table' \in Lined /\ Apart(table') /\ IsFiniteSet(Rows(table'))
           /\ \A k : k # i => (k \in Rows(table') <=> k \in Rows(table))
           /\ query.sort # "none" => OrderKept(table, table', i)
           /\ i \notin walk.ids
<1>1. i \notin Rows(table) /\ i \notin walk.ids
  BY DEF Fresh
<1>2. table' \in Lined /\ Apart(table')
      /\ (query.sort # "none" => OrderKept(table, table', i))
  BY <1>1, WithKeepsOrder DEF TableOK
<1>3. Rows(table') = Rows(table) \cup {i}
  BY LinedTables, RowsAreIds, WithRows DEF TableOK
<1>4. IsFiniteSet(Rows(table'))
  BY <1>3, FS_AddElement DEF TableOK
<1> QED BY <1>1, <1>2, <1>3, <1>4

LEMMA RowsChange ==
    ASSUME TableOK, NEW i \in Ids,
           \/ Insert(i) \/ Toggle(i) \/ Move(i) \/ Delete(i)
           \/ \E a \in Admins : Create(a, i)
    PROVE  RowChanged(i)
<1>1. CASE Insert(i)
  BY <1>1, FreshRow DEF Insert, RowChanged, TableOK
<1>2. CASE Toggle(i)
  <2>1. OrderKept(table, table', i)
    BY <1>2 DEF Toggle, OrderKept
  <2> QED BY <1>2, <2>1 DEF Toggle, RowChanged, TableOK
<1>3. CASE Move(i)
  <2> DEFINE T == Without(table, i)
  <2>1. i \in Rows(table) /\ table' \in With(T, i) /\ query' = query /\ attr' = attr /\ Watch(i)
    BY <1>3 DEF Move
  <2>2. T \in Lined /\ Apart(T) /\ i \notin Rows(T) /\ OrderKept(table, T, i)
    BY <2>1, WithoutKeepsOrder DEF TableOK
  <2> HIDE DEF T
  <2>3. table' \in Lined /\ Apart(table') /\ (query.sort # "none" => OrderKept(T, table', i))
    BY <2>1, <2>2, WithKeepsOrder DEF TableOK
  <2>4. Rows(table') = Rows(T) \cup {i}
    BY <2>1, <2>2, LinedTables, RowsAreIds, WithRows DEF TableOK
  <2>5. \A k : k # i => (k \in Rows(T) <=> k \in Rows(table))
    BY <2>2 DEF OrderKept
  <2>6. \A k : k # i => (k \in Rows(table') <=> k \in Rows(table))
    BY <2>4, <2>5
  <2>7. IsFiniteSet(Rows(table'))
    <3>1. Rows(T) \in SUBSET Rows(table)
      BY <2>2, <2>5
    <3> QED BY <2>4, <3>1, FS_Subset, FS_AddElement DEF TableOK
  <2>8. query.sort # "none" => OrderKept(table, table', i)
    BY <2>2, <2>3, <2>5, <2>6 DEF OrderKept
  <2> QED BY <2>1, <2>3, <2>6, <2>7, <2>8 DEF RowChanged, TableOK
<1>4. CASE Delete(i)
  <2>1. /\ i \in Rows(table) /\ table' = Without(table, i) /\ query' = query
        /\ attr' = attr \ {i} /\ Watch(i)
    BY <1>4 DEF Delete
  <2>2. table' \in Lined /\ Apart(table') /\ i \notin Rows(table') /\ OrderKept(table, table', i)
    BY <2>1, WithoutKeepsOrder DEF TableOK
  <2>3. \A k : k # i => (k \in Rows(table') <=> k \in Rows(table))
    BY <2>2 DEF OrderKept
  <2>4. Rows(table') \in SUBSET Rows(table)
    BY <2>2, <2>3
  <2>5. IsFiniteSet(Rows(table'))
    BY <2>4, FS_Subset DEF TableOK
  <2> QED BY <2>1, <2>2, <2>3, <2>5 DEF RowChanged, TableOK
<1>5. ASSUME NEW a \in Admins, Create(a, i) PROVE RowChanged(i)
  BY <1>5, FreshRow DEF Create, RowChanged, TableOK
<1> QED BY <1>1, <1>2, <1>3, <1>4, <1>5

(* What the change of row i tells of the rows that stay due or calm.        *)
LEMMA Watched ==
    ASSUME walk \in Walks, walk.pc # "idle", NEW i \in Ids, RowChanged(i)
    PROVE  /\ walk' \in Walks
           /\ walk'.pc = walk.pc /\ walk'.page = walk.page /\ walk'.limit = walk.limit
           /\ walk'.total = walk.total /\ walk'.ids = walk.ids
           /\ walk'.matching = walk.matching /\ walk'.got = walk.got
           /\ walk'.seen = walk.seen /\ walk'.twice = walk.twice
           /\ walk'.misled = walk.misled
           /\ walk.grown => walk'.grown
           /\ walk.pc # "find" => walk'.grown = walk.grown
           /\ ~walk'.grown /\ walk.pc = "find" =>
                 (i \in Visible(table', attr') => i \in Visible(table, attr))
           /\ \A x \in walk'.due :
                 /\ x \in walk.due /\ x \notin Ties(table', attr' \cup Resolved, i)
                 /\ x \in Below(table, attr \cup Resolved, i)
                       => x \in Below(table', attr' \cup Resolved, i)
           /\ \A x \in walk'.calm :
                 /\ x \in walk.calm /\ x \notin Ties(table', attr' \cup Resolved, i)
                 /\ x \in Below(table', attr' \cup Resolved, i)
                       => x \in Below(table, attr \cup Resolved, i)
<1> DEFINE before == Below(table, attr \cup Resolved, i)
           after == Below(table', attr' \cup Resolved, i)
           ties == Ties(table', attr' \cup Resolved, i)
           D == walk.due \ ((before \ after) \cup ties)
           C == walk.calm \ ((after \ before) \cup ties)
           G == walk.grown \/ /\ walk.pc = "find"
                              /\ i \in Visible(table', attr') \ Visible(table, attr)
<1>1. walk' = [walk EXCEPT !.due = D, !.calm = C, !.grown = G]
  BY DEF RowChanged, Watch, Resolved
<1>2. D \in SUBSET Ids /\ C \in SUBSET Ids /\ G \in BOOLEAN
  BY DEF Walks
<1>4. walk.grown \in BOOLEAN
  BY DEF Walks
<1>5. /\ \A x \in D : x \in walk.due /\ x \notin ties /\ (x \in before => x \in after)
      /\ \A x \in C : x \in walk.calm /\ x \notin ties /\ (x \in after => x \in before)
  OBVIOUS
<1>6. /\ walk.grown => G
      /\ walk.pc # "find" => G = walk.grown
      /\ ~G /\ walk.pc = "find" => (i \in Visible(table', attr') => i \in Visible(table, attr))
  BY <1>4
<1> HIDE DEF D, C, G
<1>3. /\ walk' \in Walks
      /\ walk'.pc = walk.pc /\ walk'.page = walk.page /\ walk'.limit = walk.limit
      /\ walk'.total = walk.total /\ walk'.ids = walk.ids
      /\ walk'.matching = walk.matching /\ walk'.got = walk.got
      /\ walk'.seen = walk.seen /\ walk'.twice = walk.twice
      /\ walk'.due = D /\ walk'.calm = C /\ walk'.grown = G
      /\ walk'.misled = walk.misled
  BY <1>1, <1>2 DEF Walks
<1> QED BY <1>3, <1>5, <1>6

LEMMA TiesAreLevel ==
    ASSUME NEW T \in Lined, Apart(T), NEW A, NEW i, NEW k,
           i \in Visible(T, A), k \in Visible(T, A), Place(T, k) = Place(T, i)
    PROVE  k \in Ties(T, A, i)
<1>1. k \in Rows(T)
  BY DEF Visible
<1> QED BY <1>1, PlaceOf DEF Ties

(* Rows other than the changed one are in the list as before, and the list  *)
(* of resolved ids has no new row.                                          *)
LEMMA OthersShown ==
    ASSUME TableOK, walk \in Walks, NEW i \in Ids, RowChanged(i), walk'.ids = walk.ids
    PROVE  /\ Shown' = Visible(table', attr' \cup Resolved)
           /\ \A k : k # i => /\ k \in Shown' <=> k \in Shown
                              /\ k \in Listed' <=> k \in Listed
                              /\ k \in Visible(table', attr') <=> k \in Visible(table, attr)
           /\ i \in Listed => i \in Shown
           /\ i \in Listed /\ i \in Shown' => i \in Listed'
           /\ query.where = "ids" => (i \in Listed' => i \in Listed)
           /\ query.where # "ids" => Listed = Visible(table, attr)
                                     /\ Listed' = Visible(table', attr')
                                     /\ Shown = Listed /\ Shown' = Listed'
           /\ Listed' \in SUBSET Rows(table') /\ Shown' \in SUBSET Rows(table')
           /\ Shown \in SUBSET Rows(table) /\ Listed \in SUBSET Rows(table)
           /\ Visible(table, attr) \subseteq Shown
<1>1. query' = query /\ Resolved' = Resolved
  BY DEF RowChanged, Resolved
<1>2. Shown' = Visible(table', attr' \cup Resolved)
  BY <1>1 DEF Shown, Visible
<1>3. ASSUME NEW k, k # i
      PROVE  /\ k \in Shown' <=> k \in Shown
             /\ k \in Listed' <=> k \in Listed
             /\ k \in Visible(table', attr') <=> k \in Visible(table, attr)
  BY <1>1, <1>2, <1>3 DEF RowChanged, Shown, Listed, Visible
<1>4. CASE query.where = "ids"
  BY <1>1, <1>2, <1>3, <1>4 DEF RowChanged, Shown, Listed, Visible, Resolved
<1>5. CASE query.where # "ids"
  <2>1. Resolved = {} /\ attr \cup Resolved = attr /\ attr' \cup Resolved = attr'
    BY <1>5 DEF Resolved
  <2> QED BY <1>1, <1>2, <1>3, <1>5, <2>1 DEF Shown, Listed, Visible
<1> QED BY <1>2, <1>3, <1>4, <1>5

LEMMA Belows ==
    ASSUME NEW T, NEW A, NEW i, NEW x
    PROVE  x \in Below(T, A, i) <=> /\ i \in Visible(T, A) /\ x \in Visible(T, A)
                                    /\ Place(T, i) < Place(T, x)
BY DEF Below

LEMMA RowsAreFinite ==
    ASSUME NEW T, IsFiniteSet(Rows(T)), NEW S \in SUBSET Rows(T), NEW U \in SUBSET S
    PROVE  /\ IsFiniteSet(S) /\ Cardinality(S) \in Nat /\ IsFiniteSet(U)
           /\ Cardinality(U) \in Nat /\ Cardinality(U) <= Cardinality(S)
BY FS_Subset, FS_CardinalityType

(* The change of a row leaves nothing out of account.                       *)
LEMMA RowKeepsOrderFacts ==
    ASSUME WalkInv, walk.pc # "idle", query.sort # "none", NEW i \in Ids, RowChanged(i)
    PROVE  Certain' /\ StillAhead' /\ LeftBehind'
<1> USE DEF WalkInv, TableOK
<1>1. /\ walk' \in Walks
      /\ walk'.pc = walk.pc /\ walk'.page = walk.page /\ walk'.limit = walk.limit
      /\ walk'.ids = walk.ids /\ walk'.seen = walk.seen
  BY Watched
<1>2. /\ \A x \in walk'.due :
           /\ x \in walk.due /\ x \notin Ties(table', attr' \cup Resolved, i)
           /\ x \in Below(table, attr \cup Resolved, i)
                 => x \in Below(table', attr' \cup Resolved, i)
      /\ \A x \in walk'.calm :
           /\ x \in walk.calm /\ x \notin Ties(table', attr' \cup Resolved, i)
           /\ x \in Below(table', attr' \cup Resolved, i)
                 => x \in Below(table, attr \cup Resolved, i)
  BY Watched
<1>3. /\ Shown' = Visible(table', attr' \cup Resolved)
      /\ \A k : k # i => /\ k \in Shown' <=> k \in Shown
                         /\ k \in Listed' <=> k \in Listed
                         /\ k \in Visible(table', attr') <=> k \in Visible(table, attr)
      /\ i \in Listed => i \in Shown
      /\ i \in Listed /\ i \in Shown' => i \in Listed'
      /\ Listed' \in SUBSET Rows(table') /\ Shown' \in SUBSET Rows(table')
      /\ Shown \in SUBSET Rows(table) /\ Listed \in SUBSET Rows(table)
      /\ Visible(table, attr) \subseteq Shown
  BY <1>1, OthersShown
<1>4. /\ query' = query /\ table' \in Lined /\ Apart(table') /\ IsFiniteSet(Rows(table'))
      /\ OrderKept(table, table', i)
  BY DEF RowChanged
<1>5. Shown = Visible(table, attr \cup Resolved)
  BY DEF Shown
<1>6. ASSUME NEW x \in walk'.due \cup walk'.calm
      PROVE  /\ x # i /\ x \in Visible(table, attr) /\ x \in Visible(table', attr')
             /\ x \in Shown /\ x \in Shown'
             /\ i \in Shown' => Place(table', i) # Place(table', x)
             /\ \A k \in Shown : k # x => Place(table, k) # Place(table, x)
  <2>1. x \notin Ties(table', attr' \cup Resolved, i) /\ x \in walk.due \cup walk.calm
    BY <1>2
  <2>2. x # i
    BY <2>1 DEF Ties
  <2>3. x \in Visible(table, attr) /\ \A k \in Shown : k # x => Place(table, k) # Place(table, x)
    BY <2>1 DEF Certain
  <2>4. x \in Shown /\ x \in Shown' /\ x \in Visible(table', attr')
    BY <1>3, <2>2, <2>3
  <2>5. i \in Shown' => Place(table', i) # Place(table', x)
    BY <1>3, <1>4, <2>1, <2>4, TiesAreLevel
  <2> QED BY <2>2, <2>3, <2>4, <2>5
<1>7. \A k, l \in Rows(table) \ {i} : Place(table', k) < Place(table', l) <=> Place(table, k) < Place(table, l)
  BY <1>4 DEF OrderKept
<1>8. /\ \A k \in Rows(table) : Place(table, k) \in Int
      /\ \A k \in Rows(table') : Place(table', k) \in Int
  BY <1>4, PlaceOf, LinedTables
<1>9. Certain'
  <2>1. ASSUME NEW x \in walk'.due \cup walk'.calm, NEW k \in Shown', k # x
        PROVE  Place(table', k) # Place(table', x)
    <3>1. CASE k = i
      BY <1>6, <3>1
    <3>2. CASE k # i
      <4>1. k \in Shown /\ x \in Shown /\ k \in Rows(table) \ {i} /\ x \in Rows(table) \ {i}
        BY <1>3, <1>6, <3>2
      <4>2. Place(table, k) # Place(table, x)
        BY <1>6, <2>1, <4>1
      <4>3. Place(table, k) < Place(table, x) \/ Place(table, x) < Place(table, k)
        BY <1>8, <4>1, <4>2
      <4>4. k \in Rows(table') /\ x \in Rows(table')
        BY <1>3, <1>6
      <4> QED BY <1>7, <1>8, <4>1, <4>3, <4>4
    <3> QED BY <3>1, <3>2
  <2>2. walk'.due \subseteq walk.due
    BY <1>2
  <2>3. query'.where = "ids" /\ walk'.pc \in {"count", "find"} => walk'.due \subseteq walk'.ids
    BY <1>1, <1>4, <2>2 DEF Certain
  <2>4. ~(query'.sort = "none" \/ walk'.pc = "idle")
    BY <1>1, <1>4
  <2>5. \A x \in walk'.due \cup walk'.calm :
          /\ x \in Visible(table', attr')
          /\ \A k \in Shown' : k # x => Place(table', k) # Place(table', x)
    BY <1>6, <2>1
  <2>6. \A x \in walk'.due \cup walk'.calm : x \in Visible(table, attr)'
    BY <1>4, <2>5 DEF Visible
  <2> QED BY <2>3, <2>4, <2>5, <2>6 DEF Certain
<1>10. StillAhead'
  <2> SUFFICES ASSUME walk.pc \in Paging, NEW x \in walk'.due \ walk.seen
               PROVE  Cardinality(Above(Listed, x)') >= Passed
    BY <1>1 DEF StillAhead, Passed
  <2>1. x \in walk.due \ walk.seen /\ x # i /\ x \in Shown /\ x \in Shown'
    BY <1>2, <1>6
  <2>2. Cardinality(Above(Listed, x)) >= Passed
    BY <2>1 DEF StillAhead
  <2>3. ASSUME NEW k \in Above(Listed, x) PROVE k \in Above(Listed, x)'
    <3>1. k \in Listed /\ Place(table, k) < Place(table, x)
      BY DEF Above
    <3>2. CASE k = i
      <4>1. i \in Shown /\ x \in Below(table, attr \cup Resolved, i)
        BY <1>3, <1>5, <2>1, <3>1, <3>2, Belows
      <4>2. x \in Below(table', attr' \cup Resolved, i)
        BY <1>2, <4>1
      <4>3. i \in Shown' /\ Place(table', i) < Place(table', x)
        BY <1>3, <4>2, Belows
      <4> QED BY <1>3, <3>1, <3>2, <4>3 DEF Above
    <3>3. CASE k # i
      <4>1. k \in Listed' /\ k \in Rows(table) \ {i} /\ x \in Rows(table) \ {i}
        BY <1>3, <2>1, <3>1, <3>3
      <4> QED BY <1>7, <3>1, <4>1 DEF Above
    <3> QED BY <3>2, <3>3
  <2>4. Above(Listed, x)' \in SUBSET Listed' /\ Above(Listed, x) \in SUBSET Above(Listed, x)'
    BY <2>3 DEF Above
  <2>5. Above(Listed, x)' \in SUBSET Rows(table')
    BY <1>3, <2>4
  <2>6. /\ Cardinality(Above(Listed, x)') \in Nat /\ Cardinality(Above(Listed, x)) \in Nat
        /\ Cardinality(Above(Listed, x)) <= Cardinality(Above(Listed, x)')
    BY <1>4, <2>4, <2>5, RowsAreFinite
  <2>7. Passed \in Int
    BY DEF Passed, Walks, Limits
  <2> QED BY <2>2, <2>6, <2>7
<1>11. ASSUME NEW x \in walk'.calm PROVE Above(Shown, x)' \subseteq Above(Shown, x)
  <2> SUFFICES ASSUME NEW k \in Above(Shown, x)' PROVE k \in Above(Shown, x)
    OBVIOUS
  <2>1. k \in Shown' /\ Place(table', k) < Place(table', x) /\ x # i /\ x \in Shown /\ x \in Shown'
    BY <1>6 DEF Above
  <2>2. CASE k = i
    <3>1. x \in Below(table', attr' \cup Resolved, i)
      BY <1>3, <2>1, <2>2, Belows
    <3>2. x \in Below(table, attr \cup Resolved, i)
      BY <1>2, <3>1
    <3> QED BY <1>5, <2>2, <3>2, Belows DEF Above
  <2>3. CASE k # i
    <3>1. k \in Shown /\ k \in Rows(table) \ {i} /\ x \in Rows(table) \ {i}
      BY <1>3, <2>1, <2>3
    <3> QED BY <1>7, <2>1, <3>1 DEF Above
  <2> QED BY <2>2, <2>3
<1>12. LeftBehind'
  <2>1. ASSUME walk.pc \in Paging, NEW x \in walk'.calm \cap walk.seen
        PROVE  Cardinality(Above(Shown, x)') < Passed
    <3>1. x \in walk.calm \cap walk.seen
      BY <1>2, <2>1
    <3>2. Cardinality(Above(Shown, x)) < Passed
      BY <2>1, <3>1 DEF LeftBehind
    <3>3. Above(Shown, x) \in SUBSET Rows(table) /\ Above(Shown, x)' \in SUBSET Above(Shown, x)
      BY <1>3, <1>11 DEF Above
    <3>4. /\ Cardinality(Above(Shown, x)) \in Nat /\ Cardinality(Above(Shown, x)') \in Nat
          /\ Cardinality(Above(Shown, x)') <= Cardinality(Above(Shown, x))
      BY <3>3, RowsAreFinite
    <3>5. Passed \in Int
      BY DEF Passed, Walks, Limits
    <3> QED BY <3>2, <3>4, <3>5
  <2>2. ASSUME walk.pc \in {"count", "find"}, NEW x \in walk'.calm, NEW k \in Above(Shown, x)'
        PROVE  k \in Listed'
    <3>1. k \in Above(Shown, x) /\ x \in walk.calm /\ k \in Shown'
      BY <1>2, <1>11, <2>2 DEF Above
    <3>2. k \in Listed
      BY <2>2, <3>1 DEF LeftBehind
    <3> QED BY <1>3, <3>1, <3>2
  <2> QED BY <1>1, <2>1, <2>2 DEF LeftBehind, Passed
<1> QED BY <1>9, <1>10, <1>12

LEMMA RowKeepsWalk ==
    ASSUME WalkInv, NEW i \in Ids, RowChanged(i)
    PROVE  WalkInv'
<1> USE DEF WalkInv
<1>1. TableOK'
  BY DEF RowChanged, TableOK
<1>2. query' = query
  BY DEF RowChanged
<1>3. CASE walk.pc = "idle"
  <2>1. walk' = walk
    BY <1>3 DEF RowChanged, Watch
  <2>2. walk.due = {} /\ walk.calm = {}
    BY <1>3 DEF Certain
  <2>3. Certain' /\ StillAhead' /\ LeftBehind' /\ Counted'
    BY <1>2, <1>3, <2>1, <2>2 DEF Certain, StillAhead, LeftBehind, Counted, Paging
  <2>4. NothingMissed' /\ NothingTwice' /\ PageAsAnnounced' /\ Phases'
    BY <1>2, <1>3, <2>1, <2>2 DEF NothingMissed, NothingTwice, PageAsAnnounced, Phases
  <2> QED BY <1>1, <2>1, <2>3, <2>4
<1>4. CASE walk.pc # "idle"
  <2>1. /\ walk' \in Walks
        /\ walk'.pc = walk.pc /\ walk'.page = walk.page /\ walk'.limit = walk.limit
        /\ walk'.total = walk.total /\ walk'.ids = walk.ids
        /\ walk'.matching = walk.matching /\ walk'.got = walk.got
        /\ walk'.seen = walk.seen /\ walk'.twice = walk.twice
        /\ walk'.misled = walk.misled
        /\ walk.grown => walk'.grown
        /\ walk.pc # "find" => walk'.grown = walk.grown
        /\ ~walk'.grown /\ walk.pc = "find" =>
              (i \in Visible(table', attr') => i \in Visible(table, attr))
    BY <1>4, Watched
  <2>2. \A x \in walk'.due : x \in walk.due
    BY <1>4, Watched
  <2>3. \A x \in walk'.calm : x \in walk.calm
    BY <1>4, Watched
  <2>4. Phases' /\ NothingMissed' /\ NothingTwice'
    BY <1>2, <2>1, <2>2, <2>3 DEF Phases, NothingMissed, NothingTwice, InSQL
  <2>5. PageAsAnnounced'
    BY <1>2, <2>1 DEF PageAsAnnounced, Announced, InSQL
  <2>6. Counted'
    <3> SUFFICES ASSUME walk.pc = "find", ~walk'.grown, ~walk.misled
                 PROVE  Cardinality(Listed') <= walk.total
      BY <2>1 DEF Counted
    <3>1. Cardinality(Listed) <= walk.total
      BY <2>1 DEF Counted
    <3>2. /\ \A k : k # i => (k \in Listed' <=> k \in Listed)
          /\ query.where = "ids" => (i \in Listed' => i \in Listed)
          /\ query.where # "ids" => Listed = Visible(table, attr)
                                    /\ Listed' = Visible(table', attr')
          /\ Listed \in SUBSET Rows(table)
      BY <2>1, OthersShown
    <3>3. Listed' \in SUBSET Listed
      BY <2>1, <3>2
    <3>4. /\ Cardinality(Listed) \in Nat /\ Cardinality(Listed') \in Nat
          /\ Cardinality(Listed') <= Cardinality(Listed)
      BY <3>2, <3>3, RowsAreFinite DEF TableOK
    <3> QED BY <3>1, <3>4 DEF Walks
  <2>7. Certain' /\ StillAhead' /\ LeftBehind'
    <3>1. CASE query.sort = "none"
      <4>1. walk.due = {} /\ walk.calm = {}
        BY <3>1 DEF Certain
      <4>2. walk'.due = {} /\ walk'.calm = {}
        BY <2>2, <2>3, <4>1
      <4> QED BY <4>2 DEF Certain, StillAhead, LeftBehind
    <3> QED BY <1>4, <3>1, RowKeepsOrderFacts
  <2> QED BY <1>1, <2>1, <2>4, <2>5, <2>6, <2>7
<1> QED BY <1>3, <1>4

-----------------------------------------------------------------------------
(* Pages *)

LEMMA MinOfTwo ==
    ASSUME NEW a \in Int, NEW b \in Int
    PROVE  /\ Min({a, b}) = IF a <= b THEN a ELSE b
           /\ Max({a, b}) = IF a >= b THEN a ELSE b
<1>1. \E x \in {a, b} : \A y \in {a, b} : x <= y
  OBVIOUS
<1>2. Min({a, b}) \in {a, b} /\ \A y \in {a, b} : Min({a, b}) <= y
  BY <1>1 DEF Min
<1>3. \E x \in {a, b} : \A y \in {a, b} : x >= y
  OBVIOUS
<1>4. Max({a, b}) \in {a, b} /\ \A y \in {a, b} : Max({a, b}) >= y
  BY <1>3 DEF Max
<1> QED BY <1>2, <1>4

LEMMA LimitsExist ==
    /\ DefaultLimit \in Limits /\ MaxLimit \in Limits /\ MaxPreview \in Limits
    /\ Limits \subseteq Nat \ {0}
    /\ \A n \in Nat \ {0} : n <= MaxLimit => n \in Limits
<1> DEFINE S == {DefaultLimit, MaxLimit, MaxPreview}
<1>1. \E x \in S : \A y \in S : x >= y
  BY LimitsAssumption
<1>2. Max(S) \in S /\ \A y \in S : Max(S) >= y
  BY <1>1 DEF Max
<1>3. Max(S) \in Nat
  BY <1>2, LimitsAssumption
<1> QED BY <1>2, <1>3, LimitsAssumption DEF Limits

LEMMA NormalLimits ==
    ASSUME NEW n \in Int PROVE NormalLimit(n) \in Limits
BY LimitsExist, LimitsAssumption DEF NormalLimit

LEMMA PageEnds ==
    ASSUME NEW p \in Nat, p >= 1, NEW l \in Nat
    PROVE  (p - 1) * l \in Nat /\ p * l \in Nat /\ p * l = (p - 1) * l + l
<1>1. (p - 1) * l \in Nat /\ p * l \in Nat
  OBVIOUS
<1>2. p * l = (p - 1) * l + l
  OBVIOUS
<1> QED BY <1>1, <1>2

(* The last page the total promises is the last of the list.                *)
LEMMA LastPage ==
    ASSUME NEW t \in Nat, NEW l \in Nat \ {0}, NEW p \in Nat, ~(p < TotalPages(t, l))
    PROVE  t <= p * l
<1> DEFINE q == (t + l - 1) \div l
<1>1. q \in Int /\ t + l - 1 < (q + 1) * l
  OBVIOUS
<1>2. q <= p
  BY <1>1 DEF TotalPages
<1> HIDE DEF q
<1>3. (q + 1) * l <= (p + 1) * l
  <2> DEFINE d == p - q
  <2>1. d \in Nat /\ p = q + d
    BY <1>1, <1>2
  <2> HIDE DEF d
  <2>2. d * l \in Nat /\ (q + 1) * l \in Int
    BY <1>1, <2>1
  <2>3. ((q + 1) + d) * l = (q + 1) * l + d * l
    BY <1>1, <2>1
  <2> QED BY <1>1, <2>1, <2>2, <2>3
<1>4. (p + 1) * l = p * l + l
  OBVIOUS
<1> QED BY <1>1, <1>3, <1>4

LEMMA SliceSize ==
    ASSUME NEW n \in Nat, NEW p \in Nat, p >= 1, NEW l \in Nat \ {0}
    PROVE  /\ IsFiniteSet(Slice(n, p, l)) /\ Slice(n, p, l) \subseteq 1..n
           /\ Cardinality(Slice(n, p, l)) = Min({l, Max({n - (p - 1) * l, 0})})
<1> DEFINE b == (p - 1) * l
           e == p * l
<1>1. b \in Nat /\ e \in Nat /\ e = b + l
  BY PageEnds
<1>2. Slice(n, p, l) = (b + 1)..(IF e < n THEN e ELSE n)
  BY DEF Slice
<1> HIDE DEF b, e
<1>3. /\ IsFiniteSet(Slice(n, p, l))
      /\ Cardinality(Slice(n, p, l)) = IF b + 1 > (IF e < n THEN e ELSE n) THEN 0
                                       ELSE (IF e < n THEN e ELSE n) - (b + 1) + 1
  BY <1>1, <1>2, FS_Interval
<1> DEFINE rest == n - b
           most == Max({rest, 0})
<1>4. rest \in Int
  BY <1>1
<1>5. most = IF rest >= 0 THEN rest ELSE 0
  <2> HIDE DEF rest
  <2> QED BY <1>4, MinOfTwo
<1>8. most \in Int
  BY <1>4, <1>5
<1>9. Min({l, most}) = IF l <= most THEN l ELSE most
  <2> HIDE DEF most
  <2> QED BY <1>8, MinOfTwo
<1>6. Cardinality(Slice(n, p, l)) = Min({l, most})
  <2> HIDE DEF most
  <2> QED BY <1>1, <1>3, <1>5, <1>9
<1>7. Slice(n, p, l) \subseteq 1..n
  BY <1>1, <1>2
<1> QED BY <1>3, <1>6, <1>7 DEF b

(* A page of fewer rows is no larger.                                       *)
LEMMA SliceGrows ==
    ASSUME NEW n \in Nat, NEW m \in Nat, n <= m, NEW p \in Nat, p >= 1, NEW l \in Nat \ {0}
    PROVE  Cardinality(Slice(n, p, l)) <= Cardinality(Slice(m, p, l))
<1>1. Slice(n, p, l) \in SUBSET Slice(m, p, l)
  <2>1. (p - 1) * l \in Nat /\ p * l \in Nat
    BY PageEnds
  <2> QED BY <2>1 DEF Slice
<1> QED BY <1>1, SliceSize, FS_Subset

(* Where an ordered query has a row that no other ties with.                *)
LEMMA OrderedAt ==
    ASSUME TableOK, NEW S \in SUBSET Rows(table), NEW rows \in Orders(S), NEW i \in S,
           \A k \in S : k # i => Place(table, k) # Place(table, i)
    PROVE  /\ Cardinality(S) \in Nat /\ DOMAIN rows = 1..Cardinality(S)
           /\ \E p \in 1..Cardinality(S) :
                rows[p] = i /\ Cardinality(Above(S, i)) = p - 1
<1> DEFINE n == Cardinality(S)
<1>1. IsFiniteSet(S) /\ n \in Nat
  BY RowsAreFinite DEF TableOK
<1>2. /\ rows \in [1..n -> S]
      /\ \A j, k \in 1..n : j < k => /\ rows[j] # rows[k]
                                     /\ Place(table, rows[j]) <= Place(table, rows[k])
  BY DEF Orders
<1>3. \A j, k \in 1..n : rows[j] = rows[k] => j = k
  BY <1>1, <1>2
<1>4. rows \in Injection(1..n, S)
  BY <1>2, <1>3, Fun_IsInj
<1>5. IsFiniteSet(1..n) /\ Cardinality(1..n) = n
  BY <1>1, FS_Interval
<1>6. rows \in Surjection(1..n, S)
  BY <1>1, <1>4, <1>5, FS_Injection
<1>7. \A x \in S : \E k \in 1..n : rows[k] = x
  BY <1>6 DEF Surjection
<1>8. PICK p \in 1..n : rows[p] = i
  BY <1>7
<1>9. \A x \in S : Place(table, x) \in Int
  BY PlaceOf, LinedTables DEF TableOK
<1> HIDE DEF n
<1>10. ASSUME NEW k \in 1..n PROVE rows[k] \in Above(S, i) <=> k < p
  <2>1. rows[k] \in S
    BY <1>2
  <2>2. CASE k < p
    <3>1. rows[k] # i /\ Place(table, rows[k]) <= Place(table, i)
      BY <1>2, <1>8, <2>2
    <3>2. Place(table, rows[k]) # Place(table, i)
      BY <2>1, <3>1
    <3> QED BY <1>9, <2>1, <2>2, <3>1, <3>2 DEF Above
  <2>3. CASE k = p
    BY <1>8, <1>9, <2>3 DEF Above
  <2>4. CASE p < k
    <3>1. Place(table, i) <= Place(table, rows[k])
      BY <1>2, <1>8, <2>4
    <3> QED BY <1>1, <1>9, <2>1, <2>4, <3>1 DEF Above
  <2> QED BY <1>1, <2>2, <2>3, <2>4
<1>11. Cardinality(Above(S, i)) = p - 1
  <2> DEFINE f == [k \in 1..(p - 1) |-> rows[k]]
  <2>0. \A k \in 1..(p - 1) : k \in 1..n /\ k < p
    BY <1>1
  <2>1. f \in [1..(p - 1) -> Above(S, i)] /\ \A k \in 1..(p - 1) : f[k] = rows[k]
    BY <1>10, <2>0
  <2> HIDE DEF f
  <2>2. \A j, k \in 1..(p - 1) : f[j] = f[k] => j = k
    BY <1>3, <2>0, <2>1
  <2>3. ASSUME NEW x \in Above(S, i) PROVE \E k \in 1..(p - 1) : f[k] = x
    <3>1. PICK k \in 1..n : rows[k] = x
      BY <1>7 DEF Above
    <3>2. k \in 1..(p - 1)
      BY <1>1, <1>10, <3>1
    <3> QED BY <2>1, <3>1, <3>2
  <2>4. f \in Bijection(1..(p - 1), Above(S, i))
    BY <2>1, <2>2, <2>3, Fun_IsBij
  <2>5. ExistsBijection(1..(p - 1), Above(S, i)) /\ p - 1 \in Nat
    BY <1>1, <2>4 DEF ExistsBijection
  <2> QED BY <2>5, FS_CountingElements
<1>12. DOMAIN rows = 1..n
  BY <1>2
<1> QED BY <1>1, <1>8, <1>11, <1>12 DEF n

-----------------------------------------------------------------------------
(* The steps of a walk *)

LEMMA MemoryUnsorted ==
    ASSUME query \in Queries, ~InSQL PROVE query.sort = "none"
<1>1. PICK l \in Lists : query \in [table : {l.table}, sort : l.sorts,
                                    where : l.wheres, how : {l.how}]
  BY DEF Queries
<1>2. query.sort \in l.sorts /\ query.how = l.how
  BY <1>1
<1>3. l.how # "sql"
  BY <1>2 DEF InSQL
<1>4. l \in {NodeSearch, SourceSearch, previewNodes, previewSources}
  BY <1>3 DEF Lists, FetchList, CheckList, GetInitialChecks, GetDeepChecks,
              SponsorList, SourceList, NodeList, SourceGetNodes
<1>5. l.sorts = {"none"}
  BY <1>4 DEF NodeSearch, SourceSearch, previewNodes, previewSources
<1> QED BY <1>2, <1>5

(* A walk that watches no row.                                              *)
LEMMA NothingWatched ==
    ASSUME walk'.due = {}, walk'.calm = {}
    PROVE  Certain' /\ StillAhead' /\ LeftBehind' /\ NothingMissed' /\ NothingTwice'
BY DEF Certain, StillAhead, LeftBehind, NothingMissed, NothingTwice

LEMMA QuietTable ==
    ASSUME TableOK, UNCHANGED <<query, table, attr>>
    PROVE  TableOK'
BY DEF TableOK

LEMMA Responded ==
    ASSUME walk \in Walks, NEW S \in SUBSET Ids, NEW total \in Nat, Respond(S, total)
    PROVE  /\ walk' \in Walks
           /\ walk'.pc = IF walk.page < TotalPages(total, walk.limit) /\ query.how # "preview"
                         THEN "more" ELSE "done"
           /\ walk'.page = walk.page /\ walk'.limit = walk.limit
           /\ walk'.total = total /\ walk'.ids = walk.ids
           /\ walk'.matching = walk.matching /\ walk'.got = S
           /\ walk'.seen = walk.seen \cup S
           /\ walk'.twice = walk.twice \cup (S \cap walk.seen)
           /\ walk'.due = walk.due /\ walk'.calm = walk.calm /\ walk'.grown = walk.grown
           /\ walk'.misled = walk.misled
<1> DEFINE label == IF walk.page < TotalPages(total, walk.limit) /\ query.how # "preview"
                    THEN "more" ELSE "done"
           twice == walk.twice \cup (S \cap walk.seen)
           seen == walk.seen \cup S
<1>1. walk' = [walk EXCEPT !.total = total, !.got = S, !.twice = twice, !.seen = seen, !.pc = label]
  BY DEF Respond
<1>2. label \in {"more", "done"} /\ twice \in SUBSET Ids /\ seen \in SUBSET Ids
  BY DEF Walks
<1> HIDE DEF label, twice, seen
<1>3. /\ walk' \in Walks
      /\ walk'.pc = label /\ walk'.page = walk.page /\ walk'.limit = walk.limit
      /\ walk'.total = total /\ walk'.ids = walk.ids
      /\ walk'.matching = walk.matching /\ walk'.got = S
      /\ walk'.seen = seen /\ walk'.twice = twice
      /\ walk'.due = walk.due /\ walk'.calm = walk.calm /\ walk'.grown = walk.grown
      /\ walk'.misled = walk.misled
  BY <1>1, <1>2 DEF Walks
<1> QED BY <1>3 DEF label, twice, seen

LEMMA AnnouncedIs ==
    ASSUME walk \in Walks, walk.page >= 1
    PROVE  /\ Announced = Cardinality(Slice(walk.total, walk.page, walk.limit))
           /\ IsFiniteSet(Slice(walk.total, walk.page, walk.limit)) /\ Announced \in Nat
<1>1. walk.total \in Nat /\ walk.page \in Nat /\ walk.limit \in Nat \ {0}
  BY LimitsExist DEF Walks
<1>2. /\ IsFiniteSet(Slice(walk.total, walk.page, walk.limit))
      /\ Cardinality(Slice(walk.total, walk.page, walk.limit))
           = Min({walk.limit, Max({walk.total - (walk.page - 1) * walk.limit, 0})})
  BY <1>1, SliceSize
<1> QED BY <1>2, FS_CardinalityType DEF Announced

LEMMA ShownListed ==
    ASSUME TableOK, walk \in Walks
    PROVE  /\ Shown \in SUBSET Rows(table) /\ Listed \in SUBSET Shown
           /\ Visible(table, attr) \in SUBSET Shown
           /\ query.where # "ids" => Shown = Listed /\ Visible(table, attr) = Listed
           /\ query.where = "ids" => /\ Visible(table, attr) = Rows(table) \cap attr
                                     /\ Listed = Rows(table) \cap walk.ids
                                     /\ Shown = Rows(table) \cap (attr \cup walk.ids)
<1>1. CASE query.where = "ids"
  BY <1>1 DEF Shown, Listed, Visible, Resolved
<1>2. CASE query.where # "ids"
  <2>1. Resolved = {} /\ attr \cup Resolved = attr
    BY <1>2 DEF Resolved
  <2> QED BY <1>2, <2>1 DEF Shown, Listed, Visible
<1> QED BY <1>1, <1>2

LEMMA AboveSize ==
    ASSUME TableOK, NEW S \in SUBSET Rows(table), NEW i, NEW U \in SUBSET S
    PROVE  /\ Cardinality(Above(S, i)) \in Nat /\ Cardinality(Above(U, i)) \in Nat
           /\ Cardinality(Above(U, i)) <= Cardinality(Above(S, i))
<1>1. Above(S, i) \in SUBSET Rows(table) /\ Above(U, i) \in SUBSET Above(S, i)
  BY DEF Above
<1> QED BY <1>1, RowsAreFinite DEF TableOK

LEMMA PassedNat == ASSUME walk \in Walks, walk.page >= 1 PROVE Passed \in Nat
<1>1. walk.page \in Nat /\ walk.limit \in Nat
  BY LimitsExist DEF Walks
<1> QED BY <1>1, PageEnds DEF Passed

LEMMA StartKeepsWalk == ASSUME WalkInv, Start PROVE WalkInv'
<1> USE DEF WalkInv
<1>0. walk.pc = "idle" /\ UNCHANGED <<query, table, attr>>
  BY DEF Start, Quiet, data
<1>1. PICK limit \in Requested :
         walk' = [NoWalk EXCEPT
             !.pc = First,
             !.page = NormalPage(0),
             !.limit = IF query.how = "preview" THEN MaxPreview ELSE NormalLimit(limit),
             !.due = Steady(table, attr), !.calm = Steady(table, attr)]
  BY DEF Start
<1> DEFINE l == IF query.how = "preview" THEN MaxPreview ELSE NormalLimit(limit)
           D == Steady(table, attr)
<1>2. l \in Limits /\ NormalPage(0) = 1
  BY LimitsExist, NormalLimits, LimitsAssumption DEF NormalPage
<1>3. D \in SUBSET Ids /\ D \subseteq Visible(table, attr)
  <2>1. Rows(table) \subseteq Ids
    BY LinedTables, RowsAreIds DEF TableOK
  <2> QED BY <2>1 DEF Steady, Visible
<1>4. First \in {"load", "ids", "count"}
  BY DEF First
<1> HIDE DEF l, D
<1>5. /\ walk' \in Walks /\ walk'.pc = First /\ walk'.page = 1 /\ walk'.limit = l
      /\ walk'.total = 0 /\ walk'.ids = {} /\ walk'.matching = {} /\ walk'.got = {}
      /\ walk'.seen = {} /\ walk'.twice = {} /\ walk'.due = D /\ walk'.calm = D
      /\ walk'.grown = FALSE
  <2>1. walk' = [NoWalk EXCEPT !.pc = First, !.page = 1, !.limit = l, !.due = D, !.calm = D]
    BY <1>1, <1>2 DEF l, D
  <2>2. walk' = [pc |-> First, page |-> 1, limit |-> l, total |-> 0,
                 ids |-> {}, matching |-> {}, got |-> {}, seen |-> {}, twice |-> {},
                 due |-> D, calm |-> D, grown |-> FALSE, misled |-> FALSE]
    BY <2>1 DEF NoWalk
  <2> QED BY <1>2, <1>3, <1>4, <2>2 DEF Walks
<1>6. Phases' /\ Counted' /\ NothingMissed' /\ NothingTwice' /\ PageAsAnnounced'
  BY <1>0, <1>4, <1>5 DEF First, InSQL, Phases, Counted, NothingMissed, NothingTwice, PageAsAnnounced
<1>7. TableOK' /\ IsFiniteSet(walk'.matching)
  BY <1>0, <1>5, QuietTable, FS_EmptySet
<1>8. /\ Shown' \in SUBSET Rows(table) /\ Listed' \in SUBSET Shown'
      /\ query.where # "ids" => Shown' = Listed'
      /\ Shown' = Visible(table, attr)
  <2>1. Shown' = Visible(table, attr)
    <3>1. Resolved' = {}
      BY <1>5 DEF Resolved
    <3> QED BY <1>0, <3>1 DEF Shown, Visible
  <2>2. /\ Listed' \in SUBSET Shown' /\ (query'.where # "ids" => Shown' = Listed')
        /\ Shown' \in SUBSET Rows(table')
    <3>1. CASE query.where = "ids"
      BY <1>0, <1>5, <2>1, <3>1 DEF Listed, Visible
    <3>2. CASE query.where # "ids"
      BY <1>0, <2>1, <3>2 DEF Listed, Visible
    <3> QED BY <3>1, <3>2
  <2> QED BY <1>0, <2>1, <2>2
<1>9. Certain'
  <2>1. ASSUME NEW i \in D, NEW k \in Visible(table, attr), k # i
        PROVE  Place(table, k) # Place(table, i)
    <3>1. i \in Visible(table, attr) /\ Ties(table, attr, i) = {i}
      BY DEF Steady, D
    <3> QED BY <2>1, <3>1, TiesAreLevel DEF TableOK
  <2>2. query.sort = "none" => D = {}
    BY DEF Steady, D
  <2>3. walk'.pc # "idle" /\ ~(query'.where = "ids" /\ walk'.pc \in {"count", "find"})
    BY <1>0, <1>5 DEF First
  <2>4. \A i \in walk'.due \cup walk'.calm :
          /\ i \in Visible(table, attr)'
          /\ \A k \in Shown' : k # i => Place(table', k) # Place(table', i)
    BY <1>0, <1>3, <1>5, <1>8, <2>1 DEF Visible
  <2> QED BY <1>0, <1>5, <2>2, <2>3, <2>4 DEF Certain
<1>10. StillAhead'
  <2>1. Passed' = 0
    <3>1. walk'.page = 1 /\ walk'.pc # "more" /\ walk'.limit \in Nat
      BY <1>2, <1>4, <1>5, LimitsExist
    <3> QED BY <3>1 DEF Passed
  <2>2. ASSUME NEW i PROVE Cardinality(Above(Listed, i)') \in Nat
    <3>1. Above(Listed, i)' \in SUBSET Rows(table)
      BY <1>8 DEF Above
    <3> QED BY <3>1, RowsAreFinite DEF TableOK
  <2> QED BY <2>1, <2>2 DEF StillAhead
<1>11. LeftBehind'
  <2>1. walk'.pc \in {"count", "find"} => query.where # "ids"
    BY <1>5 DEF First
  <2> QED BY <1>5, <1>8, <2>1 DEF LeftBehind, Above
<1> QED BY <1>5, <1>6, <1>7, <1>9, <1>10, <1>11

LEMMA MoreKeepsWalk == ASSUME WalkInv, More PROVE WalkInv'
<1> USE DEF WalkInv
<1>0. walk.pc = "more" /\ UNCHANGED <<query, table, attr>>
  BY DEF More, Quiet, data
<1>1. walk' = [walk EXCEPT !.pc = First, !.page = walk.page + 1, !.total = 0,
                           !.matching = {}, !.got = {}, !.grown = FALSE]
  BY DEF More
<1>2. First \in {"load", "ids", "count"}
  BY DEF First
<1> DEFINE n == walk.page + 1
<1>12. n \in Nat
  BY DEF Walks
<1> HIDE DEF n
<1>3. /\ walk' \in Walks /\ walk'.pc = First /\ walk'.page = n
      /\ walk'.limit = walk.limit /\ walk'.total = 0 /\ walk'.ids = walk.ids
      /\ walk'.matching = {} /\ walk'.got = {} /\ walk'.seen = walk.seen
      /\ walk'.twice = walk.twice /\ walk'.due = walk.due /\ walk'.calm = walk.calm
      /\ walk'.grown = FALSE
  <2>1. walk' = [walk EXCEPT !.pc = First, !.page = n, !.total = 0,
                             !.matching = {}, !.got = {}, !.grown = FALSE]
    BY <1>1 DEF n
  <2> QED BY <1>2, <1>12, <2>1 DEF Walks
<1>4. Phases' /\ Counted' /\ NothingMissed' /\ NothingTwice' /\ PageAsAnnounced'
  BY <1>0, <1>2, <1>3 DEF First, InSQL, Phases, Counted, NothingMissed, NothingTwice, PageAsAnnounced
<1>5. TableOK' /\ IsFiniteSet(walk'.matching) /\ walk'.page >= 1
  BY <1>0, <1>3, QuietTable, FS_EmptySet DEF Walks, n
<1>6. Passed' = Passed
  <2>1. n - 1 = walk.page
    BY DEF Walks, n
  <2> QED BY <1>0, <1>2, <1>3, <2>1 DEF Passed
<1>7. Shown' = Shown /\ Listed' = Listed /\ \A S, i : Above(S, i)' = Above(S', i)
  BY <1>0, <1>3 DEF Shown, Resolved, Listed, Visible, Above
<1>8. ~(query'.where = "ids" /\ walk'.pc \in {"count", "find"}) /\ walk'.pc # "idle"
  BY <1>0, <1>3 DEF First
<1>9. Certain'
  BY <1>0, <1>3, <1>7, <1>8 DEF Certain, Visible
<1>10. StillAhead'
  BY <1>0, <1>3, <1>6, <1>7 DEF StillAhead, Above, Paging
<1>11. LeftBehind'
  <2>1. walk'.pc \in {"count", "find"} => Shown = Listed
    BY <1>0, <1>8, ShownListed
  <2>2. \A i : Above(Shown, i) \subseteq Shown
    BY DEF Above
  <2> QED BY <1>0, <1>3, <1>6, <1>7, <2>1, <2>2 DEF LeftBehind, Above, Paging
<1> QED BY <1>3, <1>4, <1>5, <1>9, <1>10, <1>11

LEMMA ResolveKeepsWalk == ASSUME WalkInv, ResolveIds PROVE WalkInv'
<1> USE DEF WalkInv
<1>0. walk.pc = "ids" /\ InSQL /\ query.where = "ids" /\ UNCHANGED <<query, table, attr>>
  BY DEF ResolveIds, Quiet, data, Phases
<1> DEFINE found == Rows(table) \cap attr
           gone == (Rows(table) \cap walk.ids) \ found
           cut == UNION {Below(table, attr \cup walk.ids, i) : i \in gone}
           D == walk.due \ cut
<1>1. /\ Visible(table, attr) = found /\ Listed = Rows(table) \cap walk.ids
      /\ Shown = Visible(table, attr \cup walk.ids)
      /\ Shown = Rows(table) \cap (attr \cup walk.ids)
      /\ Resolved = walk.ids
  BY <1>0 DEF Listed, Shown, Visible, Resolved
<1>2. TableOK'
  BY <1>0, QuietTable
<1>3. CASE found = {} /\ Respond({}, 0)
  <2>1. Respond({}, 0)
    BY <1>3
  <2>2. /\ walk' \in Walks /\ walk'.pc \in {"more", "done"}
        /\ walk'.page = walk.page /\ walk'.total = 0 /\ walk'.got = {}
        /\ walk'.matching = walk.matching
        /\ walk'.due = walk.due /\ walk'.calm = walk.calm
    <3>1. {} \in SUBSET Ids /\ 0 \in Nat
      OBVIOUS
    <3> QED BY <2>1, <3>1, Responded
  <2>3. walk.due = {} /\ walk.calm = {}
    BY <1>1, <1>3 DEF Certain
  <2>4. PageAsAnnounced'
    <3>1. Announced' = Cardinality(Slice(walk'.total, walk'.page, walk'.limit))
          /\ Announced' \in Nat
      <4>1. walk'.total \in Nat /\ walk'.page \in Nat /\ walk'.page >= 1
            /\ walk'.limit \in Nat \ {0}
        BY <2>2, LimitsExist DEF Walks
      <4>2. /\ IsFiniteSet(Slice(walk'.total, walk'.page, walk'.limit))
            /\ Cardinality(Slice(walk'.total, walk'.page, walk'.limit))
                 = Min({walk'.limit, Max({walk'.total - (walk'.page - 1) * walk'.limit, 0})})
        BY <4>1, SliceSize
      <4> QED BY <4>2, FS_CardinalityType DEF Announced
    <3>2. Cardinality(walk'.got) = 0
      BY <2>2, FS_EmptySet
    <3> QED BY <1>0, <3>1, <3>2 DEF PageAsAnnounced, InSQL
  <2>5. Phases' /\ Counted'
    BY <2>2 DEF Phases, Counted
  <2> QED BY <1>2, <2>2, <2>3, <2>4, <2>5, NothingWatched
<1>4. CASE walk' = [walk EXCEPT !.ids = found, !.pc = "count", !.due = D]
  <2>1. walk' = [walk EXCEPT !.ids = found, !.pc = "count", !.due = D]
    BY <1>4
  <2>2. found \in SUBSET Ids /\ D \in SUBSET Ids /\ D \subseteq walk.due
    BY DEF TableOK, Walks
  <2> HIDE DEF found, D
  <2>3. /\ walk' \in Walks /\ walk'.pc = "count" /\ walk'.ids = found /\ walk'.due = D
        /\ walk'.page = walk.page /\ walk'.limit = walk.limit
        /\ walk'.matching = walk.matching /\ walk'.seen = walk.seen
        /\ walk'.twice = walk.twice /\ walk'.calm = walk.calm
    BY <2>1, <2>2 DEF Walks
  <2>4. Phases' /\ Counted' /\ NothingMissed' /\ NothingTwice' /\ PageAsAnnounced'
    BY <1>0, <2>3 DEF InSQL, Phases, Counted, NothingMissed, NothingTwice, PageAsAnnounced
  <2>5. Listed' = found /\ Shown' = found /\ found \subseteq Shown
    BY <1>0, <1>1, <2>3 DEF Listed, Shown, Visible, Resolved, found
  <2>6. Passed' = Passed
    BY <1>0, <2>3 DEF Passed
  <2>7. Certain'
    <3>1. walk.due \subseteq found
      BY <1>1 DEF Certain
    <3>2. walk'.due \subseteq walk'.ids
      BY <2>2, <2>3, <3>1
    <3>3. query.sort = "none" => walk'.due = {} /\ walk'.calm = {}
      BY <2>2, <2>3 DEF Certain
    <3>4. ASSUME NEW i \in walk'.due \cup walk'.calm
          PROVE  i \in Visible(table, attr) /\ \A k \in Shown' : k # i => Place(table, k) # Place(table, i)
      BY <2>2, <2>3, <2>5 DEF Certain
    <3>5. walk'.pc # "idle"
      BY <2>3
    <3>6. \A i \in walk'.due \cup walk'.calm :
            i \in Visible(table, attr)' /\ \A k \in Shown' : k # i => Place(table', k) # Place(table', i)
      BY <1>0, <3>4 DEF Visible
    <3> QED BY <1>0, <3>2, <3>3, <3>5, <3>6 DEF Certain
  <2>8. StillAhead'
    <3> SUFFICES ASSUME NEW x \in walk'.due \ walk'.seen
                 PROVE  Cardinality(Above(Listed, x)') >= Passed'
      BY DEF StillAhead
    <3>1. x \in walk.due \ walk.seen /\ x \notin cut
      BY <2>2, <2>3 DEF D
    <3>2. x \in Shown /\ Cardinality(Above(Listed, x)) >= Passed
      <4>1. x \in Visible(table, attr)
        BY <3>1 DEF Certain
      <4> QED BY <1>0, <1>1, <3>1, <4>1 DEF StillAhead, Paging, found
    <3>3. ASSUME NEW k \in Above(Listed, x) PROVE k \in found
      <4>1. k \in Rows(table) \cap walk.ids /\ Place(table, k) < Place(table, x)
        BY <1>1 DEF Above
      <4>2. CASE k \notin found
        <5>1. k \in gone /\ k \in Visible(table, attr \cup walk.ids)
          BY <1>1, <4>1, <4>2
        <5>2. x \in Below(table, attr \cup walk.ids, k)
          BY <1>1, <3>2, <4>1, <5>1, Belows
        <5> QED BY <3>1, <5>1, <5>2
      <4> QED BY <4>2
    <3>4. Above(Listed, x)' = Above(found, x)
      BY <1>0, <2>5 DEF Above
    <3>5. Above(Listed, x) \in SUBSET Above(found, x) /\ Above(found, x) \in SUBSET Rows(table)
      BY <3>3 DEF Above, found
    <3>6. /\ Cardinality(Above(found, x)) \in Nat /\ Cardinality(Above(Listed, x)) \in Nat
          /\ Cardinality(Above(Listed, x)) <= Cardinality(Above(found, x))
      BY <3>5, RowsAreFinite DEF TableOK
    <3> QED BY <2>6, <3>2, <3>4, <3>6, PassedNat
  <2>9. LeftBehind'
    <3>1. ASSUME NEW x \in walk'.calm \cap walk'.seen
          PROVE  Cardinality(Above(Shown, x)') < Passed'
      <4>1. Above(Shown, x)' = Above(found, x)
        BY <1>0, <2>5 DEF Above
      <4>2. Cardinality(Above(Shown, x)) < Passed
        BY <1>0, <2>3, <3>1 DEF LeftBehind, Paging
      <4>3. /\ Cardinality(Above(Shown, x)) \in Nat /\ Cardinality(Above(found, x)) \in Nat
            /\ Cardinality(Above(found, x)) <= Cardinality(Above(Shown, x))
        <5>1. Shown \in SUBSET Rows(table) /\ found \in SUBSET Shown
          BY <1>1, <2>5
        <5> QED BY <5>1, AboveSize
      <4> QED BY <2>6, <4>1, <4>2, <4>3, PassedNat
    <3>2. \A x : Above(Shown, x)' \subseteq Listed'
      BY <2>5 DEF Above
    <3> QED BY <3>1, <3>2 DEF LeftBehind
  <2> QED BY <1>2, <2>3, <2>4, <2>7, <2>8, <2>9
<1>5. CASE walk' = [walk EXCEPT !.pc = "done", !.misled = TRUE]
  <2>1. /\ walk' \in Walks /\ walk'.pc = "done" /\ walk'.misled /\ walk'.ids = walk.ids
        /\ walk'.page = walk.page /\ walk'.matching = walk.matching
        /\ walk'.twice = walk.twice /\ walk'.due = walk.due /\ walk'.calm = walk.calm
    BY <1>5 DEF Walks
  <2>2. Phases' /\ Counted' /\ NothingMissed' /\ NothingTwice' /\ PageAsAnnounced'
    BY <1>0, <2>1 DEF Phases, Counted, NothingMissed, NothingTwice, PageAsAnnounced, InSQL
  <2>3. StillAhead' /\ LeftBehind'
    BY <2>1 DEF StillAhead, LeftBehind, Paging
  <2>4. Certain'
    <3>1. Shown' = Shown /\ Visible(table, attr)' = Visible(table, attr)
      BY <1>0, <2>1 DEF Shown, Visible, Resolved
    <3> QED BY <1>0, <2>1, <3>1 DEF Certain
  <2> QED BY <1>2, <2>1, <2>2, <2>3, <2>4
<1> QED BY <1>3, <1>4, <1>5 DEF ResolveIds

LEMMA CountKeepsWalk == ASSUME WalkInv, Count PROVE WalkInv'
<1> USE DEF WalkInv
<1>0. walk.pc = "count" /\ UNCHANGED <<query, table, attr>>
  BY DEF Count, Quiet, data
<1>1. Cardinality(Listed) \in Nat
  BY ShownListed, RowsAreFinite DEF TableOK
<1>2. \E n \in Nat, b \in BOOLEAN :
         /\ b \/ n = Cardinality(Listed)
         /\ walk' = [walk EXCEPT !.pc = "find", !.total = n, !.misled = b]
  <2>1. CASE walk' = [walk EXCEPT !.pc = "find", !.total = Cardinality(Listed)]
    <3>1. walk' = [walk EXCEPT !.pc = "find", !.total = Cardinality(Listed), !.misled = @]
      BY <2>1 DEF Walks
    <3> QED BY <1>1, <3>1 DEF Walks
  <2>2. CASE walk' = [walk EXCEPT !.pc = "find", !.misled = TRUE]
    <3>1. walk' = [walk EXCEPT !.pc = "find", !.total = @, !.misled = TRUE]
      BY <2>2 DEF Walks
    <3> QED BY <3>1 DEF Walks
  <2> QED BY <2>1, <2>2 DEF Count
<1>3. PICK n \in Nat, b \in BOOLEAN :
         /\ b \/ n = Cardinality(Listed)
         /\ walk' = [walk EXCEPT !.pc = "find", !.total = n, !.misled = b]
  BY <1>2
<1>4. /\ walk' \in Walks /\ walk'.pc = "find" /\ walk'.total = n /\ walk'.misled = b
      /\ walk'.page = walk.page /\ walk'.limit = walk.limit /\ walk'.ids = walk.ids
      /\ walk'.matching = walk.matching /\ walk'.seen = walk.seen
      /\ walk'.twice = walk.twice /\ walk'.due = walk.due /\ walk'.calm = walk.calm
  BY <1>3 DEF Walks
<1>5. Shown' = Shown /\ Listed' = Listed /\ Visible(table, attr)' = Visible(table, attr)
  BY <1>0, <1>4 DEF Shown, Resolved, Listed, Visible
<1>6. Phases' /\ NothingMissed' /\ NothingTwice' /\ PageAsAnnounced' /\ TableOK'
  BY <1>0, <1>4, QuietTable DEF InSQL, Phases, NothingMissed, NothingTwice, PageAsAnnounced
<1>7. Counted'
  BY <1>1, <1>4, <1>5, <1>3 DEF Counted
<1>8. Certain'
  BY <1>0, <1>4, <1>5 DEF Certain
<1>9. Passed' = Passed
  BY <1>0, <1>4 DEF Passed
<1>10. StillAhead'
  BY <1>0, <1>4, <1>5, <1>9 DEF StillAhead, Above, Paging
<1>11. LeftBehind'
  BY <1>0, <1>4, <1>5, <1>9 DEF LeftBehind, Above, Paging
<1> QED BY <1>4, <1>6, <1>7, <1>8, <1>10, <1>11

Cut(rows, p, l) == {rows[j] : j \in Slice(Len(rows), p, l)}

(* A page has the rows whose places in the order it covers.                 *)
LEMMA PageRows ==
    ASSUME TableOK, NEW S \in SUBSET Rows(table), NEW rows \in Orders(S), NEW p, NEW l,
           p \in Nat, p >= 1, l \in Nat \ {0}
    PROVE  /\ Len(rows) = Cardinality(S) /\ Cardinality(S) \in Nat
           /\ Cut(rows, p, l) \in SUBSET S /\ IsFiniteSet(Cut(rows, p, l))
           /\ Cardinality(Cut(rows, p, l)) <= Cardinality(Slice(Cardinality(S), p, l))
<1>1. Cardinality(S) \in Nat
  BY RowsAreFinite DEF TableOK
<1>2. rows \in [1..Cardinality(S) -> S]
  BY DEF Orders
<1>3. Len(rows) = Cardinality(S)
  BY <1>1, <1>2
<1>4. /\ IsFiniteSet(Slice(Len(rows), p, l)) /\ Slice(Len(rows), p, l) \subseteq 1..Len(rows)
  BY <1>1, <1>3, SliceSize
<1> DEFINE J == Slice(Len(rows), p, l)
           R == Cut(rows, p, l)
           f == [j \in J |-> rows[j]]
<1>8. R = {rows[j] : j \in J}
  BY DEF Cut
<1> HIDE DEF R
<1>5. R \in SUBSET S
  BY <1>2, <1>3, <1>4, <1>8
<1>6. f \in Surjection(J, R)
  <2>1. f \in [J -> R] /\ \A j \in J : f[j] = rows[j]
    BY <1>8
  <2>2. \A x \in R : \E j \in J : f[j] = x
    BY <1>8
  <2> HIDE DEF f, J
  <2> QED BY <2>1, <2>2, Fun_IsSurj
<1>7. IsFiniteSet(R) /\ Cardinality(R) <= Cardinality(J)
  <2> HIDE DEF f
  <2> QED BY <1>4, <1>6, FS_Surjection
<1> QED BY <1>1, <1>3, <1>5, <1>7 DEF R

(* A row without ties is on the page that its place says.                   *)
LEMMA OnPage ==
    ASSUME TableOK, NEW S \in SUBSET Rows(table), NEW rows \in Orders(S), NEW p, NEW l,
           p \in Nat, p >= 1, l \in Nat \ {0},
           NEW i \in S, \A k \in S : k # i => Place(table, k) # Place(table, i)
    PROVE  /\ Cardinality(Above(S, i)) \in Nat
           /\ Cardinality(Above(S, i)) < Cardinality(S)
           /\ i \in Cut(rows, p, l) <=>
                 (p - 1) * l <= Cardinality(Above(S, i)) /\ Cardinality(Above(S, i)) < p * l
<1> DEFINE n == Cardinality(S)
           a == Cardinality(Above(S, i))
           b == (p - 1) * l
           e == p * l
<1>1. n \in Nat /\ Len(rows) = n /\ rows \in [1..n -> S]
      /\ \A j, k \in 1..n : j < k => rows[j] # rows[k]
  BY PageRows DEF Orders
<1>2. b \in Nat /\ e \in Nat
  BY PageEnds
<1>3. PICK q \in 1..n : rows[q] = i /\ a = q - 1
  BY OrderedAt
<1>4. Slice(Len(rows), p, l) = (b + 1)..(IF e < n THEN e ELSE n)
  BY <1>1 DEF Slice
<1> HIDE DEF n, a, b, e
<1>5. \A j \in 1..n : rows[j] = i => j = q
  BY <1>1, <1>3
<1>6. Slice(Len(rows), p, l) \subseteq 1..n
  BY <1>1, <1>2, <1>4
<1>7. i \in Cut(rows, p, l) <=> q \in Slice(Len(rows), p, l)
  BY <1>3, <1>5, <1>6 DEF Cut
<1>8. q \in Slice(Len(rows), p, l) <=> b <= a /\ a < e
  BY <1>1, <1>2, <1>3, <1>4
<1>9. a \in Nat /\ a < n
  BY <1>1, <1>3
<1> QED BY <1>7, <1>8, <1>9 DEF n, a, b, e

LEMMA FindKeepsWalk == ASSUME WalkInv, Find PROVE WalkInv'
<1> USE DEF WalkInv
<1>0. walk.pc = "find" /\ InSQL /\ UNCHANGED <<query, table, attr>>
  BY DEF Find, Quiet, data, Phases
<1>1. PICK rows \in Orders(Listed) : Respond(Cut(rows, walk.page, walk.limit), walk.total)
  BY DEF Find, Cut
<1> DEFINE R == Cut(rows, walk.page, walk.limit)
           n == Cardinality(Listed)
           b == (walk.page - 1) * walk.limit
           e == walk.page * walk.limit
<1>2. /\ walk.page \in Nat /\ walk.page >= 1 /\ walk.limit \in Nat \ {0} /\ walk.total \in Nat
      /\ Listed \in SUBSET Rows(table)
  BY LimitsExist, ShownListed DEF Walks
<1>3. /\ n \in Nat /\ R \in SUBSET Listed
      /\ IsFiniteSet(R) /\ Cardinality(R) <= Cardinality(Slice(n, walk.page, walk.limit))
  BY <1>2, PageRows
<1>4. b \in Nat /\ e \in Nat /\ e = b + walk.limit
  BY <1>2, PageEnds
<1>5. ASSUME NEW i \in Listed, \A k \in Listed : k # i => Place(table, k) # Place(table, i)
      PROVE  /\ Cardinality(Above(Listed, i)) \in Nat /\ Cardinality(Above(Listed, i)) < n
             /\ i \in R <=> b <= Cardinality(Above(Listed, i)) /\ Cardinality(Above(Listed, i)) < e
  BY <1>2, <1>5, OnPage
<1>6. Respond(R, walk.total)
  BY <1>1
<1>7. Passed = b
  BY <1>0 DEF Passed
<1> HIDE DEF R, n, b, e
<1>8. R \in SUBSET Ids
  BY <1>2, <1>3, LinedTables, RowsAreIds DEF TableOK
<1>9. /\ walk' \in Walks
      /\ walk'.pc = IF walk.page < TotalPages(walk.total, walk.limit) /\ query.how # "preview"
                    THEN "more" ELSE "done"
      /\ walk'.page = walk.page /\ walk'.limit = walk.limit
      /\ walk'.total = walk.total /\ walk'.ids = walk.ids
      /\ walk'.matching = walk.matching /\ walk'.got = R
      /\ walk'.seen = walk.seen \cup R
      /\ walk'.twice = walk.twice \cup (R \cap walk.seen)
      /\ walk'.due = walk.due /\ walk'.calm = walk.calm /\ walk'.grown = walk.grown
      /\ walk'.misled = walk.misled
  BY <1>2, <1>6, <1>8, Responded
<1>10. walk'.pc \in {"more", "done"}
  BY <1>9
<1>11. walk'.pc = "more" => Passed' = e
  BY <1>9 DEF Passed, e
<1>12. Shown' = Shown /\ Listed' = Listed /\ Visible(table, attr)' = Visible(table, attr)
       /\ \A i : Above(Listed, i)' = Above(Listed, i) /\ Above(Shown, i)' = Above(Shown, i)
  BY <1>0, <1>9 DEF Shown, Resolved, Listed, Visible, Above
<1>13. TableOK' /\ Phases' /\ Counted'
  BY <1>0, <1>10, QuietTable DEF Phases, Counted
<1>14. Certain'
  <2>1. query.sort = "none" => walk'.due = {} /\ walk'.calm = {}
    BY <1>9 DEF Certain
  <2>2. \A i \in walk'.due \cup walk'.calm :
           i \in Visible(table, attr)' /\ \A k \in Shown' : k # i => Place(table', k) # Place(table', i)
    BY <1>0, <1>9, <1>12 DEF Certain
  <2> QED BY <1>0, <1>10, <2>1, <2>2 DEF Certain
(* Where a watched row is.                                                  *)
<1>15. ASSUME NEW x \in walk.due \cup walk.calm, x \in Listed
       PROVE  /\ Cardinality(Above(Listed, x)) \in Nat /\ Cardinality(Above(Listed, x)) < n
              /\ x \in R <=> b <= Cardinality(Above(Listed, x)) /\ Cardinality(Above(Listed, x)) < e
  <2>1. \A k \in Listed : k # x => Place(table, k) # Place(table, x)
    BY ShownListed DEF Certain
  <2> QED BY <1>5, <1>15, <2>1
<1>16. ASSUME NEW x \in walk.due, x \notin walk'.seen
       PROVE  Cardinality(Above(Listed, x)) \in Nat /\ e <= Cardinality(Above(Listed, x))
              /\ Cardinality(Above(Listed, x)) < n
  <2>1. x \in Visible(table, attr)
    BY DEF Certain
  <2>2. x \in Listed
    BY <1>0, <2>1, ShownListed DEF Certain
  <2>3. Cardinality(Above(Listed, x)) >= b
    BY <1>0, <1>7, <1>9, <1>16 DEF StillAhead, Paging
  <2>4. x \notin R
    BY <1>9, <1>16
  <2> QED BY <1>4, <1>15, <2>2, <2>3, <2>4
<1>17. StillAhead'
  <2> SUFFICES ASSUME walk'.pc = "more", NEW x \in walk'.due \ walk'.seen
               PROVE  Cardinality(Above(Listed, x)') >= Passed'
    BY <1>10 DEF StillAhead, Paging
  <2>1. x \in walk.due /\ x \notin walk'.seen
    BY <1>9
  <2> QED BY <1>4, <1>11, <1>12, <1>16, <2>1
<1>18. NothingMissed'
  <2> SUFFICES ASSUME walk'.pc = "done", ~walk'.grown, ~walk'.misled,
                      NEW x \in walk'.due, x \notin walk'.seen
               PROVE  FALSE
    BY DEF NothingMissed
  <2>1. e <= Cardinality(Above(Listed, x)) /\ Cardinality(Above(Listed, x)) < n
        /\ Cardinality(Above(Listed, x)) \in Nat
    BY <1>9, <1>16
  <2>2. n <= walk.total
    BY <1>0, <1>9 DEF Counted, n
  <2>3. ~(walk.page < TotalPages(walk.total, walk.limit))
    BY <1>0, <1>9 DEF InSQL
  <2>4. walk.total <= e
    BY <1>2, <2>3, LastPage DEF e
  <2> QED BY <1>2, <1>3, <1>4, <2>1, <2>2, <2>4
<1>19. ASSUME NEW x PROVE /\ Cardinality(Above(Shown, x)) \in Nat
                          /\ Cardinality(Above(Listed, x)) \in Nat
                          /\ Cardinality(Above(Listed, x)) <= Cardinality(Above(Shown, x))
  BY ShownListed, AboveSize
<1>20. LeftBehind'
  <2> SUFFICES ASSUME walk'.pc = "more", NEW x \in walk'.calm \cap walk'.seen
               PROVE  Cardinality(Above(Shown, x)') < Passed'
    BY <1>10 DEF LeftBehind, Paging
  <2>1. x \in walk.calm
    BY <1>9
  <2>2. CASE x \in walk.seen
    <3>1. Cardinality(Above(Shown, x)) < b
      BY <1>0, <1>7, <2>1, <2>2 DEF LeftBehind, Paging
    <3> QED BY <1>2, <1>4, <1>11, <1>12, <1>19, <3>1
  <2>3. CASE x \in R
    <3>1. Cardinality(Above(Listed, x)) < e
      BY <1>3, <1>15, <2>1, <2>3
    <3>2. Above(Shown, x) \subseteq Above(Listed, x)
      <4>1. Above(Shown, x) \subseteq Listed
        BY <1>0, <2>1 DEF LeftBehind
      <4> QED BY <4>1 DEF Above
    <3>3. Above(Listed, x) \subseteq Above(Shown, x)
      BY ShownListed DEF Above
    <3>4. Above(Shown, x) = Above(Listed, x)
      BY <3>2, <3>3
    <3> QED BY <1>11, <1>12, <3>1, <3>4
  <2> QED BY <1>9, <2>2, <2>3
<1>21. NothingTwice'
  <2> SUFFICES ASSUME NEW x \in walk.calm, x \in R, x \in walk.seen PROVE FALSE
    BY <1>9 DEF NothingTwice
  <2>1. Cardinality(Above(Shown, x)) < b
    BY <1>0, <1>7 DEF LeftBehind, Paging
  <2>2. b <= Cardinality(Above(Listed, x))
    BY <1>3, <1>15
  <2> QED BY <1>4, <1>19, <2>1, <2>2
<1>22. PageAsAnnounced'
  <2>1. Announced' = Announced
    BY <1>9 DEF Announced
  <2>2. Announced = Cardinality(Slice(walk.total, walk.page, walk.limit)) /\ Announced \in Nat
    BY <1>2, AnnouncedIs
  <2>3. CASE n <= walk.total
    <3>1. Cardinality(Slice(n, walk.page, walk.limit))
            <= Cardinality(Slice(walk.total, walk.page, walk.limit))
      BY <1>2, <1>3, <2>3, SliceGrows
    <3>2. Cardinality(Slice(n, walk.page, walk.limit)) \in Nat /\ Cardinality(R) \in Nat
      BY <1>2, <1>3, SliceSize, FS_CardinalityType
    <3>3. Cardinality(R) <= Announced
      BY <1>3, <2>2, <3>1, <3>2
    <3> QED BY <1>0, <1>9, <2>1, <3>3 DEF PageAsAnnounced, InSQL
  <2>4. CASE walk.grown \/ walk.misled
    BY <1>0, <1>9, <2>4 DEF PageAsAnnounced, InSQL
  <2> QED BY <1>0, <2>3, <2>4 DEF Counted, n
<1> QED BY <1>2, <1>9, <1>13, <1>14, <1>17, <1>18, <1>20, <1>21, <1>22

(* Searches and previews: what they load, what they cut.                    *)
LEMMA MemoryKeepsWalk ==
    ASSUME WalkInv, Load \/ Eval \/ Store \/ Run \/ Page PROVE WalkInv'
<1> USE DEF WalkInv
<1>0. ~InSQL /\ walk.pc \in {"load", "eval", "store", "run", "page"}
      /\ UNCHANGED <<query, table, attr>>
  BY DEF Load, Eval, Store, Run, Page, Quiet, data, Phases
<1>1. walk.due = {} /\ walk.calm = {}
  BY <1>0, MemoryUnsorted DEF TableOK, Certain
<1>2. Rows(table) \in SUBSET Ids /\ IsFiniteSet(Rows(table))
  BY LinedTables, RowsAreIds DEF TableOK
<1>3. TableOK'
  BY <1>0, QuietTable
<1>4. ASSUME NEW label \in {"eval", "store", "run", "page", "failed"},
             NEW ids \in SUBSET Ids, NEW M \in SUBSET Ids, IsFiniteSet(M),
             walk' = [walk EXCEPT !.pc = label, !.ids = ids, !.matching = M]
      PROVE  WalkInv'
  <2>1. /\ walk' \in Walks /\ walk'.pc = label /\ walk'.page = walk.page
        /\ walk'.matching = M /\ walk'.due = {} /\ walk'.calm = {}
    BY <1>1, <1>4 DEF Walks
  <2>2. Phases' /\ Counted' /\ PageAsAnnounced'
    BY <1>0, <2>1 DEF Phases, Counted, PageAsAnnounced, InSQL
  <2> QED BY <1>3, <1>4, <2>1, <2>2, NothingWatched
<1>5. CASE Load
  <2> DEFINE M == IF query.where = "all" THEN Rows(table) ELSE Rows(table) \cap attr
             label == IF query.where = "all" \/ table = <<>> THEN "page" ELSE "eval"
  <2>1. walk' = [walk EXCEPT !.ids = Rows(table), !.matching = M, !.pc = label]
    BY <1>5 DEF Load
  <2>2. M \in SUBSET Ids /\ IsFiniteSet(M) /\ label \in {"page", "eval"}
    BY <1>2, FS_Intersection
  <2> HIDE DEF M, label
  <2>3. walk' = [walk EXCEPT !.pc = label, !.ids = Rows(table), !.matching = M]
    BY <2>1 DEF Walks
  <2> QED BY <1>2, <1>4, <2>2, <2>3
<1>6. ASSUME NEW label, walk' = [walk EXCEPT !.pc = label]
      PROVE  walk' = [walk EXCEPT !.pc = label, !.ids = walk.ids, !.matching = walk.matching]
  BY <1>6 DEF Walks
<1>7. walk.ids \in SUBSET Ids /\ walk.matching \in SUBSET Ids
  BY DEF Walks
<1>8. CASE Eval
  <2>1. \E label \in {"run", "store", "failed"} : walk' = [walk EXCEPT !.pc = label]
    BY <1>8 DEF Eval
  <2> QED BY <1>4, <1>6, <1>7, <2>1
<1>9. CASE Store
  <2>1. walk' = [walk EXCEPT !.pc = "run"]
    BY <1>9 DEF Store
  <2> QED BY <1>4, <1>6, <1>7, <2>1
<1>10. CASE Run
  <2>1. \/ walk' = [walk EXCEPT !.pc = "failed"]
        \/ \E M \in {walk.matching, {}} : walk' = [walk EXCEPT !.pc = "page", !.matching = M]
    BY <1>10 DEF Run
  <2>2. CASE walk' = [walk EXCEPT !.pc = "failed"]
    BY <1>4, <1>6, <1>7, <2>2
  <2>3. ASSUME NEW M \in {walk.matching, {}}, walk' = [walk EXCEPT !.pc = "page", !.matching = M]
        PROVE  WalkInv'
    <3>1. walk' = [walk EXCEPT !.pc = "page", !.ids = walk.ids, !.matching = M]
      BY <2>3 DEF Walks
    <3>2. M \in SUBSET Ids /\ IsFiniteSet(M)
      BY <1>7, FS_EmptySet
    <3> QED BY <1>4, <1>7, <3>1, <3>2
  <2> QED BY <2>1, <2>2, <2>3
<1>11. CASE Page
  <2> DEFINE total == Cardinality(walk.matching)
             k == Cardinality(Slice(total, walk.page, walk.limit))
  <2>1. PICK S \in kSubset(k, walk.matching) : Respond(S, total)
    BY <1>11 DEF Page
  <2>2. S \in SUBSET walk.matching /\ Cardinality(S) = k
    BY DEF kSubset
  <2>3. total \in Nat
    BY FS_CardinalityType
  <2> HIDE DEF total, k
  <2>4. S \in SUBSET Ids
    BY <1>7, <2>2
  <2>5. /\ walk' \in Walks /\ walk'.pc \in {"more", "done"}
        /\ walk'.page = walk.page /\ walk'.limit = walk.limit
        /\ walk'.total = total /\ walk'.matching = walk.matching /\ walk'.got = S
        /\ walk'.due = walk.due /\ walk'.calm = walk.calm
    BY <2>1, <2>3, <2>4, Responded
  <2>6. PageAsAnnounced'
    <3>1. walk.page \in Nat /\ walk.page >= 1 /\ walk.limit \in Nat \ {0}
      BY LimitsExist DEF Walks
    <3>2. k = Min({walk.limit, Max({total - (walk.page - 1) * walk.limit, 0})}) /\ k \in Nat
      BY <2>3, <3>1, SliceSize, FS_CardinalityType DEF k
    <3>3. Announced' = k
      BY <2>5, <3>2 DEF Announced
    <3> QED BY <2>2, <2>5, <3>2, <3>3 DEF PageAsAnnounced
  <2>7. Phases' /\ Counted'
    BY <2>5 DEF Phases, Counted
  <2> QED BY <1>1, <1>3, <2>5, <2>6, <2>7, NothingWatched
<1> QED BY <1>5, <1>8, <1>9, <1>10, <1>11

(* The walk is over, with its last page or an error.                        *)
LEMMA EndKeepsWalk == ASSUME WalkInv, End \/ QueryFails PROVE WalkInv'
<1> USE DEF WalkInv
<1>1. walk' = NoWalk /\ UNCHANGED <<query, table, attr>>
  BY DEF End, QueryFails, Quiet, data
<1>2. /\ walk' \in Walks /\ walk'.pc = "idle" /\ walk'.page = 1 /\ walk'.matching = {}
      /\ walk'.due = {} /\ walk'.calm = {}
  BY <1>1, LimitsExist DEF NoWalk, Walks
<1>3. Phases' /\ Counted' /\ PageAsAnnounced'
  BY <1>2 DEF Phases, Counted, PageAsAnnounced
<1> QED BY <1>1, <1>2, <1>3, QuietTable, NothingWatched, FS_EmptySet

LEMMA WalkInit == Init => WalkInv
<1> SUFFICES ASSUME Init PROVE WalkInv
  OBVIOUS
<1>1. walk = NoWalk /\ query \in Queries /\ table = <<>> /\ attr = {}
  BY DEF Init
<1>2. table \in Lined /\ Apart(table) /\ table \in Tables /\ Len(table) = 0
  BY <1>1 DEF Lined, Apart, Tables
<1>3. Rows(table) = {}
  BY <1>2, RowsOf
<1>4. /\ walk \in Walks /\ walk.pc = "idle" /\ walk.page = 1 /\ walk.matching = {}
      /\ walk.due = {} /\ walk.calm = {}
  BY <1>1, LimitsExist DEF NoWalk, Walks
<1>5. TableOK
  BY <1>1, <1>2, <1>3, FS_EmptySet DEF TableOK
<1>6. Phases /\ Counted /\ PageAsAnnounced
  BY <1>4 DEF Phases, Counted, PageAsAnnounced
<1>7. Certain /\ StillAhead /\ LeftBehind /\ NothingMissed /\ NothingTwice
  BY <1>4 DEF Certain, StillAhead, LeftBehind, NothingMissed, NothingTwice
<1> QED BY <1>4, <1>5, <1>6, <1>7, FS_EmptySet DEF WalkInv

(* What the walk has in hand is right, whatever others do to the table.     *)
LEMMA WalkInvariant == Spec => []WalkInv
<1>1. Init => WalkInv
  BY WalkInit
<1>2. WalkInv /\ [Next]_vars => WalkInv'
  <2> SUFFICES ASSUME WalkInv, [Next]_vars PROVE WalkInv'
    OBVIOUS
  <2>1. CASE Walk
    BY <2>1, StartKeepsWalk, MoreKeepsWalk, ResolveKeepsWalk, CountKeepsWalk, FindKeepsWalk,
       MemoryKeepsWalk, EndKeepsWalk DEF Walk
  <2>2. ASSUME NEW i \in Ids,
               \/ Insert(i) \/ Toggle(i) \/ Move(i) \/ Delete(i)
               \/ \E a \in Admins : Create(a, i)
        PROVE  WalkInv'
    <3>1. RowChanged(i)
      BY <2>2, RowsChange DEF WalkInv
    <3> QED BY <3>1, RowKeepsWalk
  <2>3. CASE UNCHANGED <<query, table, attr, walk>>
    BY <2>3 DEF WalkInv, TableOK, Phases, Certain, StillAhead, LeftBehind, Counted,
       NothingMissed, NothingTwice, PageAsAnnounced, Announced, InSQL, Listed, Shown,
       Resolved, Visible, Above, Passed
  <2>4. ASSUME NEW i \in Ids, Update(i) PROVE UNCHANGED <<query, table, attr, walk>>
    BY <2>4 DEF Update
  <2>5. ASSUME NEW a \in Admins, Lookup(a) PROVE UNCHANGED <<query, table, attr, walk>>
    BY <2>5 DEF Lookup
  <2>6. CASE \E e \in Expressions, env \in Envs : CompileElsewhere(e, env) \/ StoreElsewhere(e, env)
    <3>1. UNCHANGED <<query, table, attr, walk>>
      BY <2>6 DEF CompileElsewhere, StoreElsewhere, data
    <3> QED BY <2>3, <3>1
  <2>7. CASE UNCHANGED vars
    BY <2>3, <2>7 DEF vars, data
  <2> QED BY <2>1, <2>2, <2>3, <2>4, <2>5, <2>6, <2>7 DEF Next
<1> QED BY <1>1, <1>2, PTL DEF Spec

(* A client that stops at the last page the total promises has seen every   *)
(* row that was in the list from start to end and neither moved up nor      *)
(* shared its key or time, however many rows come, go and move meanwhile,   *)
(* unless the list grew between the count and the page it stopped at, or    *)
(* that page hides a failed query                                           *)
(* (node/service.go:92-114,233-236, source/service.go:82-109).              *)
THEOREM WalksMissNothing == Spec => []NothingMissed
<1>1. WalkInv => NothingMissed
  BY DEF WalkInv
<1> QED BY <1>1, WalkInvariant, PTL

(* No row is on two pages of a walk unless another came in above it or      *)
(* shares its key or time.                                                  *)
THEOREM WalksRepeatNothing == Spec => []NothingTwice
<1>1. WalkInv => NothingTwice
  BY DEF WalkInv
<1> QED BY <1>1, WalkInvariant, PTL

(* A page has as many rows as the response's total, page and limit say, for *)
(* every limit a client may ask for; no more unless a list grew meanwhile   *)
(* or its count failed unseen (sponsor.go:132-138, search.go:192-205).      *)
THEOREM PagesAsAnnounced == Spec => []PageAsAnnounced
<1>1. WalkInv => PageAsAnnounced
  BY DEF WalkInv
<1> QED BY <1>1, WalkInvariant, PTL

(* Every variable keeps its type, and no row is in two places of its list.  *)
THEOREM TypeCorrect == Spec => []TypeOK
<1>1. Spec => []DupInv
  BY DupInvariant
<1> DEFINE Sets == /\ excused \in SUBSET Ids /\ compiled \in SUBSET (Expressions \X Envs)
                   /\ programs \in [Expressions -> Envs \cup {None}]
<1>2. Spec => []Sets
  <2>1. Init => Sets
    BY DEF Init
  <2>2. WalkInv /\ Sets /\ [Next]_vars => Sets'
    <3> SUFFICES ASSUME WalkInv, Sets, [Next]_vars PROVE Sets'
      OBVIOUS
    <3>1. CASE Walk /\ ~Store
      BY <3>1 DEF Walk, Start, More, ResolveIds, Count, Find, QueryFails, Load, Eval, Run, Page, End,
         Quiet, data
    <3>2. ASSUME NEW i \in Ids, Insert(i) \/ Toggle(i) \/ Move(i) \/ Delete(i) \/ Update(i)
          PROVE  Sets'
      BY <3>2 DEF Insert, Toggle, Move, Delete, Update
    <3>3. ASSUME NEW a \in Admins, Lookup(a) \/ \E i \in Ids : Create(a, i)
          PROVE  Sets'
      BY <3>3 DEF Lookup, Create
    <3>4. ASSUME NEW e \in Expressions, NEW env \in Envs,
                 CompileElsewhere(e, env) \/ StoreElsewhere(e, env)
          PROVE  Sets'
      BY <3>4 DEF CompileElsewhere, StoreElsewhere, data
    <3>5. CASE UNCHANGED vars
      BY <3>5 DEF vars, data
    <3>6. CASE Store
      <4>1. query.table \in Envs
        BY <3>6, SearchQueries DEF Store, WalkInv, TableOK, Phases
      <4> QED BY <3>6, <4>1 DEF Store, data
    <3> QED BY <3>1, <3>2, <3>3, <3>4, <3>5, <3>6 DEF Next
  <2> QED BY <2>1, <2>2, WalkInvariant, PTL DEF Spec
<1>3. WalkInv /\ DupInv /\ Sets => TypeOK
  BY DEF WalkInv, TableOK, DupInv, Walks, Limits, Lined, Apart, TypeOK
<1> QED BY <1>1, <1>2, <1>3, WalkInvariant, PTL
=============================================================================
