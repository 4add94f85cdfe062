--------------------------- MODULE ReadPathsProofs ---------------------------
(***************************************************************************)
(* Proofs about ReadPaths for any tables, any requests and any number of   *)
(* writes between the transactions of a read.                              *)
(***************************************************************************)
EXTENDS ReadPaths, FiniteSetTheorems, TLAPS

-----------------------------------------------------------------------------
(* Orders.                                                                  *)

\* Nth counts a finite set of numbers from the smallest to the largest.
LEMMA NthCounts ==
    ASSUME NEW S \in SUBSET Int, IsFiniteSet(S)
    PROVE  /\ Cardinality(S) \in Nat
           /\ \A k \in 1..Cardinality(S) : Nth(S, k) \in S
           /\ \A j, k \in 1..Cardinality(S) : j < k => Nth(S, j) < Nth(S, k)
           /\ \A x \in S : \E k \in 1..Cardinality(S) : Nth(S, k) = x
  <1> DEFINE n == Cardinality(S)
             Below(x) == {y \in S : y < x}
             rank == [x \in S |-> Cardinality(Below(x)) + 1]
  <1>1. n \in Nat
    BY FS_CardinalityType
  <1>2. ASSUME NEW x \in S
        PROVE  IsFiniteSet(Below(x)) /\ Cardinality(Below(x)) \in 0..(n - 1)
    <2>1. Below(x) \in SUBSET (S \ {x})
      OBVIOUS
    <2>2. IsFiniteSet(S \ {x}) /\ Cardinality(S \ {x}) = n - 1
      BY FS_RemoveElement
    <2>3. IsFiniteSet(Below(x)) /\ Cardinality(Below(x)) <= n - 1
      BY <2>1, <2>2, FS_Subset
    <2>4. Cardinality(Below(x)) \in Nat
      BY <2>3, FS_CardinalityType
    <2> QED
      BY <1>1, <2>3, <2>4
  <1>3. ASSUME NEW x \in S, NEW y \in S, x < y
        PROVE  rank[x] < rank[y]
    <2>1. Below(x) \cup {x} \in SUBSET Below(y) /\ x \notin Below(x)
      <3>1. S \subseteq Int /\ x \in Int /\ y \in Int
        OBVIOUS
      <3>2. \A z \in S : z < x => z < y
        BY <1>3, <3>1
      <3>3. \A z \in Below(x) \cup {x} : z \in Below(y)
        BY <1>3, <3>2
      <3>4. x \notin Below(x)
        BY <3>1
      <3> QED
        BY <3>3, <3>4
    <2>2. Cardinality(Below(x) \cup {x}) = Cardinality(Below(x)) + 1
      BY <1>2, <2>1, FS_AddElement
    <2>3. Cardinality(Below(x) \cup {x}) <= Cardinality(Below(y))
      BY <1>2, <2>1, FS_Subset
    <2> QED
      BY <1>1, <1>2, <2>2, <2>3
  <1>4. rank \in [S -> 1..n]
    BY <1>1, <1>2
  <1>5. \A x, y \in S : rank[x] = rank[y] => x = y
    BY <1>1, <1>3, <1>4
  <1>6. rank \in Injection(S, 1..n)
    BY <1>4, <1>5 DEF Injection, IsInjective
  <1>7. IsFiniteSet(1..n) /\ Cardinality(1..n) = n
    BY <1>1, FS_Interval
  <1>8. rank \in Surjection(S, 1..n)
    BY <1>6, <1>7, FS_Injection
  <1>9. ASSUME NEW k \in 1..n
        PROVE  Nth(S, k) \in S /\ rank[Nth(S, k)] = k
    <2>1. PICK x \in S : rank[x] = k
      BY <1>8 DEF Surjection
    <2>2. Cardinality(Below(x)) = k - 1
      BY <1>1, <1>2, <2>1
    <2>3. Nth(S, k) \in S /\ Cardinality(Below(Nth(S, k))) = k - 1
      BY <2>2 DEF Nth
    <2> QED
      BY <1>1, <2>3
  <1> HIDE DEF rank
  <1>10. ASSUME NEW j \in 1..n, NEW k \in 1..n, j < k
         PROVE  Nth(S, j) < Nth(S, k)
    <2>1. Nth(S, j) \in S /\ Nth(S, k) \in S /\ rank[Nth(S, j)] < rank[Nth(S, k)]
      BY <1>9, <1>10
    <2> QED
      <3>1. Nth(S, j) \in Int /\ Nth(S, k) \in Int
        BY <2>1
      <3>2. rank[Nth(S, j)] = j /\ rank[Nth(S, k)] = k
        BY <1>9
      <3>3. ~(Nth(S, k) < Nth(S, j))
        <4>1. Nth(S, k) < Nth(S, j) => rank[Nth(S, k)] < rank[Nth(S, j)]
          BY <1>3, <2>1
        <4> QED
          BY <1>1, <1>10, <3>2, <4>1
      <3>4. Nth(S, k) # Nth(S, j)
        BY <2>1, <3>2
      <3> QED
        BY <3>1, <3>3, <3>4
  <1>11. ASSUME NEW x \in S
         PROVE  \E k \in 1..n : Nth(S, k) = x
    BY <1>4, <1>5, <1>9
  <1> QED
    BY <1>1, <1>9, <1>10, <1>11

\* s picks, for every k, an element of S whose key is the k-th smallest.
Picks(s, S, key) ==
    /\ IsFiniteSet(S) /\ key \in [S -> Int] /\ \A x, y \in S : key[x] = key[y] => x = y
    /\ LET K == {key[x] : x \in S} IN
       /\ s = [k \in 1..Cardinality(K) |-> s[k]]
       /\ \A k \in 1..Cardinality(K) :
             (\E x \in S : key[x] = Nth(K, k)) => s[k] \in S /\ key[s[k]] = Nth(K, k)

\* s is S in the order of key.
Sorts(s, S, key) ==
    /\ s \in Seq(S) /\ Len(s) \in Nat /\ DOMAIN s = 1..Len(s)
    /\ \A j, k \in DOMAIN s : j < k => key[s[j]] < key[s[k]]
    /\ \A x \in S : \E k \in DOMAIN s : s[k] = x

LEMMA InOrderOfKey ==
    ASSUME NEW S, NEW key, NEW s, Picks(s, S, key)
    PROVE  Sorts(s, S, key)
  <1> DEFINE K == {key[x] : x \in S}
             n == Cardinality(K)
  <1>0. /\ IsFiniteSet(S) /\ key \in [S -> Int] /\ \A x, y \in S : key[x] = key[y] => x = y
        /\ s = [k \in 1..n |-> s[k]]
        /\ \A k \in 1..n : (\E x \in S : key[x] = Nth(K, k)) => s[k] \in S /\ key[s[k]] = Nth(K, k)
    BY DEF Picks
  <1>1. key \in Surjection(S, K)
    BY <1>0 DEF Surjection
  <1>2. IsFiniteSet(K)
    BY <1>0, <1>1, FS_Surjection
  <1>3. K \in SUBSET Int
    BY <1>0
  <1>4. /\ n \in Nat
        /\ \A k \in 1..n : Nth(K, k) \in K
        /\ \A j, k \in 1..n : j < k => Nth(K, j) < Nth(K, k)
        /\ \A x \in K : \E k \in 1..n : Nth(K, k) = x
    <2> HIDE DEF K
    <2> QED
      BY <1>2, <1>3, NthCounts
  <1> HIDE DEF n
  <1>5. ASSUME NEW k \in 1..n
        PROVE  s[k] \in S /\ key[s[k]] = Nth(K, k)
    <2>1. \E x \in S : key[x] = Nth(K, k)
      BY <1>4
    <2> QED
      BY <1>0, <2>1
  <1>6. s \in Seq(S) /\ Len(s) = n /\ DOMAIN s = 1..n
    <2>1. s \in [1..n -> S]
      <3> HIDE DEF K
      <3> QED
        BY <1>0, <1>5
    <2> QED
      BY <1>4, <2>1
  <1>7. ASSUME NEW x \in S
        PROVE  \E k \in 1..n : s[k] = x
    <2>1. PICK k \in 1..n : Nth(K, k) = key[x]
      BY <1>4
    <2> QED
      BY <1>0, <1>5, <2>1
  <1>8. \A j, k \in 1..n : j < k => key[s[j]] < key[s[k]]
    BY <1>4, <1>5
  <1> QED
    BY <1>4, <1>6, <1>7, <1>8 DEF Sorts

LEMMA NamesSorted ==
    ASSUME NEW cs, IsFiniteSet(cs), \A c \in cs : c.name \in Int,
           \A c, d \in cs : c.name = d.name => c = d
    PROVE  Sorts(NamesInOrder(cs), cs, [c \in cs |-> c.name])
  <1> DEFINE key == [c \in cs |-> c.name]
             K == {c.name : c \in cs}
             L == {key[c] : c \in cs}
             s == NamesInOrder(cs)
             Pick(k) == CHOOSE c \in cs : c.name = Nth(K, k)
  <1>1. key \in [cs -> Int] /\ K = L /\ \A c, d \in cs : key[c] = key[d] => c = d
    OBVIOUS
  <1>2. s = [k \in 1..Cardinality(K) |-> Pick(k)]
    BY DEF NamesInOrder
  <1>3. \A k \in 1..Cardinality(K) :
           (\E c \in cs : key[c] = Nth(K, k)) => Pick(k) \in cs /\ key[Pick(k)] = Nth(K, k)
    <2> SUFFICES ASSUME NEW k \in 1..Cardinality(K), NEW c \in cs, key[c] = Nth(K, k)
                 PROVE  Pick(k) \in cs /\ key[Pick(k)] = Nth(K, k)
      OBVIOUS
    <2>1. c.name = Nth(K, k)
      OBVIOUS
    <2> HIDE DEF K
    <2>2. Pick(k) \in cs /\ Pick(k).name = Nth(K, k)
      BY <2>1
    <2> QED
      BY <2>2
  <1>4. /\ s = [k \in 1..Cardinality(L) |-> s[k]]
        /\ \A k \in 1..Cardinality(L) :
              (\E c \in cs : key[c] = Nth(L, k)) => s[k] \in cs /\ key[s[k]] = Nth(L, k)
    <2> HIDE DEF key, K, L, s, Pick
    <2> QED
      BY <1>1, <1>2, <1>3
  <1>5. Picks(s, cs, key)
    <2> HIDE DEF key, s
    <2> QED
      BY <1>1, <1>4 DEF Picks
  <1> QED
    BY <1>5, InOrderOfKey

LEMMA IdsSorted ==
    ASSUME NEW es, IsFiniteSet(es), \A e \in es : e.id \in Int,
           \A e, f \in es : e.id = f.id => e = f
    PROVE  Sorts(IdsInOrder(es), es, [e \in es |-> e.id])
  <1> DEFINE key == [e \in es |-> e.id]
             K == {e.id : e \in es}
             L == {key[e] : e \in es}
             s == IdsInOrder(es)
             Pick(k) == CHOOSE e \in es : e.id = Nth(K, k)
  <1>1. key \in [es -> Int] /\ K = L /\ \A e, f \in es : key[e] = key[f] => e = f
    OBVIOUS
  <1>2. s = [k \in 1..Cardinality(K) |-> Pick(k)]
    BY DEF IdsInOrder
  <1>3. \A k \in 1..Cardinality(K) :
           (\E e \in es : key[e] = Nth(K, k)) => Pick(k) \in es /\ key[Pick(k)] = Nth(K, k)
    <2> SUFFICES ASSUME NEW k \in 1..Cardinality(K), NEW e \in es, key[e] = Nth(K, k)
                 PROVE  Pick(k) \in es /\ key[Pick(k)] = Nth(K, k)
      OBVIOUS
    <2>1. e.id = Nth(K, k)
      OBVIOUS
    <2> HIDE DEF K
    <2>2. Pick(k) \in es /\ Pick(k).id = Nth(K, k)
      BY <2>1
    <2> QED
      BY <2>2
  <1>4. /\ s = [k \in 1..Cardinality(L) |-> s[k]]
        /\ \A k \in 1..Cardinality(L) :
              (\E e \in es : key[e] = Nth(L, k)) => s[k] \in es /\ key[s[k]] = Nth(L, k)
    <2> HIDE DEF key, K, L, s, Pick
    <2> QED
      BY <1>1, <1>2, <1>3
  <1>5. Picks(s, es, key)
    <2> HIDE DEF key, s
    <2> QED
      BY <1>1, <1>4 DEF Picks
  <1> QED
    BY <1>5, InOrderOfKey

\* A bulk answer: at each position asked for, what is found there with a
\* collection that is held, and nothing else.
IsBulk(items, es, cs) ==
    /\ items \in Seq(Range(items))
    /\ \A k \in DOMAIN items : \E i \in DOMAIN req.ids, e \in es :
          \E c \in HeldById(cs, e.collection) :
             e.id = req.ids[i] /\ items[k] = [index |-> i, fact |-> Shown(e, c)]
    /\ \A i \in DOMAIN req.ids, e \in es :
          e.id = req.ids[i] /\ HeldById(cs, e.collection) # {} =>
             \E k \in DOMAIN items : \E c \in HeldById(cs, e.collection) :
                items[k] = [index |-> i, fact |-> Shown(e, c)]

LEMMA BulkInOrder ==
    ASSUME req.ids \in Seq(Range(req.ids)), NEW es, NEW cs, \A e, f \in es : e.id = f.id => e = f
    PROVE  IsBulk(InRequestOrder(es, cs), es, cs)
  <1> DEFINE items == InRequestOrder(es, cs)
             Item(e, i, c) == [index |-> i, fact |-> Shown(e, c)]
             at == {i \in DOMAIN req.ids : \E e \in es : e.id = req.ids[i] /\ HeldById(cs, e.collection) # {}}
             Pick(i) == CHOOSE e \in es : e.id = req.ids[i]
             With(e) == CHOOSE c \in HeldById(cs, e.collection) : TRUE
             n == Cardinality(at)
  <1>1. at \in SUBSET Int /\ IsFiniteSet(at)
    <2>1. at \in SUBSET (1..Len(req.ids)) /\ Len(req.ids) \in Nat
      OBVIOUS
    <2>2. IsFiniteSet(1..Len(req.ids))
      BY <2>1, FS_Interval
    <2> QED
      BY <2>1, <2>2, FS_Subset
  <1>2. /\ n \in Nat
        /\ \A k \in 1..n : Nth(at, k) \in at
        /\ \A i \in at : \E k \in 1..n : Nth(at, k) = i
    <2> HIDE DEF at
    <2> QED
      BY <1>1, NthCounts
  <1>3. items = [k \in 1..n |-> Item(Pick(Nth(at, k)), Nth(at, k), With(Pick(Nth(at, k))))]
    BY DEF InRequestOrder
  <1>4. ASSUME NEW i \in at
        PROVE  /\ i \in DOMAIN req.ids /\ Pick(i) \in es /\ Pick(i).id = req.ids[i]
               /\ With(Pick(i)) \in HeldById(cs, Pick(i).collection)
    <2>1. PICK e \in es : e.id = req.ids[i] /\ HeldById(cs, e.collection) # {}
      OBVIOUS
    <2>2. Pick(i) \in es /\ Pick(i).id = req.ids[i]
      BY <2>1
    <2>3. Pick(i) = e
      BY <2>1, <2>2
    <2>4. \E c : c \in HeldById(cs, e.collection)
      BY <2>1
    <2>5. With(e) \in HeldById(cs, e.collection)
      BY <2>4
    <2> QED
      BY <2>2, <2>3, <2>5
  <1> HIDE DEF items, n, Pick, With
  <1>5. DOMAIN items = 1..n /\ items \in Seq(Range(items))
    <2>1. DOMAIN items = 1..n
      BY <1>3
    <2>2. items \in [1..n -> Range(items)]
      BY <1>3, <2>1 DEF Range
    <2> QED
      BY <1>2, <2>1, <2>2
  <1>6. ASSUME NEW k \in DOMAIN items
        PROVE  \E i \in DOMAIN req.ids, e \in es :
                  \E c \in HeldById(cs, e.collection) : e.id = req.ids[i] /\ items[k] = Item(e, i, c)
    <2>1. Nth(at, k) \in at
      BY <1>2, <1>5
    <2>2. items[k] = Item(Pick(Nth(at, k)), Nth(at, k), With(Pick(Nth(at, k))))
      BY <1>3, <1>5
    <2> HIDE DEF at, Item
    <2> QED
      BY <1>4, <2>1, <2>2
  <1>7. ASSUME NEW i \in DOMAIN req.ids, NEW e \in es, e.id = req.ids[i], HeldById(cs, e.collection) # {}
        PROVE  \E k \in DOMAIN items : \E c \in HeldById(cs, e.collection) : items[k] = Item(e, i, c)
    <2>1. i \in at
      BY <1>7
    <2>2. PICK k \in 1..n : Nth(at, k) = i
      BY <1>2, <2>1
    <2>3. items[k] = Item(Pick(i), i, With(Pick(i)))
      BY <1>3, <2>2
    <2>4. Pick(i) = e
      BY <1>4, <1>7, <2>1
    <2> HIDE DEF Item, at
    <2> QED
      BY <1>4, <1>5, <2>1, <2>3, <2>4
  <1> QED
    BY <1>5, <1>6, <1>7 DEF items, IsBulk

-----------------------------------------------------------------------------
(* The tables.                                                              *)

TablesInv ==
    /\ nextId \in Nat \ {0}
    /\ collections \in SUBSET Collection /\ IsFiniteSet(collections)
    /\ \A c \in collections : c.id < nextId
    /\ \A c, d \in collections : c.id = d.id \/ c.name = d.name => c = d
    /\ rows = [u \in Uuids |-> rows[u]]

\* What was visible when the read began and ever since brackets what is now.
Current == pc # "idle" => always \subseteq Facts(collections, rows) /\ Facts(collections, rows) \subseteq seen

\* A collection that is or was there: its id means it and no other.
Known(c) ==
    /\ c \in Collection /\ c.id < nextId
    /\ \A d \in collections : d.id = c.id => d = c

\* An embedding that is or was there: its id is in that collection, or lost.
KnownRow(e) ==
    /\ e.id \in Uuids
    /\ rows[e.id] # None
    /\ rows[e.id] # Gone => rows[e.id].collection = e.collection

\* An embedding fetched was seen in its collection, if that one is visible.
FoundInv ==
    /\ \A e, f \in found : e.id = f.id => e = f
    /\ \A e \in found : KnownRow(e) /\ \E c \in Collection :
          /\ Known(c) /\ c.id = e.collection
          /\ pc = "halfvec" => c.vector_type = "vector"
          /\ c.name \in Allowed => Shown(e, c) \in seen

HeldInv ==
    /\ held \in Seq(Collection)
    /\ \A j \in DOMAIN held : Known(held[j]) /\ held[j].name \in Allowed
    /\ pc = "fetch" \/ (pc = "page" /\ req.op = "embeddings") => Len(held) = 1 /\ held[1].name = req.name
    /\ pc = "names" => /\ Len(held) <= Len(req.names)
                       /\ \A j \in DOMAIN held : held[j].name = req.names[j]

\* Which reads pass through which step.
StepsOf(op) ==
    IF op = "bulk" THEN {"vector", "halfvec", "collections", "done"}
    ELSE IF op = "bulk_in" THEN {"lookup", "fetch", "done"}
    ELSE IF op = "search" THEN {"list", "names", "search", "done"}
    ELSE {"lookup", "page", "done"}

ControlInv ==
    \/ pc = "idle"
    \/ /\ req \in Requests /\ pc \in StepsOf(req.op)
       /\ pc = "list" => req.names = None
       /\ pc = "names" => req.names # None
       /\ req.op = "collections" => pc # "lookup"

AnswerInv ==
    /\ answer.items \in Seq(Range(answer.items)) /\ page \in Nat \ {0}
    /\ Shows \subseteq seen

TruthInv == TablesInv /\ Current /\ FoundInv /\ HeldInv /\ ControlInv /\ AnswerInv

\* What is asked for and was there all along has been fetched so far.
FetchedInv ==
    \A f \in always : AskedFor(f) =>
        /\ pc = "halfvec" /\ f.collection.vector_type = "vector" => f.embedding \in found
        /\ pc = "collections" => f.embedding \in found
        /\ pc = "fetch" => f.collection = held[1]
        /\ pc = "names" => \A j \in DOMAIN held : f.collection.name = req.names[j] => f.collection = held[j]
        /\ pc = "search" => f.collection \in Range(held)

CompleteInv == TruthInv /\ FetchedInv /\ AnswersAreComplete

\* What is stored can be told from nothing.
RowsInv ==
    \A u \in Uuids : Stored(u) =>
        \E id \in 1..MaxId, n \in Names, x \in Contents : rows[u] = Row(id, n, x)

RowsOf(c) == {e \in VisibleRows(collections, rows, c.vector_type) : e.collection = c.id}

\* The listing a walk pages through, as it is now.
Walked ==
    IF req.op = "collections"
      THEN LET N == NamesInOrder(VisibleCollections(collections)) IN [k \in DOMAIN N |-> Listed(N[k])]
    ELSE IF ByName(req.name) = {} THEN <<>>
    ELSE LET c == CHOOSE c \in ByName(req.name) : TRUE
             es == IdsInOrder(RowsOf(c))
         IN  [k \in DOMAIN es |-> Shown(es[k], c)]

\* Undisturbed, the pages so far are full and are the beginning of the listing.
WalkInv ==
    pc \in {"page", "lookup"} /\ req.op \in Walks /\ seen = always =>
        /\ Len(answer.items) = (page - 1) * PageSize
        /\ Len(answer.items) <= Len(Walked)
        /\ \A k \in DOMAIN answer.items : answer.items[k].fact = Walked[k]
        /\ pc = "page" /\ req.op = "embeddings" => held[1] \in ByName(req.name)

QuietInv == TruthInv /\ RowsInv /\ WalkInv /\ QuietWalksAreExact

-----------------------------------------------------------------------------
(* What is visible.                                                         *)

LEMMA FactsAre ==
    ASSUME NEW cs, NEW rs, NEW f
    PROVE  f \in Facts(cs, rs) <=>
              \E c \in cs : c.name \in Allowed /\
                 \/ f = Listed(c)
                 \/ \E e \in VisibleRows(cs, rs, c.vector_type) : e.collection = c.id /\ f = Shown(e, c)
  <1> DEFINE V == VisibleCollections(cs)
             In(c) == {x \in VisibleRows(cs, rs, c.vector_type) : x.collection = c.id}
  <1>1. \A c : c \in V <=> c \in cs /\ c.name \in Allowed
    BY DEF VisibleCollections
  <1>2. f \in Facts(cs, rs) <=> \/ \E c \in V : f = Listed(c)
                                \/ \E c \in V : \E e \in In(c) : f = Shown(e, c)
    <2> HIDE DEF V
    <2> QED
      BY DEF Facts, V
  <1> HIDE DEF V
  <1> QED
    BY <1>1, <1>2

LEMMA RowsAre ==
    ASSUME NEW cs, NEW rs, NEW type, NEW e
    PROVE  e \in VisibleRows(cs, rs, type) <=>
              /\ e.id \in Uuids /\ e = Embedding(rs, e.id)
              /\ rs[e.id] \notin {None, Gone} /\ rs[e.id].authz \in Allowed
              /\ \E c \in cs : c.id = e.collection /\ c.vector_type = type
  <1> DEFINE Us == {v \in Uuids :
                      /\ rs[v] \notin {None, Gone} /\ rs[v].authz \in Allowed
                      /\ \E c \in cs : c.id = rs[v].collection /\ c.vector_type = type}
  <1>1. e \in VisibleRows(cs, rs, type) <=> \E u \in Us : e = Embedding(rs, u)
    BY DEF VisibleRows
  <1>2. \A u : Embedding(rs, u).id = u /\ Embedding(rs, u).collection = rs[u].collection
    BY DEF Embedding
  <1> QED
    BY <1>1, <1>2

LEMMA ShownIs ==
    ASSUME NEW e, NEW c, NEW d, NEW f
    PROVE  /\ Shown(e, c) = Shown(f, d) => e = f /\ c = d
           /\ Listed(c) = Listed(d) => c = d
           /\ Shown(e, c).embedding = e /\ Shown(e, c).collection = c
           /\ Listed(c).embedding = None /\ Listed(c).collection = c
  BY DEF Shown, Listed

\* A fact about an embedding: what makes it true.
LEMMA FactOfEmbedding ==
    ASSUME NEW cs, NEW rs, NEW f \in Facts(cs, rs), f.embedding # None
    PROVE  /\ f.collection \in cs /\ f.collection.name \in Allowed
           /\ f.embedding \in VisibleRows(cs, rs, f.collection.vector_type)
           /\ f.embedding.collection = f.collection.id
           /\ f = Shown(f.embedding, f.collection)
  BY FactsAre, ShownIs

-----------------------------------------------------------------------------
(* The tables, whoever writes.                                              *)

LEMMA ReadsChangeNoTable == Read => UNCHANGED tables
  BY DEF Read, Begin, FetchVector, FetchHalfvec, FetchCollections, Lookup, FetchOrdered, LookupNext,
         ListForSearch, Search, FetchPage, Return, Goto, Answer, tables

LEMMA WritesChangeNoRead == Others => Change
  BY DEF Others, CreateCollection, DeleteCollection, PutEmbedding, DeleteEmbedding

LEMMA TablesInit == Init => TablesInv
  BY FS_EmptySet DEF Init, TablesInv

\* One write: what becomes of the collections and of each row.
LEMMA Written ==
    ASSUME TablesInv, Others
    PROVE  /\ TablesInv'
           /\ nextId <= nextId'
           /\ \A d \in collections' : d \in collections \/ d.id = nextId
           /\ \A u \in Uuids : rows[u] # None =>
                 /\ rows'[u] # None
                 /\ rows'[u] # Gone => rows[u] # Gone /\ rows'[u].collection = rows[u].collection
  <1> USE DEF TablesInv
  <1>1. ASSUME NEW n \in Names, NEW type \in Types, CreateCollection(n, type)
        PROVE  TablesInv' /\ nextId' = nextId + 1 /\ rows' = rows
               /\ \A d \in collections' : d \in collections \/ d.id = nextId
    <2> DEFINE c == [id |-> nextId, name |-> n, vector_type |-> type]
    <2>1. c.id = nextId /\ c.name = n
      OBVIOUS
    <2>2. /\ collections' = collections \cup {c} /\ nextId' = nextId + 1 /\ rows' = rows
          /\ nextId <= MaxId /\ \A d \in collections : d.name # n
      BY <1>1 DEF CreateCollection
    <2>0. nextId \in 1..MaxId
      BY <2>2, OrderAssumption
    <2>3. c \in Collection
      BY <2>0 DEF Collection
    <2> HIDE DEF c
    <2>4. IsFiniteSet(collections')
      BY <2>2, FS_AddElement
    <2> QED
      BY <2>1, <2>2, <2>3, <2>4 DEF Collection
  <1>2. ASSUME NEW c \in collections, DeleteCollection(c)
        PROVE  /\ TablesInv' /\ nextId' = nextId /\ collections' \in SUBSET collections
               /\ \A u \in Uuids : rows'[u] = Gone \/ rows'[u] = rows[u]
    <2>1. /\ collections' = collections \ {c} /\ nextId' = nextId
          /\ rows' = [u \in Uuids |-> IF Stored(u) /\ rows[u].collection = c.id THEN Gone ELSE rows[u]]
      BY <1>2 DEF DeleteCollection
    <2>2. IsFiniteSet(collections')
      BY <2>1, FS_Subset
    <2>3. rows' = [u \in Uuids |-> rows'[u]] /\ \A u \in Uuids : rows'[u] = Gone \/ rows'[u] = rows[u]
      BY <2>1
    <2> QED
      BY <2>1, <2>2, <2>3
  <1>3. ASSUME NEW v \in Uuids, NEW c \in collections, NEW n \in Names, NEW x \in Contents,
               PutEmbedding(v, c, n, x)
        PROVE  /\ TablesInv' /\ nextId' = nextId /\ collections' = collections
               /\ rows[v] # Gone /\ (rows[v] # None => rows[v].collection = c.id)
               /\ rows'[v] = Row(c.id, n, x)
               /\ \A u \in Uuids \ {v} : rows'[u] = rows[u]
    <2>1. /\ rows' = [rows EXCEPT ![v] = Row(c.id, n, x)]
          /\ nextId' = nextId /\ collections' = collections
          /\ rows[v] # Gone /\ (rows[v] \notin {None, Gone} => rows[v].collection = c.id)
      BY <1>3 DEF PutEmbedding, Stored
    <2>2. /\ rows' = [u \in Uuids |-> rows'[u]] /\ rows'[v] = Row(c.id, n, x)
          /\ \A u \in Uuids \ {v} : rows'[u] = rows[u]
      BY <2>1
    <2> QED
      BY <2>1, <2>2
  <1>4. ASSUME NEW v \in Uuids, DeleteEmbedding(v)
        PROVE  /\ TablesInv' /\ nextId' = nextId /\ collections' = collections
               /\ \A u \in Uuids : rows'[u] = Gone \/ rows'[u] = rows[u]
    <2>1. /\ rows' = [rows EXCEPT ![v] = Gone] /\ nextId' = nextId /\ collections' = collections
      BY <1>4 DEF DeleteEmbedding
    <2>2. rows' = [u \in Uuids |-> rows'[u]] /\ \A u \in Uuids : rows'[u] = Gone \/ rows'[u] = rows[u]
      BY <2>1
    <2> QED
      BY <2>1, <2>2
  <1>5. \A c \in collections, n \in Names, x \in Contents :
           Row(c.id, n, x) \notin {None, Gone} /\ Row(c.id, n, x).collection = c.id
    <2>1. \A c \in collections : c.id \in 1..MaxId
      BY DEF Collection
    <2>2. \A c \in collections, n \in Names, x \in Contents : Row(c.id, n, x) \notin {None, Gone}
      BY <2>1, RowAssumption
    <2> QED
      BY <2>2 DEF Row
  <1> DEFINE P == /\ TablesInv' /\ nextId <= nextId'
                  /\ \A d \in collections' : d \in collections \/ d.id = nextId
                  /\ \A u \in Uuids : rows[u] # None =>
                        /\ rows'[u] # None
                        /\ rows'[u] # Gone => rows[u] # Gone /\ rows'[u].collection = rows[u].collection
  <1>6. None # Gone
    BY RowAssumption
  <1>a. ASSUME NEW n \in Names, NEW type \in Types, CreateCollection(n, type)
        PROVE  P
    BY <1>1, <1>a
  <1>b. ASSUME NEW c \in collections, DeleteCollection(c)
        PROVE  P
    BY <1>2, <1>6, <1>b
  <1>c. ASSUME NEW v \in Uuids, NEW c \in collections, NEW n \in Names, NEW x \in Contents,
               PutEmbedding(v, c, n, x)
        PROVE  P
    <2> HIDE DEF TablesInv
    <2> QED
      BY <1>3, <1>5, <1>c DEF TablesInv
  <1>d. ASSUME NEW v \in Uuids, DeleteEmbedding(v)
        PROVE  P
    BY <1>4, <1>6, <1>d
  <1> HIDE DEF P
  <1>e. P
    BY <1>a, <1>b, <1>c, <1>d DEF Others
  <1> QED
    BY <1>e DEF P

\* So what is known of a collection or of a row stays known.
LEMMA KnownStays ==
    ASSUME TablesInv, [Next]_vars
    PROVE  /\ TablesInv'
           /\ \A c : Known(c) => Known(c)'
           /\ \A e : KnownRow(e) => KnownRow(e)'
  <1>1. CASE UNCHANGED tables
    BY <1>1 DEF tables, TablesInv, Known, KnownRow
  <1>2. CASE Others
    <2>1. TablesInv' /\ nextId <= nextId' /\ nextId \in Nat /\ nextId' \in Nat
      BY <1>2, Written DEF TablesInv
    <2>2. /\ \A d \in collections' : d \in collections \/ d.id = nextId
          /\ \A u \in Uuids : rows[u] # None =>
                /\ rows'[u] # None
                /\ rows'[u] # Gone => rows[u] # Gone /\ rows'[u].collection = rows[u].collection
      BY <1>2, Written
    <2>3. ASSUME NEW c, Known(c)
          PROVE  Known(c)'
      BY <2>1, <2>2, <2>3 DEF Known, Collection
    <2>4. ASSUME NEW e, KnownRow(e)
          PROVE  KnownRow(e)'
      BY <2>2, <2>4 DEF KnownRow
    <2> QED
      BY <2>1, <2>3, <2>4
  <1> QED
    BY <1>1, <1>2, ReadsChangeNoTable DEF Next, vars, tables

LEMMA StoredAreKnown ==
    ASSUME TablesInv
    PROVE  /\ \A c \in collections : Known(c)
           /\ \A type : \A e \in VisibleRows(collections, rows, type) :
                 /\ KnownRow(e)
                 /\ \E c \in collections : c.id = e.collection /\ c.vector_type = type
  <1>1. \A c \in collections : Known(c)
    BY DEF TablesInv, Known
  <1>2. ASSUME NEW type, NEW e \in VisibleRows(collections, rows, type)
        PROVE  KnownRow(e) /\ \E c \in collections : c.id = e.collection /\ c.vector_type = type
    BY RowsAre DEF KnownRow, Embedding
  <1> QED
    BY <1>1, <1>2

-----------------------------------------------------------------------------
(* Sequences.                                                               *)

LEMMA SingleToSeq ==
    ASSUME NEW x
    PROVE  SetToSeq({x}) = <<x>>
  <1>1. Cardinality({x}) = 1
    BY FS_Singleton
  <1>2. 1..1 = {1}
    OBVIOUS
  <1>3. <<x>> \in [1..1 -> {x}] /\ IsInjective(<<x>>)
    BY <1>2 DEF IsInjective
  <1>4. \A f \in [1..1 -> {x}] : f = <<x>>
    BY <1>2
  <1> QED
    BY <1>1, <1>3, <1>4 DEF SetToSeq

LEMMA MinOfTwo ==
    ASSUME NEW a \in Int, NEW b \in Int
    PROVE  Min({a, b}) = IF b <= a THEN b ELSE a
  <1> DEFINE S == {a, b}
             Least(x) == x \in S /\ \A y \in S : x <= y
             m == IF b <= a THEN b ELSE a
  <1>1. Least(m)
    OBVIOUS
  <1>2. \A x : Least(x) => x = m
    BY <1>1
  <1>3. Min(S) = CHOOSE x : Least(x)
    BY DEF Min
  <1> HIDE DEF S, Least, m
  <1>4. Least(CHOOSE x : Least(x))
    BY <1>1
  <1>5. Min(S) = m
    BY <1>2, <1>3, <1>4
  <1> QED
    BY <1>5 DEF S, m

\* t is what LIMIT n OFFSET a leaves of s.
IsSlice(t, s, S, a, n) ==
    /\ t \in Seq(S)
    /\ Len(s) <= a => Len(t) = 0
    /\ a < Len(s) /\ Len(s) <= a + n => Len(t) = Len(s) - a
    /\ a + n < Len(s) => Len(t) = n
    /\ \A k \in 1..Len(t) : a + k \in DOMAIN s /\ t[k] = s[a + k]

LEMMA SliceOf ==
    ASSUME NEW S, NEW s \in Seq(S), NEW a \in Nat, NEW n \in Nat
    PROVE  IsSlice(Slice(s, a, n), s, S, a, n)
  <1> DEFINE m == Min({a + n, Len(s)})
             t == Slice(s, a, n)
  <1>1. Len(s) \in Nat
    OBVIOUS
  <1>2. m = IF Len(s) <= a + n THEN Len(s) ELSE a + n
    BY <1>1, MinOfTwo
  <1>3. m \in Nat /\ m <= Len(s) /\ (Len(s) <= a + n => m = Len(s)) /\ (a + n < Len(s) => m = a + n)
    <2> HIDE DEF m
    <2>1. CASE Len(s) <= a + n
      BY <1>1, <1>2, <2>1
    <2>2. CASE ~(Len(s) <= a + n)
      BY <1>1, <1>2, <2>2
    <2> QED
      BY <2>1, <2>2
  <1>4. t = SubSeq(s, a + 1, m)
    BY DEF Slice
  <1> HIDE DEF m, t
  <1>5. CASE Len(s) <= a
    <2>1. a + 1 > m
      BY <1>1, <1>3, <1>5
    <2>2. t = <<>>
      BY <1>3, <1>4, <2>1
    <2>3. t \in Seq(S) /\ Len(t) = 0
      BY <2>2
    <2>4. \A k \in 1..Len(t) : a + k \in DOMAIN s /\ t[k] = s[a + k]
      BY <2>3
    <2>5. ~(a < Len(s)) /\ ~(a + n < Len(s))
      BY <1>1, <1>5
    <2> QED
      BY <2>3, <2>4, <2>5 DEF t, IsSlice
  <1>6. CASE a < Len(s)
    <2>1. m \in 0..Len(s) /\ a <= m /\ a + 1 \in 1..Len(s)
      BY <1>1, <1>3, <1>6
    <2>2. /\ SubSeq(s, a + 1, m) \in Seq(S)
          /\ Len(SubSeq(s, a + 1, m)) = m - a
          /\ \A k \in 1..(m - a) : SubSeq(s, a + 1, m)[k] = s[a + k]
      BY <1>1, <2>1
    <2>3. /\ t \in Seq(S) /\ Len(t) = m - a
          /\ \A k \in 1..Len(t) : t[k] = s[a + k]
      BY <1>4, <2>2
    <2>4. \A k \in 1..Len(t) : a + k \in DOMAIN s
      BY <1>1, <2>1, <2>3
    <2>5. /\ ~(Len(s) <= a)
          /\ Len(s) <= a + n => Len(t) = Len(s) - a
          /\ a + n < Len(s) => Len(t) = n
      BY <1>1, <1>3, <1>6, <2>3
    <2> QED
      BY <2>3, <2>4, <2>5 DEF t, IsSlice
  <1> QED
    BY <1>1, <1>5, <1>6

-----------------------------------------------------------------------------
(* What the reader holds stays true.                                        *)

\* The steps of a read between its first and its return.
Middle ==
    \/ FetchVector \/ FetchHalfvec \/ FetchCollections
    \/ Lookup \/ FetchOrdered
    \/ LookupNext \/ ListForSearch \/ Search
    \/ FetchPage

LEMMA MiddleKeeps ==
    Middle => /\ pc \notin {"idle", "done"} /\ pc' # "idle"
              /\ UNCHANGED <<tables, req, seen, always, changes>>
  BY DEF Middle, FetchVector, FetchHalfvec, FetchCollections, Lookup, FetchOrdered, LookupNext,
         ListForSearch, Search, FetchPage, Goto, Answer, tables

LEMMA StepIs ==
    [Next]_vars <=> \/ \E r \in Requests : Begin(r)
                    \/ Middle \/ Return \/ Others \/ UNCHANGED vars
  BY DEF Next, Read, Middle

\* A write, or no step at all: what is visible may change, and is noted.
LEMMA OthersKeep ==
    ASSUME Others \/ UNCHANGED vars
    PROVE  /\ UNCHANGED reader
           /\ pc # "idle" => /\ seen \subseteq seen' /\ always' \subseteq always
                             /\ \/ seen' = seen \cup Facts(collections', rows')
                                   /\ always' = always \cap Facts(collections', rows')
                                \/ UNCHANGED <<tables, seen, always>>
           /\ pc = "done" => UNCHANGED <<tables, seen, always>>
           /\ pc = "idle" => UNCHANGED <<seen, always>>
  BY WritesChangeNoRead DEF Change, reader, vars, tables

LEMMA CurrentStep ==
    ASSUME Current, [Next]_vars
    PROVE  Current'
  <1>1. CASE \E r \in Requests : Begin(r)
    BY <1>1 DEF Begin, Current, tables
  <1>2. CASE Middle
    BY <1>2, MiddleKeeps DEF Current, tables
  <1>3. CASE Return
    BY <1>3 DEF Return, Current
  <1>4. CASE Others \/ UNCHANGED vars
    <2>1. CASE pc = "idle"
      BY <1>4, <2>1, OthersKeep DEF Current, reader
    <2>2. CASE pc # "idle"
      BY <1>4, <2>2, OthersKeep DEF Current, reader, tables
    <2> QED
      BY <2>1, <2>2
  <1> QED
    BY <1>1, <1>2, <1>3, <1>4, StepIs

LEMMA ControlStep ==
    ASSUME ControlInv, [Next]_vars
    PROVE  ControlInv'
  <1>1. CASE \E r \in Requests : Begin(r)
    <2>1. PICK r \in Requests : Begin(r)
      BY <1>1
    <2> QED
      BY <2>1, RequestAssumption DEF Begin, ControlInv, StepsOf
  <1>2. CASE Middle
    <2>1. req' = req /\ req \in Requests /\ pc \in StepsOf(req.op)
          /\ (pc = "names" => req.names # None) /\ (req.op = "collections" => pc # "lookup")
      BY <1>2, MiddleKeeps DEF ControlInv
    <2>2. req.op \in {"bulk", "bulk_in", "search", "collections", "embeddings"}
      BY <2>1, RequestAssumption
    <2>3. CASE FetchVector \/ FetchHalfvec \/ FetchCollections \/ FetchOrdered \/ ListForSearch \/ Search
      BY <2>1, <2>2, <2>3 DEF FetchVector, FetchHalfvec, FetchCollections, FetchOrdered, ListForSearch,
            Search, Goto, Answer, ControlInv, StepsOf
    <2>4. CASE Lookup
      BY <2>1, <2>2, <2>4 DEF Lookup, Goto, Answer, ControlInv, StepsOf
    <2>5. CASE LookupNext
      BY <2>1, <2>2, <2>5 DEF LookupNext, Goto, Answer, ControlInv, StepsOf
    <2>6. CASE FetchPage
      BY <2>1, <2>2, <2>6 DEF FetchPage, Answer, ControlInv, StepsOf
    <2> QED
      BY <1>2, <2>3, <2>4, <2>5, <2>6 DEF Middle
  <1>3. CASE Return
    BY <1>3 DEF Return, ControlInv
  <1>4. CASE Others \/ UNCHANGED vars
    BY <1>4, OthersKeep DEF ControlInv, reader
  <1> QED
    BY <1>1, <1>2, <1>3, <1>4, StepIs

\* A row seen now, in a collection known: that is the collection it is in.
LEMMA RowInKnown ==
    ASSUME TablesInv, NEW type, NEW e \in VisibleRows(collections, rows, type),
           NEW c, Known(c), c.id = e.collection
    PROVE  /\ c \in collections /\ c.vector_type = type
           /\ c.name \in Allowed => Shown(e, c) \in Facts(collections, rows)
  <1>1. PICK d \in collections : d.id = e.collection /\ d.vector_type = type
    BY RowsAre
  <1>2. d = c
    BY <1>1 DEF Known
  <1> QED
    BY <1>1, <1>2, FactsAre

LEMMA FoundStep ==
    ASSUME TablesInv, Current, FoundInv, [Next]_vars
    PROVE  FoundInv'
  <1>0. (\A c : Known(c) => Known(c)') /\ (\A e : KnownRow(e) => KnownRow(e)')
    BY KnownStays
  <1>1. CASE found' = {}
    BY <1>1 DEF FoundInv
  <1>2. CASE found' = found /\ (pc' = "halfvec" => pc = "halfvec") /\ seen \subseteq seen'
    <2>1. \A e \in found : \E c \in Collection :
             /\ Known(c)' /\ c.id = e.collection
             /\ pc' = "halfvec" => c.vector_type = "vector"
             /\ c.name \in Allowed => Shown(e, c) \in seen'
      BY <1>0, <1>2 DEF FoundInv
    <2> QED
      BY <1>0, <1>2, <2>1 DEF FoundInv
  <1>3. ASSUME pc # "idle", NEW type, NEW e \in VisibleRows(collections, rows, type)
        PROVE  /\ KnownRow(e)
               /\ \E c \in Collection : /\ Known(c) /\ c.id = e.collection /\ c.vector_type = type
                                        /\ c.name \in Allowed => Shown(e, c) \in seen
    <2>1. PICK c \in collections : c.id = e.collection /\ c.vector_type = type
      BY StoredAreKnown
    <2>2. c \in Collection /\ Known(c)
      BY StoredAreKnown DEF TablesInv
    <2> QED
      BY <1>3, <2>1, <2>2, RowInKnown, StoredAreKnown DEF Current
  <1>4. ASSUME NEW type, NEW e \in VisibleRows(collections, rows, type),
               NEW f \in VisibleRows(collections, rows, type), e.id = f.id
        PROVE  e = f
    BY <1>4, RowsAre
  <1>5. CASE FetchVector
    <2>1. /\ found' = Asked /\ pc # "idle" /\ pc' = "halfvec" /\ seen' = seen
          /\ Asked \subseteq VisibleRows(collections, rows, "vector")
      BY <1>5 DEF FetchVector, Goto, Asked
    <2>2. \A e, f \in found' : e.id = f.id => e = f
      BY <1>4, <2>1
    <2>3. \A e \in found' : KnownRow(e)' /\ \E c \in Collection :
             /\ Known(c)' /\ c.id = e.collection /\ c.vector_type = "vector"
             /\ c.name \in Allowed => Shown(e, c) \in seen'
      <3> SUFFICES ASSUME NEW e \in found'
                   PROVE  KnownRow(e)' /\ \E c \in Collection :
                            /\ Known(c)' /\ c.id = e.collection /\ c.vector_type = "vector"
                            /\ c.name \in Allowed => Shown(e, c) \in seen'
        OBVIOUS
      <3> QED
        BY <1>0, <1>3, <2>1
    <2> QED
      BY <2>2, <2>3 DEF FoundInv
  <1>6. CASE FetchHalfvec
    <2>1. /\ found' = found \cup AskedHalf /\ pc = "halfvec" /\ pc' = "collections" /\ seen' = seen
          /\ AskedHalf \subseteq VisibleRows(collections, rows, "halfvec")
      BY <1>6 DEF FetchHalfvec, Goto, AskedHalf
    <2>2. ASSUME NEW e \in found, NEW f \in AskedHalf
          PROVE  e.id # f.id
      <3>1. PICK c \in Collection : Known(c) /\ c.id = e.collection /\ c.vector_type = "vector"
        BY <2>1 DEF FoundInv
      <3>2. PICK d \in collections : d.id = f.collection /\ d.vector_type = "halfvec"
        BY <2>1, StoredAreKnown
      <3>3. rows[f.id] \notin {None, Gone} /\ rows[f.id].collection = f.collection
        BY <2>1, RowsAre DEF Embedding
      <3>4. e.id = f.id => e.collection = f.collection
        BY <3>3 DEF FoundInv, KnownRow
      <3> QED
        BY <3>1, <3>2, <3>4 DEF Known
    <2>3. \A e, f \in found' : e.id = f.id => e = f
      BY <1>4, <2>1, <2>2 DEF FoundInv
    <2>4. \A e \in found' : KnownRow(e)' /\ \E c \in Collection :
             /\ Known(c)' /\ c.id = e.collection
             /\ c.name \in Allowed => Shown(e, c) \in seen'
      <3> SUFFICES ASSUME NEW e \in found'
                   PROVE  KnownRow(e)' /\ \E c \in Collection :
                            /\ Known(c)' /\ c.id = e.collection
                            /\ c.name \in Allowed => Shown(e, c) \in seen'
        OBVIOUS
      <3>1. CASE e \in found
        BY <1>0, <2>1, <3>1 DEF FoundInv
      <3>2. CASE e \in AskedHalf
        BY <1>0, <1>3, <2>1, <3>2
      <3> QED
        BY <2>1, <3>1, <3>2
    <2> QED
      BY <2>1, <2>3, <2>4 DEF FoundInv
  <1>7. CASE (\E r \in Requests : Begin(r)) \/ Return
    BY <1>1, <1>7 DEF Begin, Return
  <1>8. CASE Middle /\ ~FetchVector /\ ~FetchHalfvec
    <2>1. found' = found /\ pc' # "halfvec" /\ seen' = seen
      BY <1>8 DEF Middle, FetchCollections, Lookup, FetchOrdered, LookupNext,
             ListForSearch, Search, FetchPage, Goto, Answer
    <2> QED
      BY <1>2, <2>1
  <1>9. CASE Others \/ UNCHANGED vars
    BY <1>2, <1>9, OthersKeep DEF reader
  <1> QED
    BY <1>5, <1>6, <1>7, <1>8, <1>9, StepIs

LEMMA ByNameIs ==
    ASSUME TablesInv, NEW n, ByName(n) # {}
    PROVE  \E c \in collections : /\ c.name = n /\ c.name \in Allowed
                                  /\ ByName(n) = {c} /\ SetToSeq(ByName(n)) = <<c>>
  <1>1. PICK c : c \in ByName(n)
    OBVIOUS
  <1>2. \A d : d \in ByName(n) <=> d \in collections /\ d.name \in Allowed /\ d.name = n
    BY DEF ByName, VisibleCollections
  <1>3. ByName(n) = {c}
    BY <1>1, <1>2 DEF TablesInv
  <1> QED
    BY <1>1, <1>2, <1>3, SingleToSeq

LEMMA VisibleSorted ==
    ASSUME TablesInv
    PROVE  LET V == VisibleCollections(collections)
           IN  Sorts(NamesInOrder(V), V, [c \in V |-> c.name])
  <1> DEFINE V == VisibleCollections(collections)
  <1>1. V \in SUBSET collections
    BY DEF VisibleCollections
  <1>2. IsFiniteSet(V)
    BY <1>1, FS_Subset DEF TablesInv
  <1>3. (\A c \in V : c.name \in Int) /\ \A c, d \in V : c.name = d.name => c = d
    BY <1>1, OrderAssumption DEF TablesInv, Collection
  <1> HIDE DEF V
  <1>4. Sorts(NamesInOrder(V), V, [c \in V |-> c.name])
    BY <1>2, <1>3, NamesSorted
  <1> QED
    BY <1>4 DEF V

\* The collections a search without names is about.
LEMMA ListedForSearchIs ==
    ASSUME TablesInv
    PROVE  /\ ListedForSearch \in Seq(VisibleCollections(collections))
           /\ Len(ListedForSearch) <= MaxSearched =>
                 VisibleCollections(collections) \subseteq Range(ListedForSearch)
  <1> DEFINE V == VisibleCollections(collections)
             L == NamesInOrder(V)
             s == ListedForSearch
  <1>1. L \in Seq(V) /\ DOMAIN L = 1..Len(L) /\ \A c \in V : \E k \in DOMAIN L : L[k] = c
    BY VisibleSorted DEF Sorts
  <1>2. PICK z \in Nat, m \in Nat : z = 0 /\ m = MaxSearched + 1
    BY LimitsAssumption
  <1>3. s = Slice(L, z, m)
    BY <1>2 DEF ListedForSearch
  <1> HIDE DEF V, L, s
  <1>4. L \in Seq(V) /\ Len(L) \in Nat
    BY <1>1
  <1>5. /\ s \in Seq(V)
        /\ Len(L) <= z => Len(s) = 0
        /\ z < Len(L) /\ Len(L) <= z + m => Len(s) = Len(L) - z
        /\ z + m < Len(L) => Len(s) = m
        /\ \A k \in 1..Len(s) : z + k \in DOMAIN L /\ s[k] = L[z + k]
    <2>1. IsSlice(s, L, V, z, m)
      BY <1>3, <1>4, SliceOf
    <2> QED
      BY <2>1 DEF IsSlice
  <1>6. ASSUME Len(s) <= MaxSearched, NEW c \in V
        PROVE  c \in Range(s)
    <2>1. Len(s) = Len(L)
      BY <1>2, <1>4, <1>5, <1>6, LimitsAssumption
    <2>2. PICK k \in 1..Len(L) : L[k] = c
      BY <1>1
    <2>3. s[k] = c /\ k \in DOMAIN s
      BY <1>2, <1>5, <2>1, <2>2
    <2> QED
      BY <2>3 DEF Range
  <1> QED
    BY <1>5, <1>6 DEF V, s

LEMMA HeldStep ==
    ASSUME TablesInv, HeldInv, ControlInv, [Next]_vars
    PROVE  HeldInv'
  <1>0. \A c : Known(c) => Known(c)'
    BY KnownStays
  <1>1. CASE \E r \in Requests : Begin(r)
    <2>1. PICK r \in Requests : Begin(r)
      BY <1>1
    <2>2. /\ held' = <<>> /\ req' = r /\ pc' # "fetch"
          /\ pc' = "page" => r.op = "collections"
          /\ pc' = "names" => r.names # None
      BY <2>1 DEF Begin
    <2>3. Len(<<>>) = 0 /\ <<>> \in Seq(Collection) /\ DOMAIN <<>> = {}
      OBVIOUS
    <2>4. pc' = "names" => Len(r.names) \in Nat
      BY <2>2, RequestAssumption
    <2> QED
      BY <2>2, <2>3, <2>4 DEF HeldInv
  <1>2. CASE Return
    <2>1. held' = <<>> /\ pc' = "idle"
      BY <1>2 DEF Return
    <2>2. Len(<<>>) = 0 /\ <<>> \in Seq(Collection) /\ DOMAIN <<>> = {}
      OBVIOUS
    <2> QED
      BY <2>1, <2>2 DEF HeldInv
  <1>3. ASSUME held' = held, pc' \in {"fetch", "page", "names"} => pc' = pc /\ req' = req
        PROVE  HeldInv'
    BY <1>0, <1>3 DEF HeldInv
  <1>4. CASE Others \/ UNCHANGED vars
    BY <1>3, <1>4, OthersKeep DEF reader
  <1>5. CASE FetchVector \/ FetchHalfvec \/ FetchCollections \/ FetchOrdered \/ Search
    <2>1. held' = held /\ pc' \notin {"fetch", "page", "names"}
      BY <1>5 DEF FetchVector, FetchHalfvec, FetchCollections, FetchOrdered, Search, Goto, Answer
    <2> QED
      BY <1>3, <2>1
  <1>6. CASE FetchPage
    <2>1. held' = held /\ req' = req /\ pc' \in {"page", "lookup", "done"} /\ pc = "page"
      BY <1>6 DEF FetchPage, Answer
    <2> QED
      BY <1>3, <2>1
  <1>7. CASE Lookup
    <2>1. CASE ByName(req.name) = {}
      BY <1>3, <1>7, <2>1 DEF Lookup, Answer
    <2>2. CASE ByName(req.name) # {}
      <3>1. PICK c \in collections : c.name = req.name /\ c.name \in Allowed /\ SetToSeq(ByName(req.name)) = <<c>>
        BY <2>2, ByNameIs
      <3>2. held' = <<c>> /\ req' = req /\ pc' \in {"fetch", "page"}
        BY <1>7, <2>2, <3>1 DEF Lookup, Goto
      <3>3. c \in Collection /\ Known(c)'
        BY <1>0, StoredAreKnown DEF TablesInv
      <3>4. <<c>> \in Seq(Collection) /\ Len(<<c>>) = 1 /\ DOMAIN <<c>> = {1} /\ <<c>>[1] = c
        BY <3>3
      <3> QED
        BY <3>1, <3>2, <3>3, <3>4 DEF HeldInv
    <2> QED
      BY <2>1, <2>2
  <1>8. CASE LookupNext
    <2>1. CASE pc' # "names"
      BY <1>3, <1>8, <2>1 DEF LookupNext, Answer, Goto
    <2>2. CASE pc' = "names"
      <3> DEFINE n == req.names[Len(held) + 1]
      <3>1. /\ pc = "names" /\ req' = req /\ Len(held) # Len(req.names)
            /\ ByName(n) # {} /\ held' = held \o SetToSeq(ByName(n))
        BY <1>8, <2>2 DEF LookupNext, Answer, Goto
      <3>2. PICK c \in collections : c.name = n /\ c.name \in Allowed /\ SetToSeq(ByName(n)) = <<c>>
        BY <3>1, ByNameIs
      <3>3. c \in Collection /\ Known(c)'
        BY <1>0, StoredAreKnown DEF TablesInv
      <3>4. held \in Seq(Collection) /\ Len(held) <= Len(req.names) /\ Len(held) \in Nat
        BY <3>1 DEF HeldInv
      <3>5. Len(req.names) \in Nat
        BY <3>1, RequestAssumption DEF ControlInv
      <3>6. /\ held' \in Seq(Collection) /\ Len(held') = Len(held) + 1
            /\ DOMAIN held' = 1..(Len(held) + 1) /\ DOMAIN held = 1..Len(held)
            /\ \A j \in 1..Len(held) : held'[j] = held[j]
            /\ held'[Len(held) + 1] = c
        BY <3>1, <3>2, <3>3, <3>4
      <3>7. \A j \in DOMAIN held : \A d : d = held[j] =>
               Known(d)' /\ d.name \in Allowed /\ d.name = req.names[j]
        BY <1>0, <3>1 DEF HeldInv
      <3> HIDE DEF n
      <3>8. \A j \in DOMAIN held' : j \in DOMAIN held \/ j = Len(held) + 1
        BY <3>4, <3>6
      <3>9. ASSUME NEW j \in DOMAIN held', NEW d, d = held'[j]
            PROVE  Known(d)' /\ d.name \in Allowed /\ d.name = req.names[j]
        <4>1. CASE j \in DOMAIN held
          <5>1. held'[j] = held[j]
            BY <3>6, <4>1
          <5> QED
            BY <3>7, <3>9, <4>1, <5>1
        <4>2. CASE j = Len(held) + 1
          <5>1. held'[j] = c
            BY <3>6, <4>2
          <5> QED
            BY <3>2, <3>3, <3>9, <4>2, <5>1 DEF n
        <4> QED
          BY <3>8, <4>1, <4>2
      <3>10. Len(held') <= Len(req.names)
        BY <3>1, <3>4, <3>5, <3>6
      <3> QED
        BY <2>2, <3>1, <3>6, <3>9, <3>10 DEF HeldInv
    <2> QED
      BY <2>1, <2>2
  <1>9. CASE ListForSearch
    <2>1. CASE held' = held
      BY <1>3, <1>9, <2>1 DEF ListForSearch, Answer, Goto
    <2>2. CASE held' # held
      <3>1. held' = ListedForSearch /\ pc' = "search"
        BY <1>9, <2>2 DEF ListForSearch, Answer, Goto
      <3> DEFINE V == VisibleCollections(collections)
      <3>2. \A c \in V : c \in Collection /\ Known(c)' /\ c.name \in Allowed
        BY <1>0, StoredAreKnown DEF TablesInv, VisibleCollections
      <3> HIDE DEF V
      <3>3. held' \in Seq(V)
        BY <3>1, ListedForSearchIs DEF V
      <3>4. held' \in Seq(Collection) /\ \A j \in DOMAIN held' : held'[j] \in V
        BY <3>2, <3>3
      <3> QED
        BY <3>1, <3>2, <3>4 DEF HeldInv
    <2> QED
      BY <2>1, <2>2
  <1> QED
    BY <1>1, <1>2, <1>4, <1>5, <1>6, <1>7, <1>8, <1>9, StepIs DEF Middle

LEMMA RowsSorted ==
    ASSUME NEW type, NEW es \in SUBSET VisibleRows(collections, rows, type)
    PROVE  Sorts(IdsInOrder(es), es, [e \in es |-> e.id])
  <1> DEFINE id == [e \in es |-> e.id]
  <1>1. \A e \in es : e.id \in Uuids /\ e = Embedding(rows, e.id)
    BY RowsAre
  <1>2. id \in Injection(es, Uuids)
    BY <1>1 DEF Injection, IsInjective
  <1>3. IsFiniteSet(es)
    BY <1>2, OrderAssumption, FS_Injection
  <1>4. (\A e \in es : e.id \in Int) /\ \A e, f \in es : e.id = f.id => e = f
    BY <1>1, OrderAssumption
  <1> QED
    BY <1>3, <1>4, IdsSorted

\* The rows of a collection known are facts.
LEMMA RowsOfKnown ==
    ASSUME TablesInv, NEW c, Known(c), c.name \in Allowed
    PROVE  \A e \in RowsOf(c) : c \in collections /\ Shown(e, c) \in Facts(collections, rows)
  BY RowInKnown DEF RowsOf

LEMMA ListingIs ==
    ASSUME TablesInv, HeldInv, ControlInv, pc = "page"
    PROVE  Listing \in Seq(Facts(collections, rows))
  <1> DEFINE F == Facts(collections, rows)
             V == VisibleCollections(collections)
             N == NamesInOrder(V)
  <1>1. CASE req.op = "collections"
    <2>1. N \in Seq(V) /\ Len(N) \in Nat /\ DOMAIN N = 1..Len(N)
      BY VisibleSorted DEF Sorts
    <2>2. \A c \in V : Listed(c) \in F
      BY FactsAre DEF VisibleCollections
    <2>3. Listing = [k \in DOMAIN N |-> Listed(N[k])]
      BY <1>1 DEF Listing
    <2> HIDE DEF F, V, N
    <2>4. Listing \in [1..Len(N) -> F]
      BY <2>1, <2>2, <2>3
    <2> QED
      BY <2>1, <2>4 DEF F
  <1>2. CASE req.op # "collections"
    <2> DEFINE c == held[1]
               es == IdsInOrder(RowsOf(c))
    <2>1. req.op = "embeddings"
      BY <1>2, RequestAssumption DEF ControlInv, StepsOf
    <2>2. Known(c) /\ c.name \in Allowed
      BY <2>1 DEF HeldInv
    <2>3. es \in Seq(RowsOf(c)) /\ Len(es) \in Nat /\ DOMAIN es = 1..Len(es)
      <3>1. RowsOf(c) \in SUBSET VisibleRows(collections, rows, c.vector_type)
        BY DEF RowsOf
      <3> QED
        BY <3>1, RowsSorted DEF Sorts
    <2>4. \A e \in RowsOf(c) : Shown(e, c) \in F
      BY <2>2, RowsOfKnown
    <2>5. Listing = [k \in DOMAIN es |-> Shown(es[k], c)]
      BY <1>2 DEF Listing, RowsOf
    <2> HIDE DEF F, c, es
    <2>6. Listing \in [1..Len(es) -> F]
      BY <2>3, <2>4, <2>5
    <2> QED
      BY <2>3, <2>6 DEF F
  <1> QED
    BY <1>1, <1>2

LEMMA AnswerTrue ==
    ASSUME NEW items, answer'.items = items, items \in Seq(Range(items)), page' \in Nat \ {0},
           \A k \in DOMAIN items : items[k].fact \in seen'
    PROVE  AnswerInv'
  BY DEF AnswerInv, Shows

\* A bulk answer shows what was fetched in a collection that is held.
LEMMA BulkTrue ==
    ASSUME ControlInv, pc \in {"collections", "fetch"}, NEW es, NEW cs,
           \A e, f \in es : e.id = f.id => e = f,
           \A e \in es, c \in cs : c.id = e.collection => Shown(e, c) \in seen
    PROVE  LET items == InRequestOrder(es, cs)
           IN  items \in Seq(Range(items)) /\ \A k \in DOMAIN items : items[k].fact \in seen
  <1> DEFINE items == InRequestOrder(es, cs)
  <1>1. req.ids \in Seq(Range(req.ids))
    BY RequestAssumption DEF ControlInv
  <1>2. IsBulk(items, es, cs)
    BY <1>1, BulkInOrder
  <1> HIDE DEF items
  <1>3. items \in Seq(Range(items)) /\ \A k \in DOMAIN items : items[k].fact \in seen
    BY <1>2 DEF IsBulk, HeldById
  <1> QED
    BY <1>3 DEF items

LEMMA AnswerStep ==
    ASSUME TruthInv, [Next]_vars
    PROVE  AnswerInv'
  <1> USE DEF TruthInv
  <1>1. ASSUME answer'.items = <<>>, page' \in Nat \ {0}
        PROVE  AnswerInv'
    <2>1. <<>> \in Seq(Range(<<>>)) /\ DOMAIN <<>> = {}
      OBVIOUS
    <2> QED
      BY <1>1, <2>1, AnswerTrue
  <1>2. ASSUME answer'.items = answer.items, page' = page, seen \subseteq seen'
        PROVE  AnswerInv'
    BY <1>2 DEF AnswerInv, Shows
  <1>3. page \in Nat \ {0}
    BY DEF AnswerInv
  <1>4. CASE (\E r \in Requests : Begin(r)) \/ Return
    BY <1>1, <1>4 DEF Begin, Return, NoAnswer
  <1>5. CASE Others \/ UNCHANGED vars
    <2>1. CASE pc = "idle"
      BY <1>2, <1>5, <2>1, OthersKeep DEF reader
    <2>2. CASE pc # "idle"
      BY <1>2, <1>5, <2>2, OthersKeep DEF reader
    <2> QED
      BY <2>1, <2>2
  <1>6. CASE FetchVector \/ FetchHalfvec \/ Lookup
    BY <1>2, <1>6 DEF FetchVector, FetchHalfvec, Lookup, Goto, Answer
  <1>7. CASE LookupNext
    BY <1>1, <1>2, <1>3, <1>7 DEF LookupNext, Goto, Answer
  <1>8. CASE ListForSearch
    BY <1>1, <1>2, <1>3, <1>8 DEF ListForSearch, Goto, Answer
  <1>9. CASE FetchCollections
    <2> DEFINE cs == {c \in VisibleCollections(collections) : \E e \in found : e.collection = c.id}
    <2>1. /\ pc = "collections" /\ answer'.items = InRequestOrder(found, cs)
          /\ page' = page /\ seen' = seen
      BY <1>9 DEF FetchCollections, Answer
    <2>2. \A e, f \in found : e.id = f.id => e = f
      BY DEF FoundInv
    <2>3. ASSUME NEW e \in found, NEW c \in cs, c.id = e.collection
          PROVE  Shown(e, c) \in seen
      <3>1. c \in collections /\ c.name \in Allowed
        BY DEF VisibleCollections
      <3>2. PICK d \in Collection : Known(d) /\ d.id = e.collection /\ (d.name \in Allowed => Shown(e, d) \in seen)
        BY DEF FoundInv
      <3>3. c = d
        BY <2>3, <3>1, <3>2 DEF Known
      <3> QED
        BY <3>1, <3>2, <3>3
    <2> HIDE DEF cs
    <2> DEFINE items == InRequestOrder(found, cs)
    <2>4. items \in Seq(Range(items)) /\ \A k \in DOMAIN items : items[k].fact \in seen
      BY <2>1, <2>2, <2>3, BulkTrue
    <2> HIDE DEF items
    <2> QED
      BY <1>3, <2>1, <2>4, AnswerTrue DEF items
  <1>10. CASE FetchOrdered
    <2> DEFINE c == held[1]
               es == RowsOf(c)
    <2>1. /\ pc = "fetch" /\ answer'.items = InRequestOrder(es, {c})
          /\ page' = page /\ seen' = seen
      BY <1>10 DEF FetchOrdered, Answer, RowsOf
    <2>2. \A e, f \in es : e.id = f.id => e = f
      BY RowsAre DEF RowsOf
    <2>3. Known(c) /\ c.name \in Allowed
      BY <2>1 DEF HeldInv
    <2>4. \A e \in es, d \in {c} : d.id = e.collection => Shown(e, d) \in seen
      BY <2>1, <2>3, RowsOfKnown DEF Current
    <2> HIDE DEF c, es
    <2> DEFINE items == InRequestOrder(es, {c})
    <2>5. items \in Seq(Range(items)) /\ \A k \in DOMAIN items : items[k].fact \in seen
      BY <2>1, <2>2, <2>4, BulkTrue
    <2> HIDE DEF items
    <2> QED
      BY <1>3, <2>1, <2>5, AnswerTrue DEF items
  <1>11. CASE Search
    <2> DEFINE hits == {e \in VisibleRows(collections, rows, req.vector_type) :
                          \E c \in Targets : c.id = e.collection}
               Of(e) == CHOOSE c \in HeldById(Range(held), e.collection) : TRUE
               order == IdsInOrder(hits)
               items == [k \in DOMAIN order |-> [index |-> k, fact |-> Shown(order[k], Of(order[k]))]]
    <2>0. pc = "search" /\ (Answer(500, <<>>) \/ Answer(200, items))
      BY <1>11 DEF Search
    <2>1. pc = "search" /\ page' = page /\ seen' = seen /\ answer'.items \in {<<>>, items}
      <3> HIDE DEF items
      <3> QED
        BY <2>0 DEF Answer
    <2>2. order \in Seq(hits) /\ Len(order) \in Nat /\ DOMAIN order = 1..Len(order)
      <3>1. hits \in SUBSET VisibleRows(collections, rows, req.vector_type)
        OBVIOUS
      <3> HIDE DEF hits
      <3> QED
        BY <3>1, RowsSorted DEF Sorts
    <2>3. ASSUME NEW e \in hits
          PROVE  Shown(e, Of(e)) \in seen
      <3>1. \E c : c \in HeldById(Range(held), e.collection)
        BY DEF Targets, HeldById
      <3>2. Of(e) \in HeldById(Range(held), e.collection)
        BY <3>1
      <3> DEFINE c == Of(e)
      <3>3. c \in Range(held) /\ c.id = e.collection
        BY <3>2 DEF HeldById
      <3> HIDE DEF c
      <3>4. Known(c) /\ c.name \in Allowed
        BY <3>3 DEF HeldInv, Range
      <3>5. Shown(e, c) \in Facts(collections, rows)
        BY <3>3, <3>4, RowInKnown
      <3> QED
        BY <2>1, <3>5 DEF Current, c
    <2> HIDE DEF hits, Of, order
    <2>4. /\ items \in Seq(Range(items)) /\ DOMAIN items = DOMAIN order
          /\ \A k \in DOMAIN items : items[k].fact = Shown(order[k], Of(order[k])) /\ order[k] \in hits
      <3>1. DOMAIN items = 1..Len(order)
        BY <2>2
      <3>2. items \in [1..Len(order) -> Range(items)]
        BY <3>1 DEF Range
      <3> QED
        BY <2>2, <3>1, <3>2
    <2> HIDE DEF items
    <2>5. CASE answer'.items = items
      BY <1>3, <2>1, <2>3, <2>4, <2>5, AnswerTrue
    <2> QED
      BY <1>1, <1>3, <2>1, <2>5
  <1>12. CASE FetchPage
    <2> DEFINE now == Slice(Listing, (page - 1) * PageSize, PageSize)
               more == [k \in DOMAIN now |-> [index |-> page, fact |-> now[k]]]
               items == answer.items \o more
               F == Facts(collections, rows)
    <2>0. /\ pc = "page"
          /\ \/ Answer(200, items)
             \/ answer' = [status |-> 0, items |-> items] /\ page' = page + 1 /\ seen' = seen
      BY <1>12 DEF FetchPage
    <2>1. pc = "page" /\ page' \in {page, page + 1} /\ seen' = seen /\ answer'.items = items
      <3> HIDE DEF items
      <3> QED
        BY <2>0 DEF Answer
    <2>2. (page - 1) * PageSize \in Nat /\ PageSize \in Nat
      BY <1>3, LimitsAssumption
    <2>3. Listing \in Seq(F)
      BY <2>1, ListingIs
    <2>4. IsSlice(now, Listing, F, (page - 1) * PageSize, PageSize)
      BY <2>2, <2>3, SliceOf
    <2>5. now \in Seq(F)
      BY <2>4 DEF IsSlice
    <2> HIDE DEF now, F
    <2>6. more \in Seq(Range(more)) /\ Len(more) = Len(now) /\ DOMAIN more = 1..Len(more)
          /\ \A k \in DOMAIN more : more[k].fact \in F
      <3>1. DOMAIN more = 1..Len(now) /\ Len(now) \in Nat
        BY <2>5
      <3>2. more \in [1..Len(now) -> Range(more)]
        BY <3>1 DEF Range
      <3> QED
        BY <2>5, <3>1, <3>2
    <2> HIDE DEF more
    <2>7. F \subseteq seen
      BY <2>1 DEF Current, F
    <2>8. answer.items \in Seq(Range(answer.items)) /\ \A k \in DOMAIN answer.items : answer.items[k].fact \in seen
      BY DEF AnswerInv, Shows
    <2>9. items \in Seq(Range(items)) /\ \A k \in DOMAIN items : items[k].fact \in seen
      <3> DEFINE a == answer.items
      <3>1. a \in Seq(Range(a)) /\ \A k \in DOMAIN a : a[k].fact \in seen
        BY <2>8
      <3> HIDE DEF a
      <3>2. /\ Len(a) \in Nat /\ Len(more) \in Nat
            /\ items = a \o more
            /\ a \in Seq(Range(a) \cup Range(more)) /\ more \in Seq(Range(a) \cup Range(more))
        BY <2>6, <3>1 DEF a
      <3> HIDE DEF items
      <3>3. /\ items \in Seq(Range(a) \cup Range(more))
            /\ Len(items) = Len(a) + Len(more) /\ DOMAIN items = 1..Len(items)
            /\ \A k \in 1..Len(a) : items[k] = a[k]
            /\ \A k \in (Len(a) + 1)..Len(items) : items[k] = more[k - Len(a)]
        BY <3>2
      <3>4. ASSUME NEW k \in DOMAIN items
            PROVE  items[k].fact \in seen
        <4>1. CASE k \in 1..Len(a)
          <5>1. DOMAIN a = 1..Len(a)
            BY <3>1
          <5> QED
            BY <3>1, <3>3, <4>1, <5>1
        <4>2. CASE k \in (Len(a) + 1)..Len(items)
          <5>1. items[k] = more[k - Len(a)] /\ k - Len(a) \in 1..Len(more)
            BY <3>2, <3>3, <4>2
          <5> QED
            BY <2>6, <2>7, <5>1
        <4> QED
          BY <3>2, <3>3, <4>1, <4>2
      <3>5. items \in [1..Len(items) -> Range(a) \cup Range(more)] /\ Len(items) \in Nat
        BY <3>3
      <3>6. \A k \in 1..Len(items) : items[k] \in Range(items)
        BY <3>3 DEF Range
      <3>7. items \in [1..Len(items) -> Range(items)]
        BY <3>5, <3>6
      <3> QED
        BY <3>4, <3>5, <3>7
    <2>10. page' \in Nat \ {0}
      BY <1>3, <2>1
    <2> HIDE DEF items
    <2> QED
      BY <2>1, <2>9, <2>10, AnswerTrue
  <1> QED
    BY <1>4, <1>5, <1>6, <1>7, <1>8, <1>9, <1>10, <1>11, <1>12, StepIs DEF Middle

\* get_embeddings_bulk_unknown_collections, search_across_collections and the
\* walks through pages join what several transactions fetched; none shows an
\* embedding, its content and its collection that were never together, whatever
\* is deleted, recreated or moved between two of the transactions.
THEOREM AnswersTruthful == Spec => []AnswersAreTruthful
  <1>1. Init => TruthInv
    BY TablesInit DEF Init, TruthInv, Current, FoundInv, HeldInv, ControlInv, AnswerInv, Shows, NoAnswer, Range
  <1>2. TruthInv /\ [Next]_vars => TruthInv'
    BY KnownStays, CurrentStep, FoundStep, HeldStep, ControlStep, AnswerStep DEF TruthInv
  <1>3. TruthInv => AnswersAreTruthful
    BY DEF TruthInv, AnswerInv, AnswersAreTruthful
  <1> QED
    BY <1>1, <1>2, <1>3, PTL DEF Spec

-----------------------------------------------------------------------------
(* What was there all along is not missed.                                  *)

\* A fact that was there all along is there now.
LEMMA AlwaysIsNow ==
    ASSUME Current, pc # "idle", NEW f \in always, f.embedding # None
    PROVE  /\ f.collection \in collections /\ f.collection.name \in Allowed
           /\ f.embedding \in VisibleRows(collections, rows, f.collection.vector_type)
           /\ f.embedding.collection = f.collection.id
           /\ f = Shown(f.embedding, f.collection)
           /\ f.collection \in ByName(f.collection.name)
  <1>1. f \in Facts(collections, rows)
    BY DEF Current
  <1>2. /\ f.collection \in collections /\ f.collection.name \in Allowed
        /\ f.embedding \in VisibleRows(collections, rows, f.collection.vector_type)
        /\ f.embedding.collection = f.collection.id
        /\ f = Shown(f.embedding, f.collection)
    BY <1>1, FactOfEmbedding
  <1> QED
    BY <1>2 DEF ByName, VisibleCollections

LEMMA FetchedStep ==
    ASSUME TruthInv, FetchedInv, [Next]_vars
    PROVE  FetchedInv'
  <1> USE DEF TruthInv
  <1>1. ASSUME pc' \notin {"halfvec", "collections", "fetch", "names", "search"}
        PROVE  FetchedInv'
    BY <1>1 DEF FetchedInv
  <1>2. CASE \E r \in Requests : Begin(r)
    <2>1. held' = <<>> /\ pc' \notin {"halfvec", "collections", "fetch", "search"}
      BY <1>2 DEF Begin
    <2>2. DOMAIN <<>> = {}
      OBVIOUS
    <2> QED
      BY <2>1, <2>2 DEF FetchedInv
  <1>3. CASE Return
    BY <1>1, <1>3 DEF Return
  <1>4. CASE Others \/ UNCHANGED vars
    <2>1. always' \subseteq always /\ UNCHANGED <<req, pc, found, held>>
      BY <1>4, OthersKeep DEF reader
    <2>2. \A f : AskedFor(f)' <=> AskedFor(f)
      BY <2>1 DEF AskedFor
    <2> QED
      BY <2>1, <2>2 DEF FetchedInv
  <1>5. ASSUME Middle
        PROVE  /\ pc # "idle" /\ always' = always /\ req' = req
               /\ \A f : AskedFor(f)' => AskedFor(f) /\ f.embedding # None
    BY <1>5, MiddleKeeps DEF AskedFor
  <1>6. CASE FetchVector
    <2>1. pc = "vector" /\ pc' = "halfvec" /\ found' = Asked /\ Middle
      BY <1>6 DEF FetchVector, Goto, Middle
    <2>2. req.op = "bulk"
      BY <2>1, RequestAssumption DEF ControlInv, StepsOf
    <2>3. ASSUME NEW f \in always, AskedFor(f), f.embedding # None, f.collection.vector_type = "vector"
          PROVE  f.embedding \in Asked
      BY <1>5, <2>1, <2>2, <2>3, AlwaysIsNow DEF Asked, AskedFor
    <2> QED
      BY <1>5, <2>1, <2>3 DEF FetchedInv
  <1>7. CASE FetchHalfvec
    <2>1. pc = "halfvec" /\ pc' = "collections" /\ found' = found \cup AskedHalf /\ Middle
      BY <1>7 DEF FetchHalfvec, Goto, Middle
    <2>2. req.op = "bulk"
      BY <2>1, RequestAssumption DEF ControlInv, StepsOf
    <2>3. ASSUME NEW f \in always, AskedFor(f), f.embedding # None
          PROVE  f.embedding \in found \cup AskedHalf
      <3>1. /\ f.collection \in collections
            /\ f.embedding \in VisibleRows(collections, rows, f.collection.vector_type)
        BY <1>5, <2>1, <2>3, AlwaysIsNow
      <3>2. f.collection.vector_type \in {"vector", "halfvec"}
        BY <3>1 DEF TablesInv, Collection, Types
      <3>3. f.embedding.id \in Range(req.ids)
        BY <2>2, <2>3 DEF AskedFor
      <3>4. f.collection.vector_type = "vector" => f.embedding \in found
        BY <2>1, <2>3 DEF FetchedInv
      <3> QED
        BY <3>1, <3>2, <3>3, <3>4 DEF AskedHalf
    <2> QED
      BY <1>5, <2>1, <2>3 DEF FetchedInv
  <1>8. CASE Lookup
    <2>1. CASE ByName(req.name) = {}
      BY <1>1, <1>8, <2>1 DEF Lookup, Answer
    <2>2. CASE ByName(req.name) # {}
      <3>1. PICK c \in collections : /\ c.name = req.name
                                     /\ ByName(req.name) = {c} /\ SetToSeq(ByName(req.name)) = <<c>>
        BY <2>2, ByNameIs
      <3>2. /\ held' = <<c>> /\ Middle
            /\ pc' = IF req.op = "bulk_in" THEN "fetch" ELSE "page"
        BY <1>8, <2>2, <3>1 DEF Lookup, Goto, Middle
      <3>3. <<c>>[1] = c
        OBVIOUS
      <3>4. CASE req.op = "bulk_in"
        <4>1. pc' = "fetch" /\ held'[1] = c
          BY <3>2, <3>3, <3>4
        <4>2. ASSUME NEW f \in always, AskedFor(f), f.embedding # None
              PROVE  f.collection = c
          <5>1. f.collection.name = req.name
            BY <3>4, <4>2 DEF AskedFor
          <5> QED
            BY <1>5, <3>1, <3>2, <4>2, <5>1, AlwaysIsNow
        <4> QED
          BY <1>5, <3>2, <4>1, <4>2 DEF FetchedInv
      <3>5. CASE req.op # "bulk_in"
        BY <1>1, <3>2, <3>5
      <3> QED
        BY <3>4, <3>5
    <2> QED
      BY <2>1, <2>2
  <1>9. CASE LookupNext
    <2> DEFINE n == req.names[Len(held) + 1]
    <2>1. \/ pc' = "done"
          \/ pc = "names" /\ pc' = "search" /\ Len(held) = Len(req.names) /\ UNCHANGED held
          \/ pc = "names" /\ pc' = "names" /\ ByName(n) # {} /\ held' = held \o SetToSeq(ByName(n))
      BY <1>9 DEF LookupNext, Answer, Goto
    <2>2. Middle
      BY <1>9 DEF Middle
    <2>3. CASE pc' = "done"
      BY <1>1, <2>3
    <2>4. CASE pc = "names" /\ pc' = "search" /\ Len(held) = Len(req.names) /\ UNCHANGED held
      <3>1. req.op = "search" /\ req.names # None
        BY <2>4, RequestAssumption DEF ControlInv, StepsOf
      <3>2. req.names \in Seq(Range(req.names)) /\ held \in Seq(Collection)
        BY <2>4, <3>1, RequestAssumption DEF ControlInv, HeldInv
      <3>3. DOMAIN req.names = DOMAIN held
        BY <2>4, <3>2
      <3>4. ASSUME NEW f \in always, AskedFor(f)
            PROVE  f.collection \in Range(held)
        <4>1. f.collection.name \in Range(req.names)
          BY <3>1, <3>4 DEF AskedFor
        <4>2. PICK j \in DOMAIN held : req.names[j] = f.collection.name
          BY <3>3, <4>1 DEF Range
        <4>3. f.collection = held[j]
          BY <2>4, <3>4, <4>2 DEF FetchedInv
        <4> QED
          BY <4>3 DEF Range
      <3> QED
        BY <1>5, <2>2, <2>4, <3>4 DEF FetchedInv
    <2>5. CASE pc = "names" /\ pc' = "names" /\ ByName(n) # {} /\ held' = held \o SetToSeq(ByName(n))
      <3>1. PICK c \in collections : ByName(n) = {c} /\ SetToSeq(ByName(n)) = <<c>>
        BY <2>5, ByNameIs
      <3>2. held \in Seq(Collection) /\ c \in Collection
        BY DEF HeldInv, TablesInv
      <3>3. /\ DOMAIN held' = 1..(Len(held) + 1) /\ DOMAIN held = 1..Len(held) /\ Len(held) \in Nat
            /\ \A j \in 1..Len(held) : held'[j] = held[j]
            /\ held'[Len(held) + 1] = c
        <4>1. held' = held \o <<c>>
          BY <2>5, <3>1
        <4>2. held' \in Seq(Collection) /\ Len(held') = Len(held) + 1
          BY <3>2, <4>1
        <4> QED
          BY <3>2, <4>1, <4>2
      <3>4. ASSUME NEW f \in always, AskedFor(f), f.embedding # None,
                   NEW j \in DOMAIN held', f.collection.name = req.names[j]
            PROVE  f.collection = held'[j]
        <4>1. CASE j \in 1..Len(held)
          <5>1. held'[j] = held[j] /\ j \in DOMAIN held
            BY <3>3, <4>1
          <5> QED
            BY <2>5, <3>4, <5>1 DEF FetchedInv
        <4>2. CASE j = Len(held) + 1
          <5>1. f.collection \in ByName(n)
            BY <1>5, <2>2, <3>4, <4>2, AlwaysIsNow
          <5> QED
            BY <3>1, <3>3, <4>2, <5>1
        <4>3. j \in 1..Len(held) \/ j = Len(held) + 1
          BY <3>3
        <4> QED
          BY <4>1, <4>2, <4>3
      <3> QED
        BY <1>5, <2>2, <2>5, <3>4 DEF FetchedInv
    <2> QED
      BY <2>1, <2>3, <2>4, <2>5
  <1>10. CASE ListForSearch
    <2>1. CASE pc' # "search"
      BY <1>1, <1>10, <2>1 DEF ListForSearch, Answer, Goto
    <2>2. CASE pc' = "search"
      <3>1. held' = ListedForSearch /\ ~(Len(ListedForSearch) > MaxSearched) /\ Middle
        BY <1>10, <2>2 DEF ListForSearch, Answer, Goto, Middle
      <3>2. Len(ListedForSearch) <= MaxSearched
        <4>1. Len(ListedForSearch) \in Nat
          BY ListedForSearchIs
        <4> QED
          BY <3>1, <4>1, LimitsAssumption
      <3>3. VisibleCollections(collections) \subseteq Range(held')
        BY <3>1, <3>2, ListedForSearchIs
      <3>4. ASSUME NEW f \in always, f.embedding # None
            PROVE  f.collection \in Range(held')
        BY <1>5, <3>1, <3>3, <3>4, AlwaysIsNow DEF VisibleCollections
      <3> QED
        BY <1>5, <2>2, <3>1, <3>4 DEF FetchedInv
    <2> QED
      BY <2>1, <2>2
  <1>11. CASE FetchCollections \/ FetchOrdered \/ Search
    BY <1>1, <1>11 DEF FetchCollections, FetchOrdered, Search, Answer
  <1>12. CASE FetchPage
    BY <1>1, <1>12 DEF FetchPage, Answer
  <1> QED
    BY <1>2, <1>3, <1>4, <1>6, <1>7, <1>8, <1>9, <1>10, <1>11, <1>12, StepIs DEF Middle

\* A bulk answer has a fact at every position that asks for it.
LEMMA BulkFull ==
    ASSUME ControlInv, pc \in {"collections", "fetch"}, NEW es, NEW cs,
           \A e, f \in es : e.id = f.id => e = f,
           NEW f, f = Shown(f.embedding, f.collection), f.embedding \in es,
           HeldById(cs, f.embedding.collection) = {f.collection}
    PROVE  LET items == InRequestOrder(es, cs)
           IN  \A i \in DOMAIN req.ids : req.ids[i] = f.embedding.id =>
                  \E k \in DOMAIN items : items[k] = [index |-> i, fact |-> f]
  <1> DEFINE items == InRequestOrder(es, cs)
  <1>1. req.ids \in Seq(Range(req.ids))
    BY RequestAssumption DEF ControlInv
  <1>2. IsBulk(items, es, cs)
    BY <1>1, BulkInOrder
  <1> HIDE DEF items
  <1>3. ASSUME NEW i \in DOMAIN req.ids, req.ids[i] = f.embedding.id
        PROVE  \E k \in DOMAIN items : items[k] = [index |-> i, fact |-> f]
    <2>1. f.embedding.id = req.ids[i] /\ HeldById(cs, f.embedding.collection) # {}
      BY <1>3
    <2>2. PICK k \in DOMAIN items : \E c \in HeldById(cs, f.embedding.collection) :
             items[k] = [index |-> i, fact |-> Shown(f.embedding, c)]
      BY <1>2, <2>1 DEF IsBulk
    <2>3. items[k] = [index |-> i, fact |-> Shown(f.embedding, f.collection)]
      BY <2>2
    <2> QED
      BY <2>3
  <1> QED
    BY <1>3 DEF items

LEMMA CompleteStep ==
    ASSUME TruthInv, FetchedInv, AnswersAreComplete, [Next]_vars
    PROVE  AnswersAreComplete'
  <1> USE DEF TruthInv
  <1>1. ASSUME pc' # "done"
        PROVE  AnswersAreComplete'
    BY <1>1 DEF AnswersAreComplete
  <1>2. ASSUME answer'.status # 200
        PROVE  AnswersAreComplete'
    BY <1>2 DEF AnswersAreComplete
  <1>3. CASE (\E r \in Requests : Begin(r)) \/ Return
    <2>1. pc' # "done"
      BY <1>3 DEF Begin, Return
    <2> QED
      BY <1>1, <2>1
  <1>4. CASE Others \/ UNCHANGED vars
    <2>1. CASE pc = "done"
      <3>1. UNCHANGED <<always, pc, req, answer>>
        BY <1>4, <2>1, OthersKeep DEF reader
      <3>2. (\A f : AskedFor(f)' <=> AskedFor(f)) /\ Shows' = Shows
        BY <3>1 DEF AskedFor, Shows
      <3> QED
        BY <3>1, <3>2 DEF AnswersAreComplete
    <2>2. CASE pc # "done"
      BY <1>1, <1>4, <2>2, OthersKeep DEF reader
    <2> QED
      BY <2>1, <2>2
  <1>5. ASSUME Middle
        PROVE  /\ pc # "idle" /\ always' = always /\ req' = req
               /\ \A f : AskedFor(f)' => AskedFor(f) /\ f.embedding # None
    BY <1>5, MiddleKeeps DEF AskedFor
  \* It is enough to find what was asked for in the answer.
  <1>6. ASSUME Middle, \A f \in always : AskedFor(f) /\ f.embedding # None =>
                  \E k \in DOMAIN answer'.items : answer'.items[k].fact = f,
               req.op \notin {"bulk", "bulk_in"}
        PROVE  AnswersAreComplete'
    BY <1>5, <1>6 DEF AnswersAreComplete, Shows
  <1>7. ASSUME Middle, req.op \in {"bulk", "bulk_in"},
               \A f \in always : AskedFor(f) /\ f.embedding # None =>
                  \A i \in DOMAIN req.ids : req.ids[i] = f.embedding.id =>
                     \E k \in DOMAIN answer'.items : answer'.items[k] = [index |-> i, fact |-> f]
        PROVE  AnswersAreComplete'
    <2>1. ASSUME NEW f \in always, AskedFor(f), f.embedding # None
          PROVE  f \in Shows'
      <3>1. PICK i \in DOMAIN req.ids : req.ids[i] = f.embedding.id
        BY <1>7, <2>1 DEF AskedFor, Range
      <3>2. PICK k \in DOMAIN answer'.items : answer'.items[k] = [index |-> i, fact |-> f]
        BY <1>7, <2>1, <3>1
      <3>3. answer'.items[k].fact = f
        BY <3>2
      <3> QED
        BY <3>3 DEF Shows
    <2> QED
      BY <1>5, <1>7, <2>1 DEF AnswersAreComplete
  <1>8. CASE FetchVector \/ FetchHalfvec
    BY <1>1, <1>8 DEF FetchVector, FetchHalfvec, Goto
  <1>9. CASE Lookup
    BY <1>1, <1>2, <1>9 DEF Lookup, Goto, Answer
  <1>10. CASE FetchCollections
    <2> DEFINE cs == {c \in VisibleCollections(collections) : \E e \in found : e.collection = c.id}
               items == InRequestOrder(found, cs)
    <2>1. pc = "collections" /\ answer'.items = items /\ Middle
      BY <1>10 DEF FetchCollections, Answer, Middle
    <2>2. req.op = "bulk"
      BY <2>1, RequestAssumption DEF ControlInv, StepsOf
    <2>3. \A e, f \in found : e.id = f.id => e = f
      BY DEF FoundInv
    <2>4. ASSUME NEW f \in always, AskedFor(f), f.embedding # None
          PROVE  \A i \in DOMAIN req.ids : req.ids[i] = f.embedding.id =>
                    \E k \in DOMAIN items : items[k] = [index |-> i, fact |-> f]
      <3>1. f.embedding \in found
        BY <2>1, <2>4 DEF FetchedInv
      <3>2. /\ f.collection \in collections /\ f.collection.name \in Allowed
            /\ f.embedding.collection = f.collection.id
            /\ f = Shown(f.embedding, f.collection)
        BY <1>5, <2>1, <2>4, AlwaysIsNow
      <3>3. f.collection \in cs
        BY <3>1, <3>2 DEF VisibleCollections
      <3>4. \A c \in cs : c.id = f.collection.id => c = f.collection
        BY <3>2 DEF VisibleCollections, TablesInv
      <3> HIDE DEF cs
      <3>5. HeldById(cs, f.embedding.collection) = {f.collection}
        BY <3>2, <3>3, <3>4 DEF HeldById
      <3> QED
        BY <2>1, <2>3, <3>1, <3>2, <3>5, BulkFull
    <2> HIDE DEF items
    <2> QED
      BY <1>7, <2>1, <2>2, <2>4
  <1>11. CASE FetchOrdered
    <2> DEFINE c == held[1]
               es == RowsOf(c)
               items == InRequestOrder(es, {c})
    <2>1. pc = "fetch" /\ answer'.items = items /\ Middle
      BY <1>11 DEF FetchOrdered, Answer, Middle, RowsOf
    <2>2. req.op = "bulk_in"
      BY <2>1, RequestAssumption DEF ControlInv, StepsOf
    <2>3. \A e, f \in es : e.id = f.id => e = f
      BY RowsAre DEF RowsOf
    <2>4. ASSUME NEW f \in always, AskedFor(f), f.embedding # None
          PROVE  \A i \in DOMAIN req.ids : req.ids[i] = f.embedding.id =>
                    \E k \in DOMAIN items : items[k] = [index |-> i, fact |-> f]
      <3>1. f.collection = c
        BY <2>1, <2>4 DEF FetchedInv
      <3>2. /\ f.embedding \in VisibleRows(collections, rows, f.collection.vector_type)
            /\ f.embedding.collection = f.collection.id
            /\ f = Shown(f.embedding, f.collection)
        BY <1>5, <2>1, <2>4, AlwaysIsNow
      <3> HIDE DEF c
      <3>3. f.embedding \in es
        BY <3>1, <3>2 DEF RowsOf
      <3>4. HeldById({c}, f.embedding.collection) = {f.collection}
        BY <3>1, <3>2 DEF HeldById
      <3> DEFINE cs == {c}
      <3>5. HeldById(cs, f.embedding.collection) = {f.collection} /\ items = InRequestOrder(es, cs)
        BY <3>4
      <3> HIDE DEF es, items, cs
      <3> QED
        BY <2>1, <2>3, <3>2, <3>3, <3>5, BulkFull
    <2> HIDE DEF items
    <2> QED
      BY <1>7, <2>1, <2>2, <2>4
  <1>12. CASE LookupNext
    <2>1. CASE pc' # "done" \/ answer'.status # 200
      BY <1>1, <1>2, <2>1
    <2>2. CASE pc' = "done" /\ answer'.status = 200
      <3>1. pc = "names" /\ Len(held) = Len(req.names) /\ held = <<>> /\ Middle
        BY <1>12, <2>2 DEF LookupNext, Answer, Goto, Middle
      <3>2. req.op = "search" /\ req.names # None
        BY <3>1, RequestAssumption DEF ControlInv, StepsOf
      <3>3. req.names \in Seq(Range(req.names)) /\ Len(req.names) = 0
        BY <3>1, <3>2, RequestAssumption DEF ControlInv
      <3>4. Range(req.names) = {}
        BY <3>3 DEF Range
      <3>5. \A f : ~AskedFor(f)
        BY <3>2, <3>4 DEF AskedFor
      <3> QED
        BY <1>6, <3>1, <3>2, <3>5
    <2> QED
      BY <2>1, <2>2
  <1>13. CASE ListForSearch
    <2>1. CASE pc' # "done" \/ answer'.status # 200
      BY <1>1, <1>2, <2>1
    <2>2. CASE pc' = "done" /\ answer'.status = 200
      <3>1. pc = "list" /\ ~(Len(ListedForSearch) > MaxSearched) /\ ListedForSearch = <<>> /\ Middle
        BY <1>13, <2>2 DEF ListForSearch, Answer, Goto, Middle
      <3>2. req.op = "search"
        BY <3>1, RequestAssumption DEF ControlInv, StepsOf
      <3>3. Range(<<>>) = {} /\ Len(<<>>) = 0
        BY DEF Range
      <3>4. VisibleCollections(collections) = {}
        BY <3>1, <3>3, ListedForSearchIs, LimitsAssumption
      <3>5. \A f \in always : f.embedding = None
        BY <1>5, <3>1, <3>4, AlwaysIsNow DEF VisibleCollections
      <3> QED
        BY <1>6, <3>1, <3>2, <3>5
    <2> QED
      BY <2>1, <2>2
  <1>14. CASE Search
    <2> DEFINE hits == {e \in VisibleRows(collections, rows, req.vector_type) :
                          \E c \in Targets : c.id = e.collection}
               Of(e) == CHOOSE c \in HeldById(Range(held), e.collection) : TRUE
               order == IdsInOrder(hits)
               items == [k \in DOMAIN order |-> [index |-> k, fact |-> Shown(order[k], Of(order[k]))]]
    <2>1. pc = "search" /\ (Answer(500, <<>>) \/ Answer(200, items)) /\ Middle
      BY <1>14 DEF Search, Middle
    <2>2. req.op = "search"
      BY <2>1, RequestAssumption DEF ControlInv, StepsOf
    <2>3. CASE answer'.status # 200
      BY <1>2, <2>3
    <2>4. CASE answer'.status = 200
      <3>1. answer'.items = items
        <4> HIDE DEF items
        <4> QED
          BY <2>1, <2>4 DEF Answer
      <3>2. \A e \in hits : \E k \in DOMAIN order : order[k] = e
        <4>1. hits \in SUBSET VisibleRows(collections, rows, req.vector_type)
          OBVIOUS
        <4> HIDE DEF hits
        <4> QED
          BY <4>1, RowsSorted DEF Sorts
      <3>3. ASSUME NEW f \in always, AskedFor(f), f.embedding # None
            PROVE  f.embedding \in hits /\ f = Shown(f.embedding, Of(f.embedding))
        <4>1. /\ f.collection \in collections
              /\ f.embedding \in VisibleRows(collections, rows, f.collection.vector_type)
              /\ f.embedding.collection = f.collection.id
              /\ f = Shown(f.embedding, f.collection)
          BY <1>5, <2>1, <3>3, AlwaysIsNow
        <4>2. f.collection \in Range(held) /\ f.collection.vector_type = req.vector_type
          BY <2>1, <2>2, <3>3 DEF FetchedInv, AskedFor
        <4>3. f.embedding \in hits
          BY <4>1, <4>2 DEF Targets
        <4>4. f.collection \in HeldById(Range(held), f.embedding.collection)
          BY <4>1, <4>2 DEF HeldById
        <4>5. \A c \in HeldById(Range(held), f.embedding.collection) : c = f.collection
          <5>1. \A c \in Range(held) : Known(c)
            BY DEF HeldInv, Range
          <5> QED
            BY <4>1, <5>1 DEF HeldById, Known
        <4>6. Of(f.embedding) = f.collection
          BY <4>4, <4>5
        <4> QED
          BY <4>1, <4>3, <4>6
      <3> HIDE DEF hits, Of, order
      <3>4. ASSUME NEW f \in always, AskedFor(f), f.embedding # None
            PROVE  \E k \in DOMAIN items : items[k].fact = f
        <4>1. PICK k \in DOMAIN order : order[k] = f.embedding
          BY <3>2, <3>3, <3>4
        <4>2. k \in DOMAIN items /\ items[k].fact = Shown(f.embedding, Of(f.embedding))
          BY <4>1
        <4> QED
          BY <3>3, <3>4, <4>2
      <3> HIDE DEF items
      <3> QED
        BY <1>6, <2>1, <2>2, <3>1, <3>4
    <2> QED
      BY <2>3, <2>4
  <1>15. CASE FetchPage
    <2>1. pc = "page" /\ Middle
      BY <1>15 DEF FetchPage, Middle
    <2>2. req.op \in {"collections", "embeddings"}
      BY <2>1, RequestAssumption DEF ControlInv, StepsOf
    <2>3. \A f : ~AskedFor(f)
      BY <2>2 DEF AskedFor
    <2> QED
      BY <1>6, <2>1, <2>2, <2>3
  <1> QED
    BY <1>3, <1>4, <1>8, <1>9, <1>10, <1>11, <1>12, <1>13, <1>14, <1>15, StepIs DEF Middle

\* What a bulk read or a search asks for and was visible all along is in its
\* answer, wherever asked for: bulk reads look in both tables, a search that is
\* answered searched every collection it was meant to.
THEOREM AnswersComplete == Spec => []AnswersAreComplete
  <1>1. Init => CompleteInv
    BY TablesInit DEF Init, CompleteInv, TruthInv, Current, FoundInv, HeldInv, ControlInv, AnswerInv, Shows,
       NoAnswer, Range, FetchedInv, AnswersAreComplete
  <1>2. CompleteInv /\ [Next]_vars => CompleteInv'
    BY KnownStays, CurrentStep, FoundStep, HeldStep, ControlStep, AnswerStep, FetchedStep, CompleteStep
       DEF CompleteInv, TruthInv
  <1>3. CompleteInv => AnswersAreComplete
    BY DEF CompleteInv
  <1> QED
    BY <1>1, <1>2, <1>3, PTL DEF Spec

-----------------------------------------------------------------------------
(* A walk that nobody disturbs.                                             *)

LEMMA RowsStep ==
    ASSUME TablesInv, RowsInv, [Next]_vars
    PROVE  RowsInv'
  <1>1. CASE UNCHANGED tables
    BY <1>1 DEF tables, RowsInv, Stored
  <1>2. ASSUME \A u \in Uuids : rows'[u] = Gone \/ rows'[u] = rows[u]
        PROVE  RowsInv'
    BY <1>2 DEF RowsInv, Stored
  <1>3. CASE Others
    <2>1. CASE \E n \in Names, type \in Types : CreateCollection(n, type)
      BY <1>2, <2>1 DEF CreateCollection
    <2>2. CASE \E c \in collections : DeleteCollection(c)
      BY <1>2, <2>2 DEF DeleteCollection
    <2>3. CASE \E u \in Uuids, c \in collections, n \in Names, x \in Contents : PutEmbedding(u, c, n, x)
      <3>1. PICK v \in Uuids, c \in collections, n \in Names, x \in Contents : PutEmbedding(v, c, n, x)
        BY <2>3
      <3>2. rows' = [rows EXCEPT ![v] = Row(c.id, n, x)] /\ c.id \in 1..MaxId
        BY <3>1 DEF PutEmbedding, TablesInv, Collection
      <3>3. \A u \in Uuids : rows'[u] = IF u = v THEN Row(c.id, n, x) ELSE rows[u]
        BY <3>2 DEF TablesInv
      <3> QED
        BY <3>2, <3>3 DEF RowsInv, Stored
    <2>4. CASE \E u \in Uuids : DeleteEmbedding(u)
      <3>1. PICK v \in Uuids : rows' = [rows EXCEPT ![v] = Gone]
        BY <2>4 DEF DeleteEmbedding
      <3>2. \A u \in Uuids : rows'[u] = IF u = v THEN Gone ELSE rows[u]
        BY <3>1 DEF TablesInv
      <3> QED
        BY <1>2, <3>2
    <2> QED
      BY <1>3, <2>1, <2>2, <2>3, <2>4 DEF Others
  <1> QED
    BY <1>1, <1>3, ReadsChangeNoTable DEF Next, vars, tables

\* A row is not nothing.
LEMMA RowIsSome ==
    ASSUME RowsInv, NEW type, NEW e \in VisibleRows(collections, rows, type)
    PROVE  e # None
  <1>1. e.id \in Uuids /\ e = Embedding(rows, e.id) /\ Stored(e.id)
    BY RowsAre DEF Stored
  <1>2. PICK id \in 1..MaxId, n \in Names, x \in Contents : rows[e.id] = Row(id, n, x)
    BY <1>1 DEF RowsInv
  <1>3. e = [id |-> e.id, collection |-> id, content |-> x]
    <2>1. Row(id, n, x).collection = id /\ Row(id, n, x).content = x
      BY DEF Row
    <2>2. Embedding(rows, e.id) = [id |-> e.id, collection |-> rows[e.id].collection, content |-> rows[e.id].content]
      BY DEF Embedding
    <2>3. rows[e.id].collection = id /\ rows[e.id].content = x
      BY <1>2, <2>1
    <2> QED
      BY <1>1, <2>2, <2>3
  <1> QED
    BY <1>1, <1>3, RowAssumption

\* What the facts say of the collections, and of the rows of each.
Told ==
    /\ \A c : c \in VisibleCollections(collections) <=>
                 \E f \in Facts(collections, rows) : f.collection = c
    /\ \A c \in VisibleCollections(collections) : \A e :
          e \in RowsOf(c) <=> e # None /\ Shown(e, c) \in Facts(collections, rows)
    /\ \A f \in Facts(collections, rows) :
          f.embedding = None => f = Listed(f.collection)

LEMMA FactsSay ==
    ASSUME RowsInv
    PROVE  Told
  <1>1. \A c : c \in VisibleCollections(collections) <=> c \in collections /\ c.name \in Allowed
    BY DEF VisibleCollections
  <1>2. \A f \in Facts(collections, rows) : f.collection \in VisibleCollections(collections)
    BY <1>1, FactsAre, ShownIs
  <1>3. \A c \in VisibleCollections(collections) :
           Listed(c) \in Facts(collections, rows) /\ Listed(c).collection = c
    BY <1>1, FactsAre, ShownIs
  <1>4. ASSUME NEW c \in VisibleCollections(collections), NEW e \in RowsOf(c)
        PROVE  e # None /\ Shown(e, c) \in Facts(collections, rows)
    BY <1>1, FactsAre, RowIsSome DEF RowsOf
  <1>5. ASSUME NEW c, NEW e, e # None, Shown(e, c) \in Facts(collections, rows)
        PROVE  e \in RowsOf(c)
    <2>1. Shown(e, c).embedding = e /\ Shown(e, c).collection = c
      BY ShownIs
    <2> QED
      BY <1>5, <2>1, FactOfEmbedding DEF RowsOf
  <1>6. ASSUME NEW f \in Facts(collections, rows), f.embedding = None
        PROVE  f = Listed(f.collection)
    <2>1. PICK c \in collections : /\ c.name \in Allowed
                                   /\ \/ f = Listed(c)
                                      \/ \E e \in VisibleRows(collections, rows, c.vector_type) : f = Shown(e, c)
      BY FactsAre
    <2>2. \A e \in VisibleRows(collections, rows, c.vector_type) : f # Shown(e, c)
      BY <1>6, ShownIs, RowIsSome
    <2> QED
      BY <2>1, <2>2, ShownIs
  <1> QED
    BY <1>2, <1>3, <1>4, <1>5, <1>6 DEF Told

\* w is the whole listing the request walks through, in order.
IsWalk(w) ==
    /\ w \in Seq(Facts(collections, rows))
    /\ \A f \in Facts(collections, rows) :
          (IF req.op = "collections" THEN f.embedding = None
           ELSE f.embedding # None /\ f.collection.name = req.name) => \E k \in DOMAIN w : w[k] = f
    /\ \A j, k \in DOMAIN w : j < k => Place(w[j]) < Place(w[k])

LEMMA WalkedIs ==
    ASSUME TablesInv, RowsInv
    PROVE  IsWalk(Walked)
  <1> DEFINE F == Facts(collections, rows)
             V == VisibleCollections(collections)
             w == Walked
  <1>1. CASE req.op = "collections"
    <2> DEFINE N == NamesInOrder(V)
               key == [c \in V |-> c.name]
    <2>1. /\ N \in Seq(V) /\ Len(N) \in Nat /\ DOMAIN N = 1..Len(N)
          /\ \A j, k \in DOMAIN N : j < k => key[N[j]] < key[N[k]]
          /\ \A c \in V : \E k \in DOMAIN N : N[k] = c
      BY VisibleSorted DEF Sorts
    <2>2. w = [k \in DOMAIN N |-> Listed(N[k])]
      BY <1>1 DEF Walked
    <2>3. \A c \in V : Listed(c) \in F /\ Place(Listed(c)) = c.name /\ key[c] = c.name
      BY <1>1, FactsAre, ShownIs DEF VisibleCollections, Place
    <2>4. \A f \in F : f.collection \in V /\ (f.embedding = None => f = Listed(f.collection))
      BY FactsSay DEF Told
    <2> HIDE DEF F, V, N, w, key
    <2>5. w \in [1..Len(N) -> F] /\ DOMAIN w = DOMAIN N
      BY <2>1, <2>2, <2>3
    <2>6. \A f \in F : f.embedding = None => \E k \in DOMAIN w : w[k] = f
      BY <2>1, <2>2, <2>4
    <2>7. ASSUME NEW j \in DOMAIN w, NEW k \in DOMAIN w, j < k
          PROVE  Place(w[j]) < Place(w[k])
      <3>1. N[j] \in V /\ N[k] \in V /\ key[N[j]] < key[N[k]]
        BY <2>1, <2>5, <2>7
      <3>2. w[j] = Listed(N[j]) /\ w[k] = Listed(N[k])
        BY <2>2, <2>5
      <3> QED
        BY <2>3, <3>1, <3>2
    <2>8. w \in Seq(F)
      BY <2>1, <2>5
    <2> QED
      BY <1>1, <2>6, <2>7, <2>8 DEF IsWalk, F, w
  <1>2. CASE req.op # "collections" /\ ByName(req.name) = {}
    <2>1. w = <<>>
      BY <1>2 DEF Walked
    <2>2. <<>> \in Seq(F) /\ DOMAIN <<>> = {}
      OBVIOUS
    <2>3. \A f \in F : f.collection.name # req.name
      BY <1>2, FactsSay DEF Told, ByName
    <2> QED
      BY <1>2, <2>1, <2>2, <2>3 DEF IsWalk
  <1>3. CASE req.op # "collections" /\ ByName(req.name) # {}
    <2> DEFINE c == CHOOSE c \in ByName(req.name) : TRUE
               R == RowsOf(c)
               es == IdsInOrder(R)
               key == [e \in R |-> e.id]
    <2>1. c \in V /\ \A d \in V : d.name = req.name => d = c
      <3>1. PICK b \in collections : ByName(req.name) = {b}
        BY <1>3, ByNameIs
      <3>2. c = b
        BY <3>1
      <3>3. \A d : d \in ByName(req.name) <=> d \in V /\ d.name = req.name
        BY DEF ByName
      <3> QED
        BY <3>1, <3>2, <3>3
    <2> HIDE DEF c
    <2>2. /\ es \in Seq(R) /\ Len(es) \in Nat /\ DOMAIN es = 1..Len(es)
          /\ \A j, k \in DOMAIN es : j < k => key[es[j]] < key[es[k]]
          /\ \A e \in R : \E k \in DOMAIN es : es[k] = e
      <3>1. R \in SUBSET VisibleRows(collections, rows, c.vector_type)
        BY DEF RowsOf
      <3> HIDE DEF R
      <3> QED
        BY <3>1, RowsSorted DEF Sorts
    <2>3. w = [k \in DOMAIN es |-> Shown(es[k], c)]
      BY <1>3 DEF Walked, c
    <2>4. \A e \in R : Shown(e, c) \in F /\ Place(Shown(e, c)) = e.id /\ key[e] = e.id
      BY <1>3, <2>1, FactsSay, ShownIs DEF Told, Place
    <2>5. ASSUME NEW f \in F, f.embedding # None, f.collection.name = req.name
          PROVE  f.embedding \in R /\ f = Shown(f.embedding, c)
      <3>1. f.collection \in V /\ f = Shown(f.embedding, f.collection)
        BY <2>5, FactOfEmbedding DEF VisibleCollections
      <3>2. f.collection = c
        BY <2>1, <2>5, <3>1
      <3> QED
        BY <2>1, <2>5, <3>1, <3>2, FactsSay DEF Told
    <2> HIDE DEF F, V, R, es, w, key
    <2>6. w \in [1..Len(es) -> F] /\ DOMAIN w = DOMAIN es
      BY <2>2, <2>3, <2>4
    <2>7. ASSUME NEW f \in F, f.embedding # None, f.collection.name = req.name
          PROVE  \E k \in DOMAIN w : w[k] = f
      <3>1. PICK k \in DOMAIN es : es[k] = f.embedding
        BY <2>2, <2>5, <2>7
      <3>2. w[k] = Shown(f.embedding, c) /\ k \in DOMAIN w
        BY <2>3, <3>1
      <3> QED
        BY <2>5, <2>7, <3>2
    <2>8. ASSUME NEW j \in DOMAIN w, NEW k \in DOMAIN w, j < k
          PROVE  Place(w[j]) < Place(w[k])
      <3>1. es[j] \in R /\ es[k] \in R /\ key[es[j]] < key[es[k]]
        BY <2>2, <2>6, <2>8
      <3>2. w[j] = Shown(es[j], c) /\ w[k] = Shown(es[k], c)
        BY <2>3, <2>6
      <3> QED
        BY <2>4, <3>1, <3>2
    <2>9. w \in Seq(F)
      BY <2>2, <2>6
    <2> QED
      BY <1>3, <2>7, <2>8, <2>9 DEF IsWalk, F, w
  <1> QED
    BY <1>1, <1>2, <1>3

\* The same of the next state.
LEMMA FactsSayNext == RowsInv' => Told'
  <1>1. RowsInv => Told
    BY FactsSay
  <1> QED
    BY <1>1, PTL

LEMMA WalkedNext == TablesInv' /\ RowsInv' => IsWalk(Walked)'
  <1>1. TablesInv /\ RowsInv => IsWalk(Walked)
    BY WalkedIs
  <1> QED
    BY <1>1, PTL

WalkedOf == \A b : ByName(req.name) = {b} /\ req.op # "collections" =>
               Walked = [k \in DOMAIN IdsInOrder(RowsOf(b)) |-> Shown(IdsInOrder(RowsOf(b))[k], b)]

LEMMA WalkedOne == WalkedOf /\ WalkedOf'
  <1>1. WalkedOf
    <2> SUFFICES ASSUME NEW b, ByName(req.name) = {b}, req.op # "collections"
                 PROVE  Walked = [k \in DOMAIN IdsInOrder(RowsOf(b)) |-> Shown(IdsInOrder(RowsOf(b))[k], b)]
      BY DEF WalkedOf
    <2>1. (CHOOSE c \in ByName(req.name) : TRUE) = b /\ ByName(req.name) # {}
      OBVIOUS
    <2> QED
      BY <2>1 DEF Walked
  <1> QED
    BY <1>1, PTL

\* While all that is visible is what was visible all along, the listing stays.
LEMMA Undisturbed ==
    ASSUME TruthInv, RowsInv, [Next]_vars, Others \/ UNCHANGED vars, pc # "idle", seen' = always'
    PROVE  seen = always /\ Walked' = Walked /\ ByName(req.name)' = ByName(req.name)
  <1> DEFINE F == Facts(collections, rows)
             G == Facts(collections', rows')
             V == VisibleCollections(collections)
  <1>1. Current /\ Current' /\ pc' = pc /\ req' = req
    BY CurrentStep, OthersKeep DEF TruthInv, reader
  <1>2. always \subseteq F /\ F \subseteq seen /\ always' \subseteq G /\ G \subseteq seen'
    BY <1>1 DEF Current
  <1>3. seen \subseteq seen' /\ always' \subseteq always
    BY OthersKeep
  <1>4. seen = always /\ F = G
    BY <1>2, <1>3
  <1>5. Told /\ Told'
    BY FactsSay, FactsSayNext, RowsStep DEF TruthInv
  <1>6. VisibleCollections(collections') = V
    BY <1>4, <1>5 DEF Told
  <1>7. \A b \in V : RowsOf(b)' = RowsOf(b)
    <2> SUFFICES ASSUME NEW b \in V
                 PROVE  RowsOf(b)' = RowsOf(b)
      OBVIOUS
    <2>1. \A e : e \in RowsOf(b) <=> e # None /\ Shown(e, b) \in F
      BY <1>5 DEF Told
    <2>2. \A e : e \in RowsOf(b)' <=> e # None /\ Shown(e, b) \in G
      BY <1>5, <1>6 DEF Told
    <2> QED
      BY <1>4, <2>1, <2>2
  <1>8. ByName(req.name)' = ByName(req.name)
    BY <1>1, <1>6 DEF ByName
  <1>9. Walked' = Walked
    <2>1. CASE req.op = "collections"
      BY <1>1, <1>6, <2>1 DEF Walked
    <2>2. CASE req.op # "collections" /\ ByName(req.name) = {}
      BY <1>1, <1>8, <2>2 DEF Walked
    <2>3. CASE req.op # "collections" /\ ByName(req.name) # {}
      <3>1. PICK b \in V : ByName(req.name) = {b}
        BY <2>3, ByNameIs DEF TruthInv, ByName
      <3>2. RowsOf(b)' = RowsOf(b) /\ ByName(req.name)' = {b} /\ (req.op # "collections")'
        BY <1>1, <1>7, <1>8, <2>3, <3>1
      <3>3. Walked = [k \in DOMAIN IdsInOrder(RowsOf(b)) |-> Shown(IdsInOrder(RowsOf(b))[k], b)]
        BY <2>3, <3>1, WalkedOne DEF WalkedOf
      <3>4. Walked' = [k \in DOMAIN IdsInOrder(RowsOf(b)') |-> Shown(IdsInOrder(RowsOf(b)')[k], b)]
        BY <3>2, WalkedOne DEF WalkedOf
      <3> QED
        BY <3>2, <3>3, <3>4
    <2> QED
      BY <2>1, <2>2, <2>3
  <1> QED
    BY <1>4, <1>8, <1>9

LEMMA ListingIsWalked ==
    ASSUME TruthInv, WalkInv, pc = "page", seen = always
    PROVE  Listing = Walked /\ req.op \in Walks
  <1>1. req.op \in {"collections", "embeddings"}
    BY RequestAssumption DEF TruthInv, ControlInv, StepsOf
  <1>2. CASE req.op = "collections"
    BY <1>1, <1>2 DEF Listing, Walked, Walks
  <1>3. CASE req.op = "embeddings"
    <2>1. held[1] \in ByName(req.name)
      BY <1>3 DEF WalkInv, Walks
    <2>2. ByName(req.name) = {held[1]}
      BY <2>1, ByNameIs DEF TruthInv
    <2>3. Walked = [k \in DOMAIN IdsInOrder(RowsOf(held[1])) |-> Shown(IdsInOrder(RowsOf(held[1]))[k], held[1])]
      BY <1>3, <2>2, WalkedOne DEF WalkedOf
    <2>4. Listing = [k \in DOMAIN IdsInOrder(RowsOf(held[1])) |-> Shown(IdsInOrder(RowsOf(held[1]))[k], held[1])]
      BY <1>3 DEF Listing, RowsOf
    <2> QED
      BY <1>3, <2>3, <2>4 DEF Walks
  <1> QED
    BY <1>1, <1>2, <1>3

\* A page more: up to the end, or a full one.
LEMMA PageAdded ==
    ASSUME TruthInv, RowsInv, WalkInv, FetchPage, seen = always
    PROVE  LET items == answer'.items
           IN  /\ items \in Seq(Range(items)) /\ Len(items) <= Len(Walked)
               /\ \A k \in DOMAIN items : items[k].fact = Walked[k]
               /\ pc' = "done" => Len(items) = Len(Walked)
               /\ pc' # "done" => page' = page + 1 /\ Len(items) = page * PageSize
               /\ pc' = "done" \/ pc' = IF req.op = "collections" THEN "page" ELSE "lookup"
  <1> DEFINE a == (page - 1) * PageSize
             L == Walked
             F == Facts(collections, rows)
             now == Slice(L, a, PageSize)
             more == [k \in DOMAIN now |-> [index |-> page, fact |-> now[k]]]
             s == answer.items
             items == s \o more
  <1>1. pc = "page"
    BY DEF FetchPage
  <1>2. Listing = L /\ req.op \in Walks
    BY <1>1, ListingIsWalked
  <1>3. L \in Seq(F)
    BY WalkedIs DEF IsWalk, TruthInv
  <1>4. page \in Nat \ {0} /\ PageSize \in Nat \ {0} /\ a \in Nat
    BY LimitsAssumption DEF TruthInv, AnswerInv
  <1>5. s \in Seq(Range(s)) /\ Len(s) = a /\ Len(s) <= Len(L) /\ \A k \in DOMAIN s : s[k].fact = L[k]
    BY <1>1, <1>2 DEF WalkInv, TruthInv, AnswerInv
  <1>6. /\ answer'.items = items
        /\ pc' = "done" <=> LastPage(now)
        /\ pc' # "done" => page' = page + 1
        /\ pc' = "done" \/ pc' = IF req.op = "collections" THEN "page" ELSE "lookup"
    <2>1. \/ LastPage(now) /\ Answer(200, items)
          \/ ~LastPage(now) /\ answer' = [status |-> 0, items |-> items] /\ page' = page + 1
                /\ pc' = IF req.op = "collections" THEN "page" ELSE "lookup"
      BY <1>2 DEF FetchPage
    <2> HIDE DEF items, now
    <2> QED
      BY <2>1 DEF Answer
  <1>7. IsSlice(now, L, F, a, PageSize)
    <2> HIDE DEF L, F, a
    <2> QED
      BY <1>3, <1>4, SliceOf
  <1>8. page * PageSize = a + PageSize
    BY <1>4
  <1> HIDE DEF a, L, F, now
  <1>9. /\ now \in Seq(F)
        /\ Len(L) <= a => Len(now) = 0
        /\ a < Len(L) /\ Len(L) <= a + PageSize => Len(now) = Len(L) - a
        /\ a + PageSize < Len(L) => Len(now) = PageSize
        /\ \A k \in 1..Len(now) : a + k \in DOMAIN L /\ now[k] = L[a + k]
    BY <1>7 DEF IsSlice
  <1>10. Len(L) \in Nat /\ Len(now) \in Nat
    BY <1>3, <1>9
  <1>11. /\ a + Len(now) <= Len(L)
         /\ LastPage(now) => a + Len(now) = Len(L)
         /\ ~LastPage(now) => Len(now) = PageSize
    BY <1>4, <1>5, <1>9, <1>10 DEF LastPage
  <1>12. /\ more \in Seq(Range(more)) /\ Len(more) = Len(now)
         /\ \A k \in 1..Len(now) : more[k].fact = L[a + k]
    <2>1. DOMAIN now = 1..Len(now)
      BY <1>9
    <2>2. DOMAIN more = 1..Len(now) /\ \A k \in 1..Len(now) : more[k].fact = now[k]
      BY <2>1
    <2>3. more \in [1..Len(now) -> Range(more)]
      BY <2>1, <2>2 DEF Range
    <2> HIDE DEF more
    <2> QED
      BY <1>9, <1>10, <2>2, <2>3
  <1> HIDE DEF more, s
  <1>13. /\ s \in Seq(Range(s) \cup Range(more)) /\ more \in Seq(Range(s) \cup Range(more))
         /\ Len(s) \in Nat /\ Len(more) \in Nat
    BY <1>5, <1>12
  <1> HIDE DEF items
  <1>14. /\ items \in Seq(Range(s) \cup Range(more))
         /\ Len(items) = Len(s) + Len(more) /\ DOMAIN items = 1..Len(items)
         /\ \A k \in 1..Len(s) : items[k] = s[k]
         /\ \A k \in (Len(s) + 1)..Len(items) : items[k] = more[k - Len(s)]
    BY <1>13 DEF items
  <1>15. ASSUME NEW k \in DOMAIN items
         PROVE  items[k].fact = L[k]
    <2>1. CASE k \in 1..Len(s)
      <3>1. DOMAIN s = 1..Len(s)
        BY <1>5
      <3> QED
        BY <1>5, <1>14, <2>1, <3>1
    <2>2. CASE k \in (Len(s) + 1)..Len(items)
      <3>1. items[k] = more[k - Len(s)] /\ k - Len(s) \in 1..Len(now) /\ a + (k - Len(s)) = k
        BY <1>4, <1>5, <1>12, <1>13, <1>14, <2>2
      <3> QED
        BY <1>12, <3>1
    <2> QED
      BY <1>13, <1>14, <2>1, <2>2
  <1>16. items \in Seq(Range(items))
    <2>1. items \in [1..Len(items) -> Range(s) \cup Range(more)] /\ Len(items) \in Nat
      BY <1>14
    <2>2. \A k \in 1..Len(items) : items[k] \in Range(items)
      BY <1>14 DEF Range
    <2> QED
      BY <2>1, <2>2
  <1>17. Len(items) = a + Len(now)
    BY <1>5, <1>12, <1>14
  <1>18. /\ Len(items) <= Len(L)
         /\ LastPage(now) => Len(items) = Len(L)
         /\ ~LastPage(now) => Len(items) = page * PageSize
    BY <1>8, <1>11, <1>17
  <1> QED
    BY <1>6, <1>15, <1>16, <1>18 DEF L

LEMMA WalkStep ==
    ASSUME TruthInv, RowsInv, WalkInv, [Next]_vars
    PROVE  WalkInv'
  <1>1. ASSUME pc' \notin {"page", "lookup"}
        PROVE  WalkInv'
    BY <1>1 DEF WalkInv
  <1>2. CASE \E r \in Requests : Begin(r)
    <2>1. PICK r \in Requests : Begin(r)
      BY <1>2
    <2>2. /\ page' = 1 /\ answer'.items = <<>> /\ req' = r
          /\ pc' = "page" => r.op = "collections"
      BY <2>1 DEF Begin, NoAnswer
    <2>3. Len(<<>>) = 0 /\ DOMAIN <<>> = {} /\ (1 - 1) * PageSize = 0
      BY LimitsAssumption
    <2>4. IsWalk(Walked)'
      BY WalkedNext, KnownStays, RowsStep DEF TruthInv
    <2>5. Len(Walked') \in Nat
      BY <2>4 DEF IsWalk
    <2> QED
      BY <2>2, <2>3, <2>5 DEF WalkInv
  <1>3. CASE Return
    BY <1>1, <1>3 DEF Return
  <1>4. CASE Others \/ UNCHANGED vars
    <2>1. pc' = pc /\ req' = req /\ page' = page /\ answer' = answer /\ held' = held
      BY <1>4, OthersKeep DEF reader
    <2>2. CASE pc = "idle" \/ seen' # always'
      BY <2>1, <2>2 DEF WalkInv
    <2>3. CASE pc # "idle" /\ seen' = always'
      <3>1. seen = always /\ Walked' = Walked /\ ByName(req.name)' = ByName(req.name)
        BY <1>4, <2>3, Undisturbed
      <3> QED
        BY <2>1, <3>1 DEF WalkInv
    <2> QED
      BY <2>2, <2>3
  <1>5. ASSUME UNCHANGED <<tables, req>>
        PROVE  Walked' = Walked /\ ByName(req.name)' = ByName(req.name)
    BY <1>5 DEF tables, Walked, ByName, RowsOf, VisibleRows, VisibleCollections, Embedding
  <1>6. CASE FetchVector \/ FetchHalfvec \/ FetchCollections \/ FetchOrdered \/ LookupNext
             \/ ListForSearch \/ Search
    BY <1>1, <1>6 DEF FetchVector, FetchHalfvec, FetchCollections, FetchOrdered, LookupNext,
          ListForSearch, Search, Goto, Answer
  <1>7. CASE Lookup
    <2>1. CASE ByName(req.name) = {}
      BY <1>1, <1>7, <2>1 DEF Lookup, Answer
    <2>2. CASE ByName(req.name) # {}
      <3>1. PICK c \in collections : ByName(req.name) = {c} /\ SetToSeq(ByName(req.name)) = <<c>>
        BY <2>2, ByNameIs DEF TruthInv
      <3>2. /\ pc = "lookup" /\ held' = <<c>>
            /\ UNCHANGED <<tables, req, page, answer, seen, always>>
        BY <1>7, <2>2, <3>1 DEF Lookup, Goto
      <3>3. held'[1] \in ByName(req.name)
        BY <3>1, <3>2
      <3> QED
        BY <1>5, <3>2, <3>3 DEF WalkInv
    <2> QED
      BY <2>1, <2>2
  <1>8. CASE FetchPage
    <2>1. pc = "page" /\ UNCHANGED <<tables, req, seen, always, held>>
      BY <1>8 DEF FetchPage, Answer
    <2>2. CASE pc' = "done" \/ seen # always
      BY <2>1, <2>2 DEF WalkInv
    <2>3. CASE pc' # "done" /\ seen = always
      <3> DEFINE items == answer'.items
      <3>1. /\ Len(items) <= Len(Walked) /\ \A k \in DOMAIN items : items[k].fact = Walked[k]
            /\ page' = page + 1 /\ Len(items) = page * PageSize
            /\ pc' = IF req.op = "collections" THEN "page" ELSE "lookup"
        BY <1>8, <2>3, PageAdded
      <3>2. page * PageSize = (page' - 1) * PageSize
        BY <3>1, LimitsAssumption DEF TruthInv, AnswerInv
      <3>3. Walked' = Walked
        BY <1>5, <2>1
      <3>4. ~(pc' = "page" /\ req'.op = "embeddings")
        BY <2>1, <3>1
      <3> HIDE DEF items
      <3>5. /\ Len(items) = (page' - 1) * PageSize /\ Len(items) <= Len(Walked')
            /\ \A k \in DOMAIN items : items[k].fact = Walked'[k]
        BY <3>1, <3>2, <3>3
      <3> QED
        BY <3>4, <3>5 DEF WalkInv, items
    <2> QED
      BY <2>2, <2>3
  <1> QED
    BY <1>2, <1>3, <1>4, <1>6, <1>7, <1>8, StepIs DEF Middle

LEMMA ExactStep ==
    ASSUME TruthInv, RowsInv, WalkInv, QuietWalksAreExact, [Next]_vars
    PROVE  QuietWalksAreExact'
  <1>1. ASSUME pc' # "done" \/ answer'.status # 200 \/ req'.op \notin Walks \/ seen' # always'
        PROVE  QuietWalksAreExact'
    BY <1>1 DEF QuietWalksAreExact
  <1>2. CASE (\E r \in Requests : Begin(r)) \/ Return
    <2>1. pc' # "done"
      BY <1>2 DEF Begin, Return
    <2> QED
      BY <1>1, <2>1
  <1>3. CASE Others \/ UNCHANGED vars
    <2>1. CASE pc = "done"
      <3>1. UNCHANGED <<seen, always, pc, req, answer>>
        BY <1>3, <2>1, OthersKeep DEF reader
      <3>2. Shows' = Shows /\ \A f : Place(f)' = Place(f)
        BY <3>1 DEF Shows, Place
      <3> QED
        BY <3>1, <3>2 DEF QuietWalksAreExact, Place
    <2>2. CASE pc # "done"
      BY <1>1, <1>3, <2>2, OthersKeep DEF reader
    <2> QED
      BY <2>1, <2>2
  <1>4. CASE FetchVector \/ FetchHalfvec
    BY <1>1, <1>4 DEF FetchVector, FetchHalfvec, Goto
  <1>5. CASE Lookup
    BY <1>1, <1>5 DEF Lookup, Goto, Answer
  <1>6. CASE FetchCollections \/ FetchOrdered \/ LookupNext \/ ListForSearch \/ Search
    <2>1. pc \in {"collections", "fetch", "names", "list", "search"} /\ req' = req
      BY <1>6 DEF FetchCollections, FetchOrdered, LookupNext, ListForSearch, Search, Goto, Answer
    <2>2. req.op \notin Walks
      BY <2>1, RequestAssumption DEF TruthInv, ControlInv, StepsOf, Walks
    <2> QED
      BY <1>1, <2>1, <2>2
  <1>7. CASE FetchPage
    <2>1. pc = "page" /\ UNCHANGED <<tables, req, seen, always>>
      BY <1>7 DEF FetchPage, Answer
    <2>2. CASE pc' # "done" \/ seen # always
      BY <1>1, <2>1, <2>2
    <2>3. CASE pc' = "done" /\ seen = always
      <3> DEFINE items == answer'.items
                 F == Facts(collections, rows)
      <3>1. /\ items \in Seq(Range(items)) /\ Len(items) = Len(Walked)
            /\ \A k \in DOMAIN items : items[k].fact = Walked[k]
        BY <1>7, <2>3, PageAdded
      <3>2. IsWalk(Walked)
        BY WalkedIs DEF TruthInv
      <3>3. DOMAIN items = DOMAIN Walked
        BY <3>1, <3>2 DEF IsWalk
      <3>4. always \subseteq F
        BY <2>1 DEF TruthInv, Current
      <3>5. req.op \in {"collections", "embeddings"}
        BY <2>1, RequestAssumption DEF TruthInv, ControlInv, StepsOf
      <3>6. ASSUME NEW f \in always,
                   IF req.op = "collections" THEN f.embedding = None
                   ELSE f.embedding # None /\ f.collection.name = req.name
            PROVE  f \in Shows'
        <4>1. PICK k \in DOMAIN Walked : Walked[k] = f
          BY <3>2, <3>4, <3>6 DEF IsWalk
        <4>2. k \in DOMAIN items /\ items[k].fact = f
          BY <3>1, <3>3, <4>1
        <4> QED
          BY <4>2 DEF Shows
      <3>7. ASSUME NEW j \in DOMAIN items, NEW k \in DOMAIN items, j < k
            PROVE  Place(items[j].fact) < Place(items[k].fact)
        <4>1. Place(Walked[j]) < Place(Walked[k])
          BY <3>2, <3>3, <3>7 DEF IsWalk
        <4> QED
          BY <3>1, <4>1
      <3>8. \A f : Place(f)' = Place(f)
        BY <2>1 DEF Place
      <3> QED
        BY <2>1, <3>5, <3>6, <3>7, <3>8 DEF QuietWalksAreExact, Place
    <2> QED
      BY <2>2, <2>3
  <1> QED
    BY <1>2, <1>3, <1>4, <1>5, <1>6, <1>7, StepIs DEF Middle

\* A walk that nobody disturbs, through the pages of list_collections or of
\* list_embeddings_in_collection, shows everything once and in order.
THEOREM WalksAreExact == Spec => []QuietWalksAreExact
  <1>1. Init => QuietInv
    BY TablesInit DEF Init, QuietInv, TruthInv, Current, FoundInv, HeldInv, ControlInv, AnswerInv, Shows,
       NoAnswer, Range, RowsInv, Stored, WalkInv, QuietWalksAreExact
  <1>2. QuietInv /\ [Next]_vars => QuietInv'
    BY KnownStays, CurrentStep, FoundStep, HeldStep, ControlStep, AnswerStep, RowsStep, WalkStep, ExactStep
       DEF QuietInv, TruthInv
  <1>3. QuietInv => QuietWalksAreExact
    BY DEF QuietInv
  <1> QED
    BY <1>1, <1>2, <1>3, PTL DEF Spec
=============================================================================
