------------------------- MODULE SymbolTableProofs -------------------------
(***************************************************************************)
(* Proofs about SymbolTable, for any names, types, number of buckets and   *)
(* of levels.                                                              *)
(*                                                                         *)
(* The chains matter only through the set of nodes they hold: the first    *)
(* part shows that the operations of the hash table are operations on that *)
(* set, as long as every node is in the bucket of its key and no key       *)
(* occurs twice.  The second part relates the nodes to the lists of the    *)
(* levels, the third one to the frame.                                     *)
(***************************************************************************)
EXTENDS SymbolTable, ListLemmas

Bucket == 0 .. NumBuckets - 1

Node == [key : Nat, value : Nat \ {0}]

\* The nodes of a table whose nodes are in the buckets of their keys.
Nodes(h) == {n \in Node : \E i \in 1 .. Len(h[Hash(n.key)]) : h[Hash(n.key)][i] = n}

Hashed(h) ==
    /\ h \in [Bucket -> Seq(Node)]
    /\ \A b \in Bucket : \A i \in 1 .. Len(h[b]) : Hash(h[b][i].key) = b
    /\ \A b \in Bucket : \A i, j \in 1 .. Len(h[b]) : h[b][i].key = h[b][j].key => i = j

-----------------------------------------------------------------------------
(* The hash table *)

LEMMA HashLemma == ASSUME NEW key \in Nat PROVE Hash(key) \in Bucket
BY SymbolAssumption DEF Hash, Bucket

\* A chain is a list of nodes.
LEMMA ChainLemma ==
    ASSUME NEW h, Hashed(h), NEW b \in Bucket
    PROVE  /\ h[b] \in Seq(Node) /\ Len(h[b]) \in Nat
           /\ \A i \in 1 .. Len(h[b]) : h[b][i] \in Node /\ h[b][i].key \in Nat
           /\ \A i \in 1 .. Len(h[b]) : h[b][i] \in Nodes(h)
<1>1. h[b] \in Seq(Node)
  BY DEF Hashed
<1>2. Len(h[b]) \in Nat /\ \A i \in 1 .. Len(h[b]) : h[b][i] \in Node
  BY <1>1, LenProperties, ElementOfSeq
<1>3. \A i \in 1 .. Len(h[b]) : h[b][i].key \in Nat
  BY <1>2 DEF Node
<1>4. \A i \in 1 .. Len(h[b]) : Hash(h[b][i].key) = b
  BY DEF Hashed
<1> QED
  BY <1>1, <1>2, <1>3, <1>4 DEF Nodes

\* Two nodes of a table have different keys.
LEMMA KeysDiffer ==
    ASSUME NEW h, Hashed(h), NEW m \in Nodes(h), NEW n \in Nodes(h), m.key = n.key
    PROVE  m = n
<1>1. m.key \in Nat /\ Hash(m.key) \in Bucket
  BY HashLemma DEF Nodes, Node
<1>2. PICK i \in 1 .. Len(h[Hash(m.key)]) : h[Hash(m.key)][i] = m
  BY DEF Nodes
<1>3. PICK j \in 1 .. Len(h[Hash(m.key)]) : h[Hash(m.key)][j] = n
  BY DEF Nodes
<1> QED
  BY <1>1, <1>2, <1>3 DEF Hashed

\* prv_find_node finds the node of a key, if there is one.
LEMMA FindNodeLemma ==
    ASSUME NEW h, Hashed(h), NEW key \in Nat
    PROVE  LET i == FindNode(h, key)
           IN  \/ /\ i = 0
                  /\ \A n \in Nodes(h) : n.key # key
               \/ /\ i \in 1 .. Len(h[Hash(key)])
                  /\ h[Hash(key)][i].key = key
                  /\ h[Hash(key)][i] \in Nodes(h)
<1> DEFINE c == h[Hash(key)]
           F == {i \in 1 .. Len(c) : c[i].key = key}
<1>1. FindNode(h, key) = IF F # {} THEN Min(F) ELSE 0
  BY DEF FindNode, SelectInSeq
<1>2. F \in SUBSET Nat
  BY HashLemma, ChainLemma
<1>3. CASE F = {}
  <2>1. \A n \in Nodes(h) : n.key # key
    BY <1>3 DEF Nodes
  <2> QED
    BY <1>1, <1>3, <2>1
<1>4. CASE F # {}
  <2>1. Min(F) \in F
    BY <1>2, <1>4, MinNat
  <2> QED
    BY <1>1, <1>4, <2>1, HashLemma, ChainLemma
<1> QED
  BY <1>3, <1>4

\* A lookup yields the value of the node of the name, 0 if there is none.
LEMMA FindLemma ==
    ASSUME NEW h, Hashed(h), NEW key \in Nat
    PROVE  /\ \A n \in Nodes(h) : n.key = key => Find(h, key) = n.value
           /\ Find(h, key) = None <=> \A n \in Nodes(h) : n.key # key
           /\ Find(h, key) = None <=> FindNode(h, key) = 0
           /\ Find(h, key) # None => [key |-> key, value |-> Find(h, key)] \in Nodes(h)
<1> DEFINE i == FindNode(h, key)
           n == h[Hash(key)][i]
<1>1. CASE /\ i = 0
           /\ \A m \in Nodes(h) : m.key # key
  BY <1>1 DEF Find, None
<1>2. CASE i \in 1 .. Len(h[Hash(key)]) /\ n.key = key /\ n \in Nodes(h)
  <2>1. i # 0 /\ Find(h, key) = n.value
    BY <1>2, HashLemma, ChainLemma DEF Find
  <2>2. n.value # None /\ n = [key |-> key, value |-> n.value]
    BY <1>2 DEF Nodes, Node, None
  <2>3. \A m \in Nodes(h) : m.key = key => m = n
    BY <1>2, KeysDiffer
  <2> QED
    BY <1>2, <2>1, <2>2, <2>3
<1> QED
  BY <1>1, <1>2, FindNodeLemma

\* Inserting a key that is not there adds one node.
LEMMA HashInsertLemma ==
    ASSUME NEW h, Hashed(h), NEW key \in Nat, NEW value \in Nat \ {0}, Find(h, key) = None
    PROVE  /\ Hashed(HashInsert(h, key, value))
           /\ Nodes(HashInsert(h, key, value)) =
                Nodes(h) \cup {[key |-> key, value |-> value]}
<1> DEFINE k == Hash(key)
           e == [key |-> key, value |-> value]
           c == <<e>> \o h[k]
           g == HashInsert(h, key, value)
<1>1. k \in Bucket /\ e \in Node /\ h \in [Bucket -> Seq(Node)]
  BY HashLemma DEF Node, Hashed
<1>2. g = [h EXCEPT ![k] = c]
  BY FindLemma DEF HashInsert
<1>3. h[k] \in Seq(Node) /\ Len(h[k]) \in Nat
  BY <1>1, ChainLemma
<1>4. /\ c \in Seq(Node)
      /\ Len(c) = Len(h[k]) + 1
      /\ c[1] = e
      /\ \A j \in 1 .. Len(h[k]) : c[j + 1] = h[k][j]
      /\ \A j \in 2 .. Len(h[k]) + 1 : c[j] = h[k][j - 1]
  BY <1>1, <1>3, PushLemma
<1> HIDE DEF c
<1>5. \A j \in 1 .. Len(c) :
         \/ j = 1 /\ c[j] = e
         \/ j # 1 /\ j - 1 \in 1 .. Len(h[k]) /\ c[j] = h[k][j - 1]
  BY <1>3, <1>4
<1>6. g[k] = c /\ \A b \in Bucket : b # k => g[b] = h[b]
  BY <1>1, <1>2
<1>7. g \in [Bucket -> Seq(Node)]
  BY <1>1, <1>2, <1>4
<1>8. \A n \in Nodes(h) : n.key # key
  BY FindLemma
<1> HIDE DEF g, k
<1>9. \A b \in Bucket : \A j \in 1 .. Len(g[b]) : Hash(g[b][j].key) = b
  <2> SUFFICES ASSUME NEW b \in Bucket, NEW j \in 1 .. Len(g[b])
               PROVE  Hash(g[b][j].key) = b
    OBVIOUS
  <2>1. CASE b # k
    BY <1>6, <2>1 DEF Hashed
  <2>2. CASE b = k
    <3>1. \A l \in 1 .. Len(h[k]) : Hash(h[k][l].key) = k
      BY <1>1 DEF Hashed
    <3>2. e.key = key /\ Hash(key) = k
      BY DEF k
    <3>3. j \in 1 .. Len(c) /\ g[b][j] = c[j]
      BY <1>6, <2>2
    <3> HIDE DEF e
    <3>4. CASE j = 1
      BY <1>5, <2>2, <3>2, <3>3, <3>4
    <3>5. CASE j # 1
      BY <1>5, <2>2, <3>1, <3>3, <3>5
    <3> QED
      BY <3>4, <3>5
  <2> QED
    BY <2>1, <2>2
<1>10. \A b \in Bucket : \A i, j \in 1 .. Len(g[b]) : g[b][i].key = g[b][j].key => i = j
  <2> SUFFICES ASSUME NEW b \in Bucket, NEW i \in 1 .. Len(g[b]), NEW j \in 1 .. Len(g[b]),
                      g[b][i].key = g[b][j].key
               PROVE  i = j
    OBVIOUS
  <2>1. CASE b # k
    BY <1>6, <2>1 DEF Hashed
  <2>2. CASE b = k
    <3>1. \A l \in 1 .. Len(h[k]) : h[k][l].key # key
      BY <1>1, <1>8, ChainLemma
    <3>2. \A l, m \in 1 .. Len(h[k]) : h[k][l].key = h[k][m].key => l = m
      BY <1>1 DEF Hashed
    <3>3. i \in 1 .. Len(c) /\ j \in 1 .. Len(c) /\ c[i].key = c[j].key /\ e.key = key
      BY <1>6, <2>2
    <3> HIDE DEF e
    <3>4. CASE i = 1 /\ j # 1
      BY <1>5, <3>1, <3>3, <3>4
    <3>5. CASE i # 1 /\ j = 1
      BY <1>5, <3>1, <3>3, <3>5
    <3>6. CASE i # 1 /\ j # 1
      <4>1. /\ i - 1 \in 1 .. Len(h[k]) /\ c[i] = h[k][i - 1]
            /\ j - 1 \in 1 .. Len(h[k]) /\ c[j] = h[k][j - 1]
        BY <1>5, <3>3, <3>6
      <4>2. i - 1 = j - 1
        BY <3>2, <3>3, <4>1
      <4> QED
        BY <1>3, <1>4, <3>3, <4>2
    <3> QED
      BY <3>4, <3>5, <3>6
  <2> QED
    BY <2>1, <2>2
<1>11. Hashed(g)
  BY <1>7, <1>9, <1>10 DEF Hashed
<1>12. ASSUME NEW n \in Nodes(g)
       PROVE  n \in Nodes(h) \cup {e}
  <2>1. PICK j \in 1 .. Len(g[Hash(n.key)]) : g[Hash(n.key)][j] = n
    BY DEF Nodes
  <2>2. n \in Node /\ Hash(n.key) \in Bucket
    BY HashLemma DEF Nodes, Node
  <2>3. CASE Hash(n.key) # k
    BY <1>6, <2>1, <2>2, <2>3 DEF Nodes
  <2>4. CASE Hash(n.key) = k
    <3>1. j \in 1 .. Len(c) /\ c[j] = n
      BY <1>6, <2>1, <2>4
    <3>2. CASE j = 1
      BY <1>5, <3>1, <3>2
    <3>3. CASE j # 1
      <4>1. j - 1 \in 1 .. Len(h[Hash(n.key)]) /\ h[Hash(n.key)][j - 1] = n
        BY <1>5, <2>4, <3>1, <3>3
      <4> QED
        BY <2>2, <4>1 DEF Nodes
    <3> QED
      BY <3>2, <3>3
  <2> QED
    BY <2>3, <2>4
<1>13. ASSUME NEW n \in Nodes(h) \cup {e}
       PROVE  n \in Nodes(g)
  <2>1. CASE n = e
    <3>1. 1 \in 1 .. Len(g[k])
      BY <1>3, <1>4, <1>6
    <3> QED
      BY <1>1, <1>4, <1>6, <2>1, <3>1 DEF Nodes, k
  <2>2. CASE n \in Nodes(h)
    <3>1. PICK j \in 1 .. Len(h[Hash(n.key)]) : h[Hash(n.key)][j] = n
      BY <2>2 DEF Nodes
    <3>2. n \in Node /\ Hash(n.key) \in Bucket
      BY <2>2, HashLemma DEF Nodes, Node
    <3>3. CASE Hash(n.key) # k
      BY <1>6, <3>1, <3>2, <3>3 DEF Nodes
    <3>4. CASE Hash(n.key) = k
      <4>1. j + 1 \in 1 .. Len(g[k]) /\ g[k][j + 1] = n
        BY <1>3, <1>4, <1>6, <3>1, <3>4
      <4> QED
        BY <3>2, <3>4, <4>1 DEF Nodes
    <3> QED
      BY <3>3, <3>4
  <2> QED
    BY <2>1, <2>2
<1> QED
  BY <1>11, <1>12, <1>13 DEF g

\* Removing a key takes its node from the table, if there is one.
LEMMA HashRemoveLemma ==
    ASSUME NEW h, Hashed(h), NEW key \in Nat
    PROVE  /\ Hashed(HashRemove(h, key))
           /\ Nodes(HashRemove(h, key)) = {n \in Nodes(h) : n.key # key}
<1> DEFINE k == Hash(key)
           r == FindNode(h, key)
           c == RemoveAt(h[k], r)
           g == HashRemove(h, key)
<1>1. k \in Bucket /\ h \in [Bucket -> Seq(Node)] /\ h[k] \in Seq(Node) /\ Len(h[k]) \in Nat
  BY HashLemma, ChainLemma DEF Hashed
<1>2. CASE r = 0
  <2>1. g = h
    BY <1>2 DEF HashRemove
  <2>2. \A n \in Nodes(h) : n.key # key
    BY <1>2, FindNodeLemma
  <2> QED
    BY <2>1, <2>2
<1>3. CASE r \in 1 .. Len(h[k]) /\ h[k][r].key = key
  <2>1. g = [h EXCEPT ![k] = c]
    BY <1>1, <1>3 DEF HashRemove
  <2>2. /\ c \in Seq(Node)
        /\ Len(c) = Len(h[k]) - 1
        /\ \A j \in 1 .. Len(h[k]) - 1 : c[j] = IF j < r THEN h[k][j] ELSE h[k][j + 1]
    BY <1>1, <1>3, RemoveAtLemma
  <2> HIDE DEF c, r, k
  <2>3. g[k] = c /\ \A b \in Bucket : b # k => g[b] = h[b]
    BY <1>1, <2>1
  <2>4. g \in [Bucket -> Seq(Node)]
    BY <1>1, <2>1, <2>2
  <2> HIDE DEF g
  \* What is left of the chain, by the places before and after.
  <2>5. \A j \in 1 .. Len(c) :
           \E m \in 1 .. Len(h[k]) :
              m # r /\ c[j] = h[k][m] /\ m = IF j < r THEN j ELSE j + 1
    <3> SUFFICES ASSUME NEW j \in 1 .. Len(c)
                 PROVE  \E m \in 1 .. Len(h[k]) :
                           m # r /\ c[j] = h[k][m] /\ m = IF j < r THEN j ELSE j + 1
      OBVIOUS
    <3>1. j \in 1 .. Len(h[k]) - 1
      BY <2>2
    <3>2. CASE j < r
      BY <1>1, <2>2, <3>1, <3>2
    <3>3. CASE ~ (j < r)
      <4>1. j + 1 \in 1 .. Len(h[k]) /\ j + 1 # r
        BY <1>1, <1>3, <3>1, <3>3
      <4> QED
        BY <2>2, <3>1, <3>3, <4>1
    <3> QED
      BY <3>2, <3>3
  <2>6. \A m \in 1 .. Len(h[k]) : m # r => \E j \in 1 .. Len(c) : c[j] = h[k][m]
    <3> SUFFICES ASSUME NEW m \in 1 .. Len(h[k]), m # r
                 PROVE  \E j \in 1 .. Len(c) : c[j] = h[k][m]
      OBVIOUS
    <3>1. CASE m < r
      <4>1. m \in 1 .. Len(h[k]) - 1
        BY <1>1, <1>3, <3>1
      <4> QED
        BY <2>2, <3>1, <4>1
    <3>2. CASE ~ (m < r)
      <4>1. m - 1 \in 1 .. Len(h[k]) - 1 /\ ~ (m - 1 < r) /\ (m - 1) + 1 = m
        BY <1>1, <1>3, <3>2
      <4> QED
        BY <2>2, <4>1
    <3> QED
      BY <3>1, <3>2
  <2>7. /\ \A m \in 1 .. Len(h[k]) : Hash(h[k][m].key) = k
        /\ \A l, m \in 1 .. Len(h[k]) : h[k][l].key = h[k][m].key => l = m
    BY <1>1 DEF Hashed
  <2>8. \A b \in Bucket : \A j \in 1 .. Len(g[b]) : Hash(g[b][j].key) = b
    <3> SUFFICES ASSUME NEW b \in Bucket, NEW j \in 1 .. Len(g[b])
                 PROVE  Hash(g[b][j].key) = b
      OBVIOUS
    <3>1. CASE b # k
      BY <2>3, <3>1 DEF Hashed
    <3>2. CASE b = k
      BY <2>3, <2>5, <2>7, <3>2
    <3> QED
      BY <3>1, <3>2
  <2>9. \A b \in Bucket : \A i, j \in 1 .. Len(g[b]) : g[b][i].key = g[b][j].key => i = j
    <3> SUFFICES ASSUME NEW b \in Bucket, NEW i \in 1 .. Len(g[b]), NEW j \in 1 .. Len(g[b]),
                        g[b][i].key = g[b][j].key
                 PROVE  i = j
      OBVIOUS
    <3>1. CASE b # k
      BY <2>3, <3>1 DEF Hashed
    <3>2. CASE b = k
      <4>1. i \in 1 .. Len(c) /\ j \in 1 .. Len(c) /\ c[i].key = c[j].key
        BY <2>3, <3>2
      <4>2. PICK l \in 1 .. Len(h[k]) : l # r /\ c[i] = h[k][l] /\ l = IF i < r THEN i ELSE i + 1
        BY <2>5, <4>1
      <4>3. PICK m \in 1 .. Len(h[k]) : m # r /\ c[j] = h[k][m] /\ m = IF j < r THEN j ELSE j + 1
        BY <2>5, <4>1
      <4>4. l = m
        BY <2>7, <4>1, <4>2, <4>3
      <4>5. i \in Nat /\ j \in Nat
        BY <4>1
      <4>6. r \in Nat
        BY <1>3
      <4> QED
        BY <4>2, <4>3, <4>4, <4>5, <4>6
    <3> QED
      BY <3>1, <3>2
  <2>10. Hashed(g)
    BY <2>4, <2>8, <2>9 DEF Hashed
  <2>11. ASSUME NEW n \in Nodes(g)
         PROVE  n \in Nodes(h) /\ n.key # key
    <3>1. PICK j \in 1 .. Len(g[Hash(n.key)]) : g[Hash(n.key)][j] = n
      BY DEF Nodes
    <3>2. n \in Node /\ Hash(n.key) \in Bucket
      BY HashLemma DEF Nodes, Node
    <3>3. CASE Hash(n.key) # k
      BY <2>3, <3>1, <3>2, <3>3 DEF Nodes, k
    <3>4. CASE Hash(n.key) = k
      <4>1. j \in 1 .. Len(c) /\ c[j] = n
        BY <2>3, <3>1, <3>4
      <4>2. PICK m \in 1 .. Len(h[k]) : m # r /\ n = h[k][m]
        BY <2>5, <4>1
      <4>3. n \in Nodes(h)
        BY <3>2, <3>4, <4>2 DEF Nodes
      <4>4. n.key # key
        BY <1>3, <2>7, <4>2
      <4> QED
        BY <4>3, <4>4
    <3> QED
      BY <3>3, <3>4
  <2>12. ASSUME NEW n \in Nodes(h), n.key # key
         PROVE  n \in Nodes(g)
    <3>1. PICK m \in 1 .. Len(h[Hash(n.key)]) : h[Hash(n.key)][m] = n
      BY DEF Nodes
    <3>2. n \in Node /\ Hash(n.key) \in Bucket
      BY HashLemma DEF Nodes, Node
    <3>3. CASE Hash(n.key) # k
      BY <2>3, <3>1, <3>2, <3>3 DEF Nodes
    <3>4. CASE Hash(n.key) = k
      <4>1. m # r
        BY <1>3, <2>12, <3>1, <3>4
      <4>2. PICK j \in 1 .. Len(c) : c[j] = n
        BY <2>6, <3>1, <3>4, <4>1
      <4> QED
        BY <2>3, <3>2, <3>4, <4>2 DEF Nodes
    <3> QED
      BY <3>3, <3>4
  <2> QED
    BY <2>10, <2>11, <2>12 DEF g
<1> QED
  BY <1>2, <1>3, FindNodeLemma

\* The names of the first n symbols of a list.
KeysTo(list, n) == {symbols[list[i]].key : i \in 1 .. n}

\* The recursion of RemoveSymbols, up to some length.
Removes(h, list, n, f) ==
    f = [m \in 0 .. n |-> IF m = 0 THEN h ELSE HashRemove(f[m - 1], symbols[list[m]].key)]

\* The recursion has a solution for every length: there is no shortest one without.
LEMMA RemovesExists ==
    ASSUME NEW h, NEW list, NEW l \in Nat
    PROVE  \E f : Removes(h, list, l, f)
<1> DEFINE T == {n \in Nat : ~ \E f : Removes(h, list, n, f)}
<1>1. SUFFICES ASSUME T # {} PROVE FALSE
  OBVIOUS
<1>2. Min(T) \in T /\ \A y \in T : Min(T) <= y
  BY <1>1, MinNat
<1> DEFINE n == Min(T)
<1> HIDE DEF n
<1>3. n \in Nat /\ n \in T
  BY <1>2 DEF n
<1>4. CASE n = 0
  <2> DEFINE f == [m \in 0 .. 0 |-> h]
  <2>1. Removes(h, list, 0, f)
    BY DEF Removes
  <2> QED
    BY <1>3, <1>4, <2>1
<1>5. CASE n # 0
  <2>1. n - 1 \in Nat /\ n - 1 \notin T
    <3>1. n - 1 \in Nat /\ ~ (n <= n - 1)
      BY <1>3, <1>5
    <3>2. \A y \in T : n <= y
      BY <1>2 DEF n
    <3> HIDE DEF T
    <3> QED
      BY <3>1, <3>2
  <2>2. PICK f : Removes(h, list, n - 1, f)
    BY <2>1
  <2> DEFINE g == [m \in 0 .. n |-> IF m = n THEN HashRemove(f[n - 1], symbols[list[n]].key)
                                             ELSE f[m]]
  <2>3. \A m \in 0 .. n : g[m] = IF m = 0 THEN h ELSE HashRemove(g[m - 1], symbols[list[m]].key)
    <3> SUFFICES ASSUME NEW m \in 0 .. n
                 PROVE  g[m] = IF m = 0 THEN h ELSE HashRemove(g[m - 1], symbols[list[m]].key)
      OBVIOUS
    <3>1. CASE m = n
      <4>1. g[m] = HashRemove(f[n - 1], symbols[list[n]].key)
        BY <3>1
      <4>2. n - 1 \in 0 .. n /\ n - 1 # n
        BY <1>3, <1>5
      <4>3. g[n - 1] = f[n - 1]
        BY <4>2
      <4> QED
        BY <1>5, <3>1, <4>1, <4>3
    <3>2. CASE m # n
      <4>1. m \in 0 .. n - 1
        BY <1>3, <3>2
      <4>2. f[m] = IF m = 0 THEN h ELSE HashRemove(f[m - 1], symbols[list[m]].key)
        BY <2>2, <4>1 DEF Removes
      <4>3. m # 0 => m - 1 \in 0 .. n /\ m - 1 # n
        BY <1>3, <4>1
      <4>4. m # 0 => g[m - 1] = f[m - 1]
        BY <4>3
      <4> QED
        BY <3>2, <4>2, <4>4
    <3> QED
      BY <3>1, <3>2
  <2>4. g = [m \in 0 .. n |-> g[m]]
    OBVIOUS
  <2> HIDE DEF g
  <2>5. Removes(h, list, n, g)
    BY <2>3, <2>4 DEF Removes
  <2> QED
    BY <1>3, <2>5
<1> QED
  BY <1>4, <1>5

\* Removing the symbols of a list takes the nodes with their names from the table.
LEMMA RemoveSymbolsLemma ==
    ASSUME NEW h, Hashed(h), NEW list, Len(list) \in Nat,
           \A i \in 1 .. Len(list) : symbols[list[i]].key \in Nat
    PROVE  /\ Hashed(RemoveSymbols(h, list))
           /\ Nodes(RemoveSymbols(h, list)) =
                {n \in Nodes(h) : n.key \notin KeysTo(list, Len(list))}
<1> DEFINE removed == CHOOSE f : Removes(h, list, Len(list), f)
<1>1. RemoveSymbols(h, list) = removed[Len(list)]
  BY DEF RemoveSymbols, Removes
<1>2. Removes(h, list, Len(list), removed)
  BY RemovesExists
<1> HIDE DEF removed
<1> DEFINE Right(n) == /\ Hashed(removed[n])
                       /\ Nodes(removed[n]) = {x \in Nodes(h) : x.key \notin KeysTo(list, n)}
           T == {n \in 0 .. Len(list) : ~ Right(n)}
<1>3. ASSUME T # {} PROVE FALSE
  <2> DEFINE n == Min(T)
  <2>0. T \in SUBSET Nat
    OBVIOUS
  <2> HIDE DEF T
  <2>1. n \in T /\ \A y \in T : n <= y
    BY <1>3, <2>0, MinNat
  <2> HIDE DEF n
  <2> USE DEF T
  <2>2. n \in 0 .. Len(list) /\ ~ Right(n)
    BY <2>1
  <2>3. CASE n = 0
    <3>1. removed[0] = h
      BY <2>2, <2>3, <1>2 DEF Removes
    <3>2. KeysTo(list, 0) = {}
      BY DEF KeysTo
    <3> QED
      BY <2>2, <2>3, <3>1, <3>2
  <2>4. CASE n # 0
    <3>1. n - 1 \in 0 .. Len(list) /\ n - 1 \notin T /\ n \in 1 .. Len(list)
      BY <2>1, <2>2, <2>4
    <3>2. Right(n - 1)
      BY <3>1
    <3>3. removed[n] = HashRemove(removed[n - 1], symbols[list[n]].key)
      BY <1>2, <2>2, <2>4 DEF Removes
    <3>4. /\ Hashed(removed[n])
          /\ Nodes(removed[n]) = {x \in Nodes(removed[n - 1]) : x.key # symbols[list[n]].key}
      <4> DEFINE g == removed[n - 1]
                 k == symbols[list[n]].key
      <4>1. Hashed(g) /\ k \in Nat
        BY <3>1, <3>2
      <4> HIDE DEF g, k
      <4>2. /\ Hashed(HashRemove(g, k))
            /\ Nodes(HashRemove(g, k)) = {x \in Nodes(g) : x.key # k}
        BY <4>1, HashRemoveLemma
      <4> QED
        BY <3>3, <4>2 DEF g, k
    <3>5. KeysTo(list, n) = KeysTo(list, n - 1) \cup {symbols[list[n]].key}
      <4>1. \A i : i \in 1 .. n <=> i \in 1 .. n - 1 \/ i = n
        BY <3>1
      <4> QED
        BY <4>1 DEF KeysTo
    <3> QED
      BY <2>2, <3>2, <3>4, <3>5
  <2> QED
    BY <2>3, <2>4
<1>4. Len(list) \in 0 .. Len(list)
  OBVIOUS
<1>5. Right(Len(list))
  BY <1>3, <1>4
<1> QED
  BY <1>1, <1>5

-----------------------------------------------------------------------------
(* The inductive invariant *)

Level == 0 .. MaxLevels - 1

Symbol == [key : Nat, loc : Nat, size : Nat, inReg : BOOLEAN]

\* TypeOK, but for the nodes of the table.
Kinds ==
    /\ level \in 0 .. MaxDepth
    /\ levels \in [Level -> Seq(DOMAIN symbols)]
    /\ \A l \in Level : l > level => levels[l] = <<>>
    /\ allocated \in Nat
    /\ tmpCount \in Nat
    /\ symbols \in Seq(Symbol)

\* A node has the name of its symbol, which some level lists.  Its key is a name
\* of the program or the number of a temporary that was made.
Named ==
    \A n \in Nodes(buckets) :
        /\ n.value \in DOMAIN symbols /\ symbols[n.value].key = n.key
        /\ \E l \in Level : n.value \in Listed(l)
        /\ n.key \in Names \cup 0 .. tmpCount - 1

\* What a level lists is in the table under its name ...
Found ==
    \A l \in Level : \A s \in Listed(l) :
        [key |-> symbols[s].key, value |-> s] \in Nodes(buckets)

\* ... and no other level lists it.
Once == \A l, k \in Level : l # k => Listed(l) \cap Listed(k) = {}

\* The numbers of the temporaries never reach the names of the program.
Counted == tmpCount <= Len(symbols) /\ Len(symbols) <= MaxSymbols

IInv ==
    /\ Kinds
    /\ Hashed(buckets)
    /\ Named
    /\ Found
    /\ Once
    /\ Counted
    /\ FrameSound

LEMMA SymbolsLemma ==
    ASSUME Kinds
    PROVE  /\ Len(symbols) \in Nat /\ DOMAIN symbols = 1 .. Len(symbols)
           /\ \A s \in 1 .. Len(symbols) :
                 /\ symbols[s] \in Symbol /\ symbols[s].key \in Nat
                 /\ symbols[s].loc \in Nat /\ symbols[s].size \in Nat
                 /\ symbols[s].inReg \in BOOLEAN
<1>1. symbols \in Seq(Symbol)
  BY DEF Kinds
<1>2. /\ Len(symbols) \in Nat /\ DOMAIN symbols = 1 .. Len(symbols)
      /\ \A s \in 1 .. Len(symbols) : symbols[s] \in Symbol
  BY <1>1, LenProperties, ElementOfSeq
<1> QED
  BY <1>2 DEF Symbol

LEMMA ListedLemma ==
    ASSUME Kinds, NEW l \in Level
    PROVE  /\ levels[l] \in Seq(1 .. Len(symbols)) /\ Len(levels[l]) \in Nat
           /\ Listed(l) \subseteq 1 .. Len(symbols)
           /\ \A i \in 1 .. Len(levels[l]) : levels[l][i] \in Listed(l)
           /\ \A s \in Listed(l) : \E i \in 1 .. Len(levels[l]) : levels[l][i] = s
<1>1. levels[l] \in Seq(1 .. Len(symbols))
  BY SymbolsLemma DEF Kinds
<1> QED
  BY <1>1, LenProperties, ToSetLemma DEF Listed

\* The invariant is what the runs check, and more.
LEMMA IInvType == IInv => TypeOK
<1> SUFFICES ASSUME IInv PROVE TypeOK
  OBVIOUS
<1>1. ASSUME NEW b \in Bucket
      PROVE  buckets[b] \in Seq([key : Nat, value : DOMAIN symbols])
  <2>1. /\ buckets[b] \in Seq(Node)
        /\ \A i \in 1 .. Len(buckets[b]) : buckets[b][i] \in Node /\ buckets[b][i] \in Nodes(buckets)
    BY ChainLemma DEF IInv
  <2>2. \A i \in 1 .. Len(buckets[b]) : buckets[b][i] \in [key : Nat, value : DOMAIN symbols]
    BY <2>1 DEF IInv, Named, Node
  <2> QED
    BY <2>1, <2>2, SeqOfElements
<1>2. buckets \in [Bucket -> Seq([key : Nat, value : DOMAIN symbols])]
  BY <1>1 DEF IInv, Hashed
<1>3. DOMAIN levels = Level
  BY DEF IInv, Kinds
<1> QED
  BY <1>2, <1>3 DEF IInv, Kinds, TypeOK, Bucket, Level, Symbol

LEMMA IInvTable == IInv => TableMatchesScopes
<1> SUFFICES ASSUME IInv PROVE TableMatchesScopes
  OBVIOUS
<1>1. DOMAIN levels = Level /\ DOMAIN buckets = Bucket
  BY DEF IInv, Kinds, Hashed
<1>2. ASSUME NEW l \in Level, NEW s \in Listed(l)
      PROVE  Find(buckets, symbols[s].key) = s
  <2> DEFINE key == symbols[s].key
             n == [key |-> key, value |-> s]
  <2>1. n \in Nodes(buckets) /\ key \in Nat
    BY ListedLemma, SymbolsLemma DEF IInv, Found
  <2>2. n.key = key /\ n.value = s
    OBVIOUS
  <2> HIDE DEF n, key
  <2>3. \A m \in Nodes(buckets) : m.key = key => Find(buckets, key) = m.value
    BY <2>1, FindLemma DEF IInv
  <2> QED
    BY <2>1, <2>2, <2>3 DEF key
<1>3. ASSUME NEW b \in Bucket, NEW i \in DOMAIN buckets[b]
      PROVE  \E l \in Level : buckets[b][i].value \in Listed(l)
  <2>1. buckets[b] \in Seq(Node) /\ DOMAIN buckets[b] = 1 .. Len(buckets[b])
    BY ChainLemma, LenProperties DEF IInv
  <2>2. buckets[b][i] \in Nodes(buckets)
    BY <2>1, ChainLemma DEF IInv
  <2> QED
    BY <2>2 DEF IInv, Named
<1> QED
  BY <1>1, <1>2, <1>3, IInvType DEF TableMatchesScopes

LEMMA InitIInv == Init => IInv
<1> SUFFICES ASSUME Init PROVE IInv
  OBVIOUS
<1> USE DEF Init
<1>1. symbols = <<>> /\ Len(symbols) = 0 /\ DOMAIN symbols = {} /\ symbols \in Seq(Symbol)
  OBVIOUS
<1>2. Kinds
  <2>1. levels \in [Level -> Seq(DOMAIN symbols)]
    BY <1>1 DEF Level
  <2> QED
    BY <1>1, <2>1, SymbolAssumption DEF Kinds, Level
<1>3. \A b \in Bucket : buckets[b] = <<>> /\ Len(buckets[b]) = 0
  BY DEF Bucket
<1>4. Hashed(buckets)
  BY <1>3 DEF Hashed, Bucket
<1>5. Nodes(buckets) = {}
  <2> SUFFICES ASSUME NEW n \in Nodes(buckets) PROVE FALSE
    OBVIOUS
  <2>1. Hash(n.key) \in Bucket
    BY HashLemma DEF Nodes, Node
  <2>2. PICK i \in 1 .. Len(buckets[Hash(n.key)]) : TRUE
    BY DEF Nodes
  <2> HIDE DEF Init
  <2> QED
    BY <1>3, <2>1, <2>2
<1>6. \A l \in Level : Listed(l) = {}
  BY DEF Listed, ToSet, Level
<1>7. FrameSound
  BY <1>1 DEF FrameSound, InFrame
<1> QED
  BY <1>1, <1>2, <1>4, <1>5, <1>6, <1>7, SymbolAssumption DEF IInv, Named, Found, Once, Counted

-----------------------------------------------------------------------------
(* The steps keep it *)

\* The place of a variable is past what is allocated, whatever the alignment.
LEMMA AlignedLemma ==
    ASSUME NEW n \in Nat, NEW align \in Nat \ {0}
    PROVE  Aligned(n, align) \in Nat /\ Aligned(n, align) >= n
<1> DEFINE x == n + align - 1
           q == x \div align
<1>1. x \in Nat /\ q \in Int /\ align * q <= x /\ x < align * (q + 1)
  OBVIOUS
<1>2. q * align = align * q /\ align * (q + 1) = align * q + align /\ align * q \in Int
  BY <1>1
<1>3. Aligned(n, align) = q * align
  BY DEF Aligned
<1> HIDE DEF q
<1>4. n <= align * q
  BY <1>1, <1>2
<1> QED
  BY <1>2, <1>3, <1>4

\* A name that is not in the table is nobody's, neither a node's nor a symbol's
\* that is listed.
LEMMA FreshName ==
    ASSUME IInv, NEW key \in Nat, Lookup(key) = None
    PROVE  /\ \A n \in Nodes(buckets) : n.key # key
           /\ \A l \in Level : \A s \in Listed(l) : symbols[s].key # key
<1>1. \A n \in Nodes(buckets) : n.key # key
  BY FindLemma DEF IInv, Lookup
<1> QED
  BY <1>1 DEF IInv, Found

\* The number of the next temporary is no name in the table.
LEMMA FreshTemporary ==
    ASSUME IInv
    PROVE  tmpCount \in Nat /\ Lookup(tmpCount) = None
<1>1. tmpCount \in Nat /\ Len(symbols) \in Nat
  BY SymbolsLemma DEF IInv, Kinds
<1>2. tmpCount \notin Names
  BY <1>1, SymbolAssumption DEF IInv, Counted
<1>3. \A n \in Nodes(buckets) : n.key # tmpCount
  BY <1>1, <1>2 DEF IInv, Named
<1> QED
  BY <1>1, <1>3, FindLemma DEF IInv, Lookup

\* A new symbol, in a register or past what was allocated.
AddsSymbol(key, loc, size, inReg, lvl) ==
    /\ symbols' = Append(symbols, [key |-> key, loc |-> loc, size |-> size, inReg |-> inReg])
    /\ levels' = [levels EXCEPT ![lvl] = Append(@, Len(symbols) + 1)]
    /\ buckets' = HashInsert(buckets, key, Len(symbols) + 1)

\* What that does to the symbols, of which there are n, the levels and the table.
AddedSymbol(key, loc, size, inReg, lvl, n) ==
    /\ symbols' \in Seq(Symbol) /\ Len(symbols') = n + 1
    /\ DOMAIN symbols' = 1 .. n + 1
    /\ \A s \in 1 .. n : symbols'[s] = symbols[s]
    /\ symbols'[n + 1] = [key |-> key, loc |-> loc, size |-> size, inReg |-> inReg]
    /\ levels' \in [Level -> Seq(1 .. n + 1)]
    /\ \A l \in Level \ {lvl} : levels'[l] = levels[l] /\ Listed(l)' = Listed(l)
    /\ Listed(lvl)' = Listed(lvl) \cup {n + 1}
    /\ Hashed(buckets')
    /\ Nodes(buckets') = Nodes(buckets) \cup {[key |-> key, value |-> n + 1]}

LEMMA AddedLemma ==
    ASSUME IInv, NEW key \in Nat, NEW loc \in Nat, NEW size \in Nat, NEW inReg \in BOOLEAN,
           NEW lvl \in Level, NEW n \in Nat, n = Len(symbols),
           AddsSymbol(key, loc, size, inReg, lvl), Lookup(key) = None
    PROVE  AddedSymbol(key, loc, size, inReg, lvl, n)
<1> DEFINE e == [key |-> key, loc |-> loc, size |-> size, inReg |-> inReg]
<1>1. n \in Nat /\ symbols \in Seq(Symbol) /\ e \in Symbol
  BY SymbolsLemma DEF IInv, Kinds, Symbol
<1>2. symbols' = Append(symbols, e)
  BY DEF AddsSymbol
<1> HIDE DEF e
<1>3. /\ symbols' \in Seq(Symbol) /\ Len(symbols') = n + 1
      /\ \A s \in 1 .. n : symbols'[s] = symbols[s]
      /\ symbols'[n + 1] = e
  BY <1>1, <1>2, AppendProperties
<1>4. DOMAIN symbols' = 1 .. n + 1
  BY <1>3, LenProperties
<1>5. \A l \in Level : levels[l] \in Seq(1 .. n + 1)
  <2> SUFFICES ASSUME NEW l \in Level PROVE levels[l] \in Seq(1 .. n + 1)
    OBVIOUS
  <2>1. levels[l] \in Seq(1 .. n) /\ 1 .. n \subseteq 1 .. n + 1
    BY <1>1, ListedLemma DEF IInv
  <2> QED
    BY <2>1, SeqMonotonic
<1>6. n + 1 \in 1 .. n + 1
  BY <1>1
<1>7. /\ Append(levels[lvl], n + 1) \in Seq(1 .. n + 1)
      /\ ToSet(Append(levels[lvl], n + 1)) = ToSet(levels[lvl]) \cup {n + 1}
  BY <1>5, <1>6, AppendProperties, ToSetAppend
<1>8. levels' = [levels EXCEPT ![lvl] = Append(levels[lvl], n + 1)] /\ DOMAIN levels = Level
  BY DEF AddsSymbol, IInv, Kinds
<1>9. levels' \in [Level -> Seq(1 .. n + 1)]
  BY <1>5, <1>7, <1>8
<1>10. /\ \A l \in Level \ {lvl} : levels'[l] = levels[l]
       /\ levels'[lvl] = Append(levels[lvl], n + 1)
  BY <1>8
<1>11. /\ \A l \in Level \ {lvl} : Listed(l)' = Listed(l)
       /\ Listed(lvl)' = Listed(lvl) \cup {n + 1}
  BY <1>7, <1>10 DEF Listed
<1>12. /\ Hashed(HashInsert(buckets, key, n + 1))
       /\ Nodes(HashInsert(buckets, key, n + 1)) =
            Nodes(buckets) \cup {[key |-> key, value |-> n + 1]}
  BY <1>1, HashInsertLemma DEF IInv, Lookup
<1>13. buckets' = HashInsert(buckets, key, n + 1)
  BY DEF AddsSymbol
<1> QED
  BY <1>1, <1>3, <1>4, <1>9, <1>10, <1>11, <1>12, <1>13 DEF AddedSymbol, e

LEMMA AddIInv ==
    ASSUME IInv, NEW key \in Nat, NEW loc \in Nat, NEW size \in Nat, NEW inReg \in BOOLEAN,
           NEW lvl \in Level, lvl <= level, NEW n \in Nat, n = Len(symbols),
           AddsSymbol(key, loc, size, inReg, lvl),
           Lookup(key) = None, n < MaxSymbols, level' = level,
           tmpCount' \in Nat, tmpCount <= tmpCount', tmpCount' <= n + 1,
           key \in Names \cup 0 .. tmpCount' - 1,
           allocated' \in Nat, allocated <= allocated',
           ~inReg => allocated <= loc /\ loc + size <= allocated'
    PROVE  IInv'
<1>0. n = Len(symbols)
  OBVIOUS
<1> DEFINE e == [key |-> key, loc |-> loc, size |-> size, inReg |-> inReg]
           node == [key |-> key, value |-> n + 1]
<1>1. /\ symbols' \in Seq(Symbol) /\ Len(symbols') = n + 1
      /\ DOMAIN symbols' = 1 .. n + 1
      /\ \A s \in 1 .. n : symbols'[s] = symbols[s]
      /\ symbols'[n + 1] = e
      /\ levels' \in [Level -> Seq(1 .. n + 1)]
      /\ \A l \in Level \ {lvl} : levels'[l] = levels[l] /\ Listed(l)' = Listed(l)
      /\ Listed(lvl)' = Listed(lvl) \cup {n + 1}
      /\ Hashed(buckets')
      /\ Nodes(buckets') = Nodes(buckets) \cup {node}
  <2>1. AddedSymbol(key, loc, size, inReg, lvl, n)
    BY AddedLemma
  <2> QED
    BY <2>1 DEF AddedSymbol
<1>2. e.key = key /\ e.loc = loc /\ e.size = size /\ e.inReg = inReg
  OBVIOUS
<1>3. node.key = key /\ node.value = n + 1
  OBVIOUS
<1>4. \A l \in Level : Listed(l) \subseteq 1 .. n
  BY <1>0, ListedLemma DEF IInv
<1>5. level \in Nat /\ tmpCount \in Nat /\ allocated \in Nat /\ MaxSymbols \in Nat /\ n < MaxSymbols
  BY <1>0, SymbolAssumption DEF IInv, Kinds
<1>6. DOMAIN symbols = 1 .. n
  BY <1>0, SymbolsLemma DEF IInv
<1> HIDE DEF e, node
<1>7. Kinds'
  <2>1. \A l \in Level : l > level => levels'[l] = <<>>
    BY <1>1, <1>5 DEF IInv, Kinds, Level
  <2> QED
    BY <1>1, <2>1 DEF IInv, Kinds
<1>8. Named'
  <2> SUFFICES ASSUME NEW x \in Nodes(buckets')
               PROVE  /\ x.value \in 1 .. n + 1 /\ symbols'[x.value].key = x.key
                      /\ \E l \in Level : x.value \in Listed(l)'
                      /\ x.key \in Names \cup 0 .. tmpCount' - 1
    BY <1>1 DEF Named
  <2>1. CASE x = node
    <3>1. n + 1 \in 1 .. n + 1 /\ n + 1 \in Listed(lvl)'
      BY <1>1
    <3>2. symbols'[n + 1].key = key
      BY <1>1, <1>2
    <3> QED
      BY <1>3, <2>1, <3>1, <3>2
  <2>2. CASE x \in Nodes(buckets)
    <3>1. /\ x.value \in 1 .. n /\ symbols[x.value].key = x.key
          /\ x.key \in Names \cup 0 .. tmpCount - 1
      BY <1>6, <2>2 DEF IInv, Named
    <3>2. PICK l \in Level : x.value \in Listed(l)
      BY <2>2 DEF IInv, Named
    <3>3. x.value \in Listed(l)'
      BY <1>1, <3>2
    <3>4. x.value \in 1 .. n + 1 /\ symbols'[x.value].key = x.key
      BY <1>1, <3>1
    <3>5. x.key \in Names \cup 0 .. tmpCount' - 1
      BY <1>5, <3>1
    <3> QED
      BY <3>3, <3>4, <3>5
  <2> QED
    BY <1>1, <2>1, <2>2
<1>9. Found'
  <2> SUFFICES ASSUME NEW l \in Level, NEW s \in Listed(l)'
               PROVE  [key |-> symbols'[s].key, value |-> s] \in Nodes(buckets')
    BY DEF Found
  <2>1. CASE s = n + 1
    BY <1>1, <1>2, <2>1 DEF node
  <2>2. CASE s # n + 1
    <3>1. s \in Listed(l)
      <4>1. CASE l = lvl
        BY <1>1, <2>2, <4>1
      <4>2. CASE l # lvl
        BY <1>1, <4>2
      <4> QED
        BY <4>1, <4>2
    <3>2. symbols'[s] = symbols[s]
      BY <1>1, <1>4, <3>1
    <3> QED
      BY <1>1, <3>1, <3>2 DEF IInv, Found
  <2> QED
    BY <2>1, <2>2
<1>10. Once'
  <2>1. \A l \in Level : n + 1 \notin Listed(l)
    BY <1>1, <1>4
  <2> SUFFICES ASSUME NEW l \in Level, NEW k \in Level, l # k
               PROVE  Listed(l)' \cap Listed(k)' = {}
    BY DEF Once
  <2>2. Listed(l) \cap Listed(k) = {}
    BY DEF IInv, Once
  <2>3. \A x \in Level : Listed(x)' = IF x = lvl THEN Listed(x) \cup {n + 1} ELSE Listed(x)
    BY <1>1
  <2>4. n + 1 \notin Listed(l) /\ n + 1 \notin Listed(k)
    BY <2>1
  <2>5. CASE l = lvl
    BY <2>2, <2>3, <2>4, <2>5
  <2>6. CASE k = lvl
    BY <2>2, <2>3, <2>4, <2>6
  <2>7. CASE l # lvl /\ k # lvl
    BY <2>2, <2>3, <2>7
  <2> QED
    BY <2>5, <2>6, <2>7
<1>11. FrameSound'
  <2> DEFINE In == {s \in 1 .. n : ~symbols[s].inReg}
             Far(s) == symbols[s].loc + symbols[s].size
  <2>1. /\ \A s \in In : Far(s) <= allocated
        /\ \A s, t \in In : s # t => Far(s) <= symbols[t].loc \/ Far(t) <= symbols[s].loc
    BY <1>6 DEF IInv, FrameSound, InFrame, End
  <2>2. \A s \in 1 .. n : /\ symbols[s].loc \in Nat /\ symbols[s].size \in Nat
                          /\ symbols'[s] = symbols[s] /\ s # n + 1
    <3>1. \A s \in 1 .. n : symbols[s].loc \in Nat /\ symbols[s].size \in Nat
      BY <1>0, SymbolsLemma DEF IInv
    <3>2. \A s \in 1 .. n : s # n + 1
      OBVIOUS
    <3> QED
      BY <1>1, <3>1, <3>2
  <2>3. \A s \in InFrame' : s \in In \/ (s = n + 1 /\ ~inReg)
    BY <1>1, <1>2 DEF InFrame
  <2>4. \A s \in In : End(s)' = Far(s) /\ symbols'[s].loc = symbols[s].loc
    BY <2>2 DEF End
  <2>5. End(n + 1)' = loc + size /\ symbols'[n + 1].loc = loc
    BY <1>1, <1>2 DEF End
  <2>6. \A s \in In : Far(s) \in Nat
    BY <2>2 DEF In, Far
  <2> HIDE DEF In, Far
  <2>7. \A s \in InFrame' : End(s)' <= allocated'
    <3> SUFFICES ASSUME NEW s \in InFrame' PROVE End(s)' <= allocated'
      OBVIOUS
    <3>1. CASE s \in In
      BY <1>5, <2>1, <2>4, <2>6, <3>1
    <3>2. CASE s = n + 1 /\ ~inReg
      BY <2>5, <3>2
    <3> QED
      BY <2>3, <3>1, <3>2
  <2>8. ASSUME NEW s \in InFrame', NEW t \in InFrame', s # t
        PROVE  End(s)' <= symbols'[t].loc \/ End(t)' <= symbols'[s].loc
    <3>1. CASE s \in In /\ t \in In
      BY <2>1, <2>4, <2>8, <3>1
    <3>2. CASE s \in In /\ t = n + 1 /\ ~inReg
      BY <1>5, <2>1, <2>4, <2>5, <2>6, <3>2
    <3>3. CASE s = n + 1 /\ ~inReg /\ t \in In
      BY <1>5, <2>1, <2>4, <2>5, <2>6, <3>3
    <3> QED
      BY <2>3, <2>8, <3>1, <3>2, <3>3
  <2> QED
    BY <2>7, <2>8 DEF FrameSound
<1>12. Counted'
  BY <1>0, <1>1, <1>5 DEF Counted
<1> QED
  BY <1>1, <1>7, <1>8, <1>9, <1>10, <1>11, <1>12 DEF IInv

LEMMA SameIInv == IInv /\ UNCHANGED vars => IInv'
BY DEF vars, IInv, Kinds, Named, Found, Once, Counted, FrameSound, InFrame, End, Listed

\* A variable of the frame, for a name that is not in the table.
LEMMA AllocateIInv ==
    ASSUME IInv, NEW key \in Nat, NEW type \in Types, NEW lvl \in {0, level}, Usable,
           Allocate(key, type, lvl), Lookup(key) = None, UNCHANGED level,
           tmpCount' \in {tmpCount, tmpCount + 1},
           key \in Names \/ (key = tmpCount /\ tmpCount' = tmpCount + 1)
    PROVE  IInv'
<1> DEFINE loc == Aligned(allocated, type.align)
           n == Len(symbols)
<1>1. type.size \in Nat /\ type.align \in Nat \ {0} /\ MaxLevels \in Nat
  BY SymbolAssumption
<1>2. /\ level \in Nat /\ allocated \in Nat /\ tmpCount \in Nat /\ n \in Nat
      /\ level < MaxLevels /\ n < MaxSymbols /\ tmpCount <= n
  BY SymbolsLemma DEF IInv, Kinds, Usable, Counted
<1>3. loc \in Nat /\ loc >= allocated
  BY <1>1, <1>2, AlignedLemma
<1>4. lvl \in Level /\ lvl <= level
  BY <1>1, <1>2 DEF Level
<1>5. AddsSymbol(key, loc, type.size, FALSE, lvl) /\ allocated' = loc + type.size
  BY DEF Allocate, AddsSymbol
<1>6. /\ tmpCount' \in Nat /\ tmpCount <= tmpCount' /\ tmpCount' <= n + 1
      /\ key \in Names \cup 0 .. tmpCount' - 1
  <2>1. CASE tmpCount' = tmpCount
    BY <1>2, <2>1
  <2>2. CASE tmpCount' = tmpCount + 1
    <3>1. tmpCount \in 0 .. tmpCount' - 1
      BY <1>2, <2>2
    <3> QED
      BY <1>2, <2>2, <3>1
  <2> QED
    BY <2>1, <2>2
<1>7. /\ allocated' \in Nat /\ allocated <= allocated'
      /\ allocated <= loc /\ loc + type.size <= allocated'
  BY <1>1, <1>2, <1>3, <1>5
<1> HIDE DEF loc, n
<1>8. n = Len(symbols) /\ level' = level /\ FALSE \in BOOLEAN
  BY DEF n
<1> QED
  BY <1>1, <1>2, <1>3, <1>4, <1>5, <1>6, <1>7, <1>8, AddIInv

LEMMA NamedVarIInv ==
    ASSUME IInv, NEW name \in Names, NEW type \in Types,
           Insert(name, type) \/ CreateNamedLocalBuf(name, type)
    PROVE  IInv'
<1>1. name \in Nat /\ tmpCount' = tmpCount /\ level' = level /\ Usable
  BY SymbolAssumption DEF Insert, CreateNamedLocalBuf
<1>2. CASE Lookup(name) # None
  <2> SUFFICES UNCHANGED vars
    BY SameIInv
  <2>1. CASE Insert(name, type)
    BY <1>2, <2>1 DEF Insert, vars
  <2>2. CASE CreateNamedLocalBuf(name, type)
    BY <1>2, <2>2 DEF CreateNamedLocalBuf, vars
  <2> QED
    BY <2>1, <2>2
<1>3. CASE Lookup(name) = None
  <2>1. PICK lvl \in {0, level} : Allocate(name, type, lvl)
    BY <1>3 DEF Insert, CreateNamedLocalBuf
  <2>2. /\ UNCHANGED level /\ tmpCount' \in {tmpCount, tmpCount + 1}
        /\ name \in Names \/ (name = tmpCount /\ tmpCount' = tmpCount + 1)
    BY <1>1
  <2> QED
    BY <1>1, <1>3, <2>1, <2>2, AllocateIInv
<1> QED
  BY <1>2, <1>3

LEMMA TemporaryIInv ==
    ASSUME IInv, NEW type \in Types, InsertTmp(type) \/ CreateLocalBuf(type)
    PROVE  IInv'
<1>1. PICK lvl \in {0, level} : Allocate(tmpCount, type, lvl)
  BY DEF InsertTmp, CreateLocalBuf
<1>2. tmpCount' = tmpCount + 1 /\ level' = level /\ Usable
  BY DEF InsertTmp, CreateLocalBuf
<1>3. tmpCount \in Nat /\ Lookup(tmpCount) = None
  BY FreshTemporary
<1> QED
  BY <1>1, <1>2, <1>3, AllocateIInv

LEMMA InsertRegIInv ==
    ASSUME IInv, NEW name \in Names, NEW type \in Types, InsertReg(name, type)
    PROVE  IInv'
<1> DEFINE n == Len(symbols)
<1>1. name \in Nat /\ type.size \in Nat /\ MaxLevels \in Nat
  BY SymbolAssumption
<1>2. /\ level \in Nat /\ allocated \in Nat /\ tmpCount \in Nat /\ n \in Nat
      /\ level < MaxLevels /\ n < MaxSymbols /\ tmpCount <= n
  BY SymbolsLemma DEF IInv, Kinds, InsertReg, Usable, Counted
<1>3. level' = level /\ allocated' = allocated /\ tmpCount' = tmpCount
  BY DEF InsertReg
<1>4. CASE Lookup(name) # None
  BY <1>4, SameIInv DEF InsertReg, vars
<1>5. CASE Lookup(name) = None
  <2>1. AddsSymbol(name, 0, type.size, TRUE, level)
    BY <1>5 DEF InsertReg, AddsSymbol
  <2>2. level \in Level /\ level <= level /\ n = Len(symbols) /\ 0 \in Nat /\ TRUE \in BOOLEAN
    BY <1>1, <1>2 DEF Level
  <2>3. /\ tmpCount' \in Nat /\ tmpCount <= tmpCount' /\ tmpCount' <= n + 1
        /\ name \in Names \cup 0 .. tmpCount' - 1
        /\ allocated' \in Nat /\ allocated <= allocated'
    BY <1>2, <1>3
  <2> HIDE DEF n
  <2> QED
    BY <1>1, <1>2, <1>3, <1>5, <2>1, <2>2, <2>3, AddIInv
<1> QED
  BY <1>4, <1>5

\* What promoting a temporary does: its node gets another key.
LEMMA PromoteLemma ==
    ASSUME IInv, NEW tmp \in Temporaries, NEW name \in Names, PromoteTmp(tmp, name)
    PROVE  \E s \in Listed(level) :
              /\ level \in Level /\ tmp \in Nat /\ name \in Nat
              /\ s \in 1 .. Len(symbols) /\ symbols[s].key = tmp
              /\ [key |-> tmp, value |-> s] \in Nodes(buckets)
              /\ \A n \in Nodes(buckets) : n.key # name
              /\ symbols' = [symbols EXCEPT ![s].key = name]
              /\ Hashed(buckets')
              /\ Nodes(buckets') = {n \in Nodes(buckets) : n.key # tmp}
                                     \cup {[key |-> name, value |-> s]}
<1> DEFINE s == Lookup(tmp)
           node == [key |-> tmp, value |-> s]
           h == HashRemove(buckets, tmp)
<1>1. name \in Nat /\ tmp \in Nat /\ level < MaxLevels /\ s \in Listed(level) /\ Hashed(buckets)
  BY SymbolAssumption DEF Temporaries, Listed, IInv, Kinds
<1>2. level \in Level
  BY <1>1, SymbolAssumption DEF IInv, Kinds, Level
<1>3. s \in 1 .. Len(symbols) /\ s # None
  BY <1>1, <1>2, ListedLemma DEF IInv, None
<1>4. node \in Nodes(buckets)
  BY <1>1, <1>3, FindLemma DEF Lookup
<1>5. symbols[s].key = tmp
  BY <1>4 DEF IInv, Named
<1>6. Hashed(h) /\ Nodes(h) = {n \in Nodes(buckets) : n.key # tmp}
  BY <1>1, HashRemoveLemma
<1>7. Lookup(name) = None /\ \A n \in Nodes(buckets) : n.key # name
  BY <1>1, FreshName DEF PromoteTmp
<1> HIDE DEF h
<1>8. Find(h, name) = None
  BY <1>1, <1>6, <1>7, FindLemma
<1>9. buckets' = HashInsert(h, name, s) /\ symbols' = [symbols EXCEPT ![s].key = name]
  BY DEF PromoteTmp, h
<1> HIDE DEF s
<1>10. /\ Hashed(HashInsert(h, name, s))
       /\ Nodes(HashInsert(h, name, s)) = Nodes(h) \cup {[key |-> name, value |-> s]}
  BY <1>1, <1>3, <1>6, <1>8, HashInsertLemma DEF None
<1> QED
  BY <1>1, <1>2, <1>3, <1>4, <1>5, <1>6, <1>7, <1>9, <1>10

LEMMA PromoteIInv ==
    ASSUME IInv, NEW tmp \in Temporaries, NEW name \in Names, PromoteTmp(tmp, name)
    PROVE  IInv'
<1>1. PICK s \in Listed(level) :
         /\ level \in Level /\ tmp \in Nat /\ name \in Nat
         /\ s \in 1 .. Len(symbols) /\ symbols[s].key = tmp
         /\ [key |-> tmp, value |-> s] \in Nodes(buckets)
         /\ \A n \in Nodes(buckets) : n.key # name
         /\ symbols' = [symbols EXCEPT ![s].key = name]
         /\ Hashed(buckets')
         /\ Nodes(buckets') = {n \in Nodes(buckets) : n.key # tmp}
                                \cup {[key |-> name, value |-> s]}
  BY PromoteLemma
<1>2. PICK n \in Nat : n = Len(symbols)
  BY SymbolsLemma DEF IInv
<1>3. /\ levels' = levels /\ level' = level /\ allocated' = allocated /\ tmpCount' = tmpCount
  BY DEF PromoteTmp
<1>4. \A l \in Level : Listed(l)' = Listed(l) /\ Listed(l) \subseteq 1 .. n
  BY <1>2, <1>3, ListedLemma DEF IInv, Listed
<1> DEFINE r == [symbols[s] EXCEPT !.key = name]
<1>5. /\ r \in Symbol /\ r.key = name /\ r.loc = symbols[s].loc
      /\ r.size = symbols[s].size /\ r.inReg = symbols[s].inReg
  <2>1. symbols[s] \in Symbol
    BY <1>1, SymbolsLemma DEF IInv
  <2> QED
    BY <1>1, <2>1 DEF Symbol
<1> HIDE DEF r
<1>6. /\ symbols' \in Seq(Symbol) /\ Len(symbols') = n
      /\ symbols'[s] = r /\ \A t \in 1 .. n : t # s => symbols'[t] = symbols[t]
  <2>1. symbols' = [symbols EXCEPT ![s] = r]
    BY <1>1 DEF r
  <2>2. symbols \in Seq(Symbol) /\ s \in 1 .. Len(symbols)
    BY <1>1 DEF IInv, Kinds
  <2> QED
    BY <1>2, <1>5, <2>1, <2>2, ExceptSeq
<1>7. DOMAIN symbols' = 1 .. n /\ DOMAIN symbols = 1 .. n
  BY <1>2, <1>6, LenProperties, SymbolsLemma DEF IInv
<1>8. Kinds'
  BY <1>3, <1>6, <1>7 DEF IInv, Kinds
<1>9. Named'
  <2> SUFFICES ASSUME NEW x \in Nodes(buckets')
               PROVE  /\ x.value \in 1 .. n /\ symbols'[x.value].key = x.key
                      /\ \E l \in Level : x.value \in Listed(l)
                      /\ x.key \in Names \cup 0 .. tmpCount - 1
    BY <1>3, <1>4, <1>7 DEF Named
  <2>1. CASE x = [key |-> name, value |-> s]
    <3>1. x.key = name /\ x.value = s
      BY <2>1
    <3> QED
      BY <1>1, <1>2, <1>5, <1>6, <3>1
  <2>2. CASE x \in Nodes(buckets) /\ x.key # tmp
    <3>1. /\ x.value \in 1 .. n /\ symbols[x.value].key = x.key
          /\ \E l \in Level : x.value \in Listed(l)
          /\ x.key \in Names \cup 0 .. tmpCount - 1
      BY <1>7, <2>2 DEF IInv, Named
    <3>2. x.value # s
      BY <1>1, <2>2, <3>1
    <3> QED
      BY <1>6, <3>1, <3>2
  <2> QED
    BY <1>1, <2>1, <2>2
<1>10. Found'
  <2> SUFFICES ASSUME NEW l \in Level, NEW t \in Listed(l)
               PROVE  [key |-> symbols'[t].key, value |-> t] \in Nodes(buckets')
    BY <1>4 DEF Found
  <2>1. CASE t = s
    BY <1>1, <1>5, <1>6, <2>1
  <2>2. CASE t # s
    <3> DEFINE x == [key |-> symbols[t].key, value |-> t]
               y == [key |-> tmp, value |-> s]
    <3>1. x \in Nodes(buckets) /\ y \in Nodes(buckets) /\ Hashed(buckets)
      BY <1>1 DEF IInv, Found
    <3>2. x.value = t /\ y.value = s /\ y.key = tmp
      OBVIOUS
    <3>3. symbols'[t] = symbols[t]
      BY <1>4, <1>6, <2>2
    <3> HIDE DEF x, y
    <3>4. x.key # tmp
      BY <2>2, <3>1, <3>2, KeysDiffer
    <3> QED
      BY <1>1, <3>1, <3>3, <3>4 DEF x
  <2> QED
    BY <2>1, <2>2
<1>11. Once'
  BY <1>4 DEF IInv, Once
<1>12. FrameSound'
  <2>1. InFrame' = InFrame
    BY <1>1, <1>2, <1>5, <1>6, <1>7 DEF InFrame
  <2>2. \A t \in InFrame : symbols'[t].loc = symbols[t].loc /\ End(t)' = End(t)
    BY <1>5, <1>6, <1>7 DEF InFrame, End
  <2> QED
    BY <1>3, <2>1, <2>2 DEF IInv, FrameSound
<1>13. Counted'
  BY <1>2, <1>3, <1>6 DEF IInv, Counted
<1> QED
  BY <1>1, <1>8, <1>9, <1>10, <1>11, <1>12, <1>13 DEF IInv

\* Opening a block lists nothing yet.
LEMMA LevelUpIInv == IInv /\ LevelUp => IInv'
<1> SUFFICES ASSUME IInv, LevelUp PROVE IInv'
  OBVIOUS
<1>1. /\ buckets' = buckets /\ levels' = levels /\ allocated' = allocated
      /\ tmpCount' = tmpCount /\ symbols' = symbols
      /\ level' = level + 1 /\ level < MaxDepth
  BY DEF LevelUp
<1>2. Kinds'
  <2>1. level' \in 0 .. MaxDepth /\ \A l \in Level : l > level + 1 => l > level
    BY <1>1, SymbolAssumption DEF IInv, Kinds, Level
  <2> QED
    BY <1>1, <2>1 DEF IInv, Kinds
<1>3. Named' /\ Found' /\ Once' /\ Counted' /\ FrameSound'
  BY <1>1 DEF IInv, Named, Found, Once, Counted, FrameSound, InFrame, End, Listed
<1> QED
  BY <1>1, <1>2, <1>3 DEF IInv

\* Closing a block takes the nodes of its symbols, and no other.
LEMMA LevelDownIInv == IInv /\ LevelDown => IInv'
<1> SUFFICES ASSUME IInv, LevelDown PROVE IInv'
  OBVIOUS
<1>1. PICK k \in Level : k = level /\ k > 0
  BY SymbolAssumption DEF LevelDown, IInv, Kinds, Level
<1>2. /\ buckets' = RemoveSymbols(buckets, levels[k])
      /\ levels' = [levels EXCEPT ![k] = <<>>] /\ level' = k - 1
      /\ allocated' = allocated /\ tmpCount' = tmpCount /\ symbols' = symbols
  BY <1>1 DEF LevelDown
<1>3. /\ Listed(k)' = {} /\ levels'[k] = <<>>
      /\ \A l \in Level : l # k => Listed(l)' = Listed(l) /\ levels'[l] = levels[l]
  <2>1. DOMAIN levels = Level
    BY DEF IInv, Kinds
  <2>2. levels'[k] = <<>> /\ \A l \in Level : l # k => levels'[l] = levels[l]
    BY <1>2, <2>1
  <2>3. ToSet(<<>>) = {}
    BY DEF ToSet
  <2> QED
    BY <2>2, <2>3 DEF Listed
<1>4. PICK K : K = KeysTo(levels[k], Len(levels[k]))
  OBVIOUS
<1>5. K = {symbols[s].key : s \in Listed(k)}
  <2>1. /\ \A i \in 1 .. Len(levels[k]) : levels[k][i] \in Listed(k)
        /\ \A s \in Listed(k) : \E i \in 1 .. Len(levels[k]) : levels[k][i] = s
    BY ListedLemma DEF IInv
  <2> QED
    BY <1>4, <2>1 DEF KeysTo
<1>6. Hashed(buckets') /\ Nodes(buckets') = {n \in Nodes(buckets) : n.key \notin K}
  <2>1. Len(levels[k]) \in Nat /\ \A i \in 1 .. Len(levels[k]) : levels[k][i] \in 1 .. Len(symbols)
    BY ListedLemma DEF IInv
  <2>2. \A i \in 1 .. Len(levels[k]) : symbols[levels[k][i]].key \in Nat
    BY <2>1, SymbolsLemma DEF IInv
  <2> DEFINE list == levels[k]
  <2>3. Hashed(buckets)
    BY DEF IInv
  <2>4. Len(list) \in Nat /\ \A i \in 1 .. Len(list) : symbols[list[i]].key \in Nat
    BY <2>1, <2>2
  <2> HIDE DEF list
  <2>5. /\ Hashed(RemoveSymbols(buckets, list))
        /\ Nodes(RemoveSymbols(buckets, list)) =
             {n \in Nodes(buckets) : n.key \notin KeysTo(list, Len(list))}
    BY <2>3, <2>4, RemoveSymbolsLemma
  <2> QED
    BY <1>2, <1>4, <2>5 DEF list
<1>7. Kinds'
  <2>1. k - 1 \in 0 .. MaxDepth
    BY <1>1, SymbolAssumption DEF IInv, Kinds, Level
  <2>2. levels' \in [Level -> Seq(DOMAIN symbols)]
    BY <1>2, EmptySeq DEF IInv, Kinds
  <2>3. \A l \in Level : l > k - 1 => levels'[l] = <<>>
    <3> SUFFICES ASSUME NEW l \in Level, l > k - 1 PROVE levels'[l] = <<>>
      OBVIOUS
    <3>1. l = k \/ l > k
      BY SymbolAssumption DEF Level
    <3> QED
      BY <1>1, <1>3, <3>1, SymbolAssumption DEF IInv, Kinds, Level
  <2> QED
    BY <1>2, <2>1, <2>2, <2>3 DEF IInv, Kinds
<1>8. Named'
  <2> SUFFICES ASSUME NEW x \in Nodes(buckets')
               PROVE  /\ x.value \in DOMAIN symbols /\ symbols[x.value].key = x.key
                      /\ \E l \in Level : x.value \in Listed(l)'
                      /\ x.key \in Names \cup 0 .. tmpCount - 1
    BY <1>2 DEF Named
  <2>1. /\ x.value \in DOMAIN symbols /\ symbols[x.value].key = x.key
        /\ x.key \in Names \cup 0 .. tmpCount - 1
    BY <1>6 DEF IInv, Named
  <2>2. PICK l \in Level : x.value \in Listed(l)
    BY <1>6 DEF IInv, Named
  <2>3. l # k
    BY <1>5, <1>6, <2>1, <2>2
  <2> QED
    BY <1>3, <2>1, <2>2, <2>3
<1>9. Found'
  <2> SUFFICES ASSUME NEW l \in Level, NEW s \in Listed(l)'
               PROVE  [key |-> symbols[s].key, value |-> s] \in Nodes(buckets')
    BY <1>2 DEF Found
  <2>1. l # k /\ s \in Listed(l)
    BY <1>3
  <2> DEFINE x == [key |-> symbols[s].key, value |-> s]
  <2>2. x \in Nodes(buckets) /\ x.key = symbols[s].key /\ x.value = s
    BY <2>1 DEF IInv, Found
  <2>3. ASSUME NEW t \in Listed(k), symbols[t].key = symbols[s].key
        PROVE  FALSE
    <3> DEFINE y == [key |-> symbols[t].key, value |-> t]
    <3>1. y \in Nodes(buckets) /\ y.key = symbols[t].key /\ y.value = t
      BY DEF IInv, Found
    <3> HIDE DEF x, y
    <3>2. x = y
      BY <2>2, <2>3, <3>1, KeysDiffer DEF IInv
    <3>3. s = t
      BY <2>2, <3>1, <3>2
    <3> QED
      BY <2>1, <3>3 DEF IInv, Once
  <2> HIDE DEF x
  <2>4. x.key \notin K
    BY <1>5, <2>2, <2>3
  <2> QED
    BY <1>6, <2>2, <2>4 DEF x
<1>10. Once'
  BY <1>3 DEF IInv, Once
<1>11. Counted' /\ FrameSound'
  BY <1>2 DEF IInv, Counted, FrameSound, InFrame, End
<1> QED
  BY <1>6, <1>7, <1>8, <1>9, <1>10, <1>11 DEF IInv

LEMMA NextIInv == IInv /\ [Next]_vars => IInv'
<1> SUFFICES ASSUME IInv, [Next]_vars PROVE IInv'
  OBVIOUS
<1>1. ASSUME NEW name \in Names, NEW type \in Types,
             Insert(name, type) \/ CreateNamedLocalBuf(name, type)
      PROVE  IInv'
  BY <1>1, NamedVarIInv
<1>2. ASSUME NEW name \in Names, NEW type \in Types, InsertReg(name, type) PROVE IInv'
  BY <1>2, InsertRegIInv
<1>3. ASSUME NEW type \in Types, InsertTmp(type) \/ CreateLocalBuf(type) PROVE IInv'
  BY <1>3, TemporaryIInv
<1>4. ASSUME NEW tmp \in Temporaries, NEW name \in Names, PromoteTmp(tmp, name) PROVE IInv'
  BY <1>4, PromoteIInv
<1>5. CASE LevelUp
  BY <1>5, LevelUpIInv
<1>6. CASE LevelDown
  BY <1>6, LevelDownIInv
<1>7. CASE UNCHANGED vars
  BY <1>7, SameIInv
<1> QED
  BY <1>1, <1>2, <1>3, <1>4, <1>5, <1>6, <1>7 DEF Next

-----------------------------------------------------------------------------
(* The theorems *)

\* The nodes of the hash table are the symbols the levels list, under their names
\* (frontend/symbol_table.c over frontend/hash_table.c): the invariant the others
\* follow from.
THEOREM Invariant == Spec => []IInv
<1> QED
  BY InitIInv, NextIInv, PTL DEF Spec

\* Chains, lists, levels and counters keep their types, and no level above the
\* open one lists a symbol.
THEOREM TypeCorrect == Spec => []TypeOK
<1> QED
  BY Invariant, IInvType, PTL

\* A lookup finds what the open blocks declared and nothing else, however many
\* temporaries were promoted and blocks closed (subtilis_symbol_table_promote_tmp,
\* subtilis_symbol_table_level_down).
THEOREM ScopesFound == Spec => []TableMatchesScopes
<1> QED
  BY Invariant, IInvTable, PTL

\* No two variables of a frame share a byte (prv_symbol_table_insert).
THEOREM FrameNeverShared == Spec => []FrameSound
<1>1. IInv => FrameSound
  BY DEF IInv
<1> QED
  BY <1>1, Invariant, PTL

-----------------------------------------------------------------------------
(***************************************************************************)
(* SymbolTable implements Environment, as long as no more blocks are open  *)
(* than the table has levels: symbol_table.c lets one more block be opened,*)
(* and what the table does there is undefined.  The invariant says why a   *)
(* declaration is a new name in a free place, why a promotion renames one  *)
(* variable, and why the end of a block takes the variables of one scope.  *)
(***************************************************************************)

Entry(s) == [name |-> symbols[s].key, place |-> PlaceOf(s)]

Entries(l) == {Entry(s) : s \in Listed(l)}

\* The scopes the table stands for.
Mapped == [i \in 1 .. level + 1 |->
             {[name |-> symbols[s].key, place |-> PlaceOf(s)] : s \in Listed(i - 1)}]

\* Every open block has a level of the table.
Open == IInv /\ MaxDepth < MaxLevels

LEMMA OpenLemma == Open => level \in Level /\ level \in Nat /\ level + 1 \in Nat
BY SymbolAssumption DEF Open, IInv, Kinds, Level

LEMMA OpenNext == Open' => level' \in Level
BY SymbolAssumption DEF Open, IInv, Kinds, Level

LEMMA MappedLemma ==
    /\ DOMAIN Mapped = 1 .. level + 1
    /\ \A i \in 1 .. level + 1 : Mapped[i] = Entries(i - 1)
    /\ Mapped = [i \in 1 .. level + 1 |-> Mapped[i]]
BY DEF Mapped, Entries, Entry

LEMMA MappedNext ==
    /\ DOMAIN Mapped' = 1 .. level' + 1
    /\ \A i \in 1 .. level' + 1 : Mapped'[i] = Entries(i - 1)'
    /\ Mapped' = [i \in 1 .. level' + 1 |-> Mapped'[i]]
BY DEF Mapped, Entries, Entry

\* As many scopes as blocks, and one around them.
LEMMA ScopesLemma ==
    ASSUME Open
    PROVE  /\ Mapped \in Seq({Entries(l) : l \in Level})
           /\ Len(Mapped) = level + 1
<1>1. level + 1 \in Nat /\ \A i \in 1 .. level + 1 : i - 1 \in Level
  BY OpenLemma, SymbolAssumption DEF Level
<1> DEFINE S == {Entries(l) : l \in Level}
<1>2. Mapped \in [1 .. level + 1 -> S]
  BY <1>1, MappedLemma
<1> HIDE DEF S
<1>3. Mapped \in Seq(S)
  BY <1>1, <1>2, SeqDef
<1>4. DOMAIN Mapped = 1 .. level + 1 /\ DOMAIN Mapped = 1 .. Len(Mapped) /\ Len(Mapped) \in Nat
  BY <1>3, LenProperties, MappedLemma
<1>5. Len(Mapped) = level + 1
  BY <1>1, <1>4
<1> QED
  BY <1>3, <1>5 DEF S

\* What is visible is what the levels list.
LEMMA VisibleLemma ==
    ASSUME Open, NEW v \in Scopes!Visible
    PROVE  \E l \in Level : \E s \in Listed(l) : v = Entry(s)
<1>1. PICK i \in DOMAIN Mapped : v \in Mapped[i]
  BY DEF Scopes!Visible, Mapped
<1>2. i \in 1 .. level + 1 /\ i - 1 \in Level
  BY <1>1, OpenLemma, MappedLemma, SymbolAssumption DEF Level
<1>3. v \in Entries(i - 1)
  BY <1>1, <1>2, MappedLemma
<1> QED
  BY <1>2, <1>3 DEF Entries

\* A listed symbol, as the environment sees it.
LEMMA EntryLemma ==
    ASSUME Open, NEW l \in Level, NEW s \in Listed(l)
    PROVE  /\ s \in 1 .. Len(symbols)
           /\ Entry(s).name = symbols[s].key /\ Entry(s).name \in Nat
           /\ Entry(s).place = PlaceOf(s)
           /\ PlaceOf(s).loc = symbols[s].loc /\ PlaceOf(s).size = symbols[s].size
           /\ PlaceOf(s).inReg = symbols[s].inReg
           /\ symbols[s].loc \in Nat /\ symbols[s].size \in Nat /\ symbols[s].inReg \in BOOLEAN
           /\ ~symbols[s].inReg => symbols[s].loc + symbols[s].size <= allocated
<1>1. s \in 1 .. Len(symbols)
  BY ListedLemma DEF Open, IInv
<1>2. /\ symbols[s].key \in Nat /\ symbols[s].loc \in Nat /\ symbols[s].size \in Nat
      /\ symbols[s].inReg \in BOOLEAN
  BY <1>1, SymbolsLemma DEF Open, IInv
<1>3. ~symbols[s].inReg => symbols[s].loc + symbols[s].size <= allocated
  BY <1>1, SymbolsLemma DEF Open, IInv, FrameSound, InFrame, End
<1> QED
  BY <1>1, <1>2, <1>3 DEF Entry, PlaceOf

-----------------------------------------------------------------------------
(* Steps *)

LEMMA DeclareStep ==
    ASSUME Open, NEW key \in Nat, NEW loc \in Nat, NEW size \in Nat, NEW inReg \in BOOLEAN,
           NEW lvl \in {0, level}, level' = level,
           AddsSymbol(key, loc, size, inReg, lvl), Lookup(key) = None,
           ~inReg => allocated <= loc
    PROVE  Scopes!Declare
<1>1. PICK n \in Nat : n = Len(symbols)
  BY SymbolsLemma DEF Open, IInv
<1>2. PICK k \in Level : k = lvl /\ k <= level
  BY OpenLemma, SymbolAssumption DEF Level
<1>3. AddedSymbol(key, loc, size, inReg, k, n)
  BY <1>1, <1>2, AddedLemma DEF Open
<1> DEFINE p == [loc |-> loc, size |-> size, inReg |-> inReg]
           e == [name |-> key, place |-> p]
<1>4. /\ \A s \in 1 .. n : symbols'[s] = symbols[s]
      /\ symbols'[n + 1] = [key |-> key, loc |-> loc, size |-> size, inReg |-> inReg]
      /\ \A l \in Level : l # k => Listed(l)' = Listed(l)
      /\ Listed(k)' = Listed(k) \cup {n + 1}
  BY <1>3 DEF AddedSymbol
<1>5. \A l \in Level : Listed(l) \subseteq 1 .. n
  BY <1>1, ListedLemma DEF Open, IInv
<1>6. \A l \in Level : \A s \in Listed(l) : Entry(s)' = Entry(s)
  BY <1>4, <1>5 DEF Entry, PlaceOf
<1>7. Entry(n + 1)' = e
  BY <1>4 DEF Entry, PlaceOf
<1>8. e.name = key /\ e.place = p /\ p.loc = loc /\ p.size = size /\ p.inReg = inReg
  OBVIOUS
<1>9. e.name \in Nat /\ e.place \in [loc : Nat, size : Nat, inReg : BOOLEAN]
  OBVIOUS
<1> HIDE DEF e, p
<1>10. \A l \in Level : l # k => Entries(l)' = Entries(l)
  BY <1>4, <1>6 DEF Entries
<1>11. Entries(k)' = Entries(k) \cup {e}
  BY <1>4, <1>6, <1>7 DEF Entries
<1>12. \A l \in Level : l = (l + 1) - 1
  BY DEF Level
<1> DEFINE i == k + 1
<1>13. i \in {1, Len(Mapped)} /\ i \in 1 .. level + 1 /\ i - 1 = k
  BY <1>2, OpenLemma, ScopesLemma DEF Level
<1>14. \A j \in 1 .. level + 1 : j - 1 \in Level /\ (j # i => j - 1 # k)
  BY OpenLemma, SymbolAssumption DEF Level
<1> HIDE DEF i
<1>15. /\ Mapped'[i] = Mapped[i] \cup {e}
       /\ \A j \in 1 .. level + 1 : j # i => Mapped'[j] = Mapped[j]
  BY <1>10, <1>11, <1>13, <1>14, MappedLemma, MappedNext
<1>16. Mapped' = [Mapped EXCEPT ![i] = Mapped'[i]]
  <2>1. DOMAIN Mapped' = 1 .. level + 1 /\ DOMAIN Mapped = 1 .. level + 1
    BY MappedLemma, MappedNext
  <2>2. Mapped' = [j \in 1 .. level + 1 |-> Mapped'[j]]
    BY MappedNext
  <2> QED
    BY <1>13, <1>15, <2>1, <2>2
<1>17. ASSUME NEW v \in Scopes!Visible
       PROVE  v.name # e.name /\ ~Scopes!Clash(v.place, e.place)
  <2>1. PICK l \in Level : \E s \in Listed(l) : v = Entry(s)
    BY <1>17, VisibleLemma
  <2>2. PICK s \in Listed(l) : v = Entry(s)
    BY <2>1
  <2>3. v.name # e.name
    BY <1>8, <2>2, EntryLemma, FreshName DEF Open
  <2>4. ASSUME ~inReg, ~v.place.inReg
        PROVE  v.place.loc + v.place.size <= loc
    <3>1. /\ symbols[s].loc + symbols[s].size <= allocated
          /\ v.place.loc = symbols[s].loc /\ v.place.size = symbols[s].size
          /\ symbols[s].loc \in Nat /\ symbols[s].size \in Nat /\ allocated \in Nat
      BY <2>2, <2>4, EntryLemma DEF Open, IInv, Kinds
    <3> QED
      BY <2>4, <3>1
  <2>5. v.place.loc \in Nat /\ v.place.size \in Nat
    BY <2>2, EntryLemma
  <2>6. ~Scopes!Clash(v.place, e.place)
    BY <1>8, <2>4, <2>5 DEF Scopes!Clash
  <2> QED
    BY <2>3, <2>6
<1>18. /\ i \in {1, Len(Mapped)}
       /\ Mapped' = [Mapped EXCEPT ![i] = Mapped'[i]]
       /\ Mapped[i] \subseteq Mapped'[i]
       /\ e \in Mapped'[i] /\ Mapped'[i] = Mapped[i] \cup {e}
  BY <1>13, <1>15, <1>16
<1>19. \E j \in {1, Len(Mapped)} :
          /\ Mapped' = [Mapped EXCEPT ![j] = Mapped'[j]]
          /\ Mapped[j] \subseteq Mapped'[j]
          /\ \E x \in Mapped'[j] :
                /\ Mapped'[j] = Mapped[j] \cup {x}
                /\ x.name \in Nat /\ x.place \in [loc : Nat, size : Nat, inReg : BOOLEAN]
                /\ \A v \in Scopes!Visible : v.name # x.name /\ ~Scopes!Clash(v.place, x.place)
  BY <1>9, <1>17, <1>18
<1> QED
  BY <1>19 DEF Scopes!Declare, Mapped

\* A variable of the frame is declared past what is allocated.
LEMMA AllocateStep ==
    ASSUME Open, NEW key \in Nat, NEW type \in Types, NEW lvl \in {0, level}, level' = level,
           Allocate(key, type, lvl), Lookup(key) = None
    PROVE  Scopes!Declare
<1> DEFINE loc == Aligned(allocated, type.align)
<1>1. type.size \in Nat /\ type.align \in Nat \ {0} /\ allocated \in Nat
  BY SymbolAssumption DEF Open, IInv, Kinds
<1>2. loc \in Nat /\ loc >= allocated
  BY <1>1, AlignedLemma
<1>3. AddsSymbol(key, loc, type.size, FALSE, lvl)
  BY DEF Allocate, AddsSymbol
<1> HIDE DEF loc
<1>4. FALSE \in BOOLEAN /\ (~FALSE => allocated <= loc)
  BY <1>1, <1>2
<1> QED
  BY <1>1, <1>2, <1>3, <1>4, DeclareStep

LEMMA InsertRegStep ==
    ASSUME Open, NEW name \in Names, NEW type \in Types, InsertReg(name, type),
           Lookup(name) = None
    PROVE  Scopes!Declare
<1>1. name \in Nat /\ type.size \in Nat /\ level \in {0, level} /\ 0 \in Nat /\ TRUE \in BOOLEAN
  BY SymbolAssumption
<1>2. AddsSymbol(name, 0, type.size, TRUE, level) /\ level' = level
  BY DEF InsertReg, AddsSymbol
<1> QED
  BY <1>1, <1>2, DeclareStep

\* Promoting a temporary renames one variable of the innermost scope.
LEMMA RenameStep ==
    ASSUME Open, NEW tmp \in Temporaries, NEW name \in Names, PromoteTmp(tmp, name)
    PROVE  Scopes!Rename
<1>1. PICK s \in Listed(level) :
         /\ level \in Level /\ tmp \in Nat /\ name \in Nat
         /\ s \in 1 .. Len(symbols) /\ symbols[s].key = tmp
         /\ [key |-> tmp, value |-> s] \in Nodes(buckets)
         /\ \A n \in Nodes(buckets) : n.key # name
         /\ symbols' = [symbols EXCEPT ![s].key = name]
         /\ Hashed(buckets')
         /\ Nodes(buckets') = {n \in Nodes(buckets) : n.key # tmp}
                                \cup {[key |-> name, value |-> s]}
  <2>1. IInv
    BY DEF Open
  <2> QED
    BY <2>1, PromoteLemma
<1>2. PICK k \in Level : k = level
  BY <1>1
<1>3. levels' = levels /\ level' = level
  BY DEF PromoteTmp
<1>4. \A l \in Level : Listed(l)' = Listed(l)
  BY <1>3 DEF Listed
<1>5. DOMAIN symbols = 1 .. Len(symbols) /\ symbols[s] \in Symbol
  BY <1>1, SymbolsLemma DEF Open, IInv
<1>6. \A l \in Level : \A t \in Listed(l) : t # s => Entry(t)' = Entry(t)
  BY <1>1 DEF Entry, PlaceOf
<1>7. Entry(s)' = [name |-> name, place |-> PlaceOf(s)]
  <2>1. symbols'[s] = [symbols[s] EXCEPT !.key = name]
    BY <1>1, <1>5
  <2>2. /\ symbols'[s].key = name /\ symbols'[s].loc = symbols[s].loc
        /\ symbols'[s].size = symbols[s].size /\ symbols'[s].inReg = symbols[s].inReg
    BY <1>5, <2>1 DEF Symbol
  <2> QED
    BY <2>2 DEF Entry, PlaceOf
<1> DEFINE e == [name |-> name, place |-> PlaceOf(s)]
           t == Entry(s)
<1>8. e.name = name /\ e.place = PlaceOf(s) /\ t.place = PlaceOf(s) /\ t.name = tmp
  BY <1>1 DEF Entry
\* No other variable has the name of the temporary.
<1>9. \A l \in Level : \A u \in Listed(l) : u # s => symbols[u].key # tmp
  <2> SUFFICES ASSUME NEW l \in Level, NEW u \in Listed(l), symbols[u].key = tmp
               PROVE  u = s
    OBVIOUS
  <2> DEFINE x == [key |-> symbols[u].key, value |-> u]
             y == [key |-> tmp, value |-> s]
  <2>1. x \in Nodes(buckets) /\ y \in Nodes(buckets) /\ Hashed(buckets)
    BY <1>1 DEF Open, IInv, Found
  <2>2. x.key = tmp /\ y.key = tmp /\ x.value = u /\ y.value = s
    OBVIOUS
  <2> HIDE DEF x, y
  <2>3. x = y
    BY <2>1, <2>2, KeysDiffer
  <2> QED
    BY <2>2, <2>3
<1>10. \A l \in Level : \A u \in Listed(l) : u # s => Entry(u) # t
  BY <1>8, <1>9, EntryLemma
<1>11. \A l \in Level : l # k => s \notin Listed(l)
  BY <1>1, <1>2 DEF Open, IInv, Once
<1> HIDE DEF e, t
<1>12. \A l \in Level : l # k => Entries(l)' = Entries(l)
  BY <1>4, <1>6, <1>11 DEF Entries
<1>13. Entries(k)' = (Entries(k) \ {t}) \cup {e}
  <2>1. s \in Listed(k) /\ Listed(k)' = Listed(k) /\ Entry(s)' = e
    BY <1>1, <1>2, <1>4, <1>7 DEF e
  <2>2. \A u \in Listed(k) : u # s => Entry(u)' = Entry(u) /\ Entry(u) # t
    BY <1>6, <1>10
  <2>3. Entry(s) = t
    BY DEF t
  <2> QED
    BY <2>1, <2>2, <2>3 DEF Entries
<1> DEFINE i == k + 1
<1>14. i \in 1 .. level + 1 /\ i - 1 = k
  BY <1>2, OpenLemma DEF Level
<1>15. \A j \in 1 .. level + 1 : j - 1 \in Level /\ (j # i => j - 1 # k)
  BY OpenLemma, SymbolAssumption DEF Level
<1> HIDE DEF i
<1>16. /\ Mapped'[i] = (Mapped[i] \ {t}) \cup {e}
       /\ \A j \in 1 .. level + 1 : j # i => Mapped'[j] = Mapped[j]
  BY <1>3, <1>12, <1>13, <1>14, <1>15, MappedLemma, MappedNext
<1>17. t \in Mapped[i] /\ i \in DOMAIN Mapped
  BY <1>1, <1>2, <1>14, MappedLemma DEF t, Entries
<1>18. Mapped' = [Mapped EXCEPT ![i] = (Mapped[i] \ {t}) \cup {e}]
  <2>1. DOMAIN Mapped' = 1 .. level + 1 /\ DOMAIN Mapped = 1 .. level + 1
    BY <1>3, MappedLemma, MappedNext
  <2>2. Mapped' = [j \in 1 .. level + 1 |-> Mapped'[j]]
    BY <1>3, MappedNext
  <2> QED
    BY <1>14, <1>16, <2>1, <2>2
<1>19. ASSUME NEW v \in Scopes!Visible
       PROVE  v.name # e.name
  <2>1. PICK l \in Level : \E u \in Listed(l) : v = Entry(u)
    BY <1>19, VisibleLemma
  <2>2. PICK u \in Listed(l) : v = Entry(u)
    BY <2>1
  <2>3. Lookup(name) = None /\ name \in Nat
    BY <1>1 DEF PromoteTmp
  <2> QED
    BY <1>8, <2>2, <2>3, EntryLemma, FreshName DEF Open
<1>20. e \in Mapped'[i] /\ e.name \in Nat /\ e.place = t.place
  BY <1>1, <1>8, <1>16
<1>21. \E j \in DOMAIN Mapped : \E x \in Mapped[j] : \E y \in Mapped'[j] :
          /\ y.name \in Nat /\ y.place = x.place
          /\ \A v \in Scopes!Visible : v.name # y.name
          /\ Mapped' = [Mapped EXCEPT ![j] = (Mapped[j] \ {x}) \cup {y}]
  BY <1>17, <1>18, <1>19, <1>20
<1> QED
  BY <1>21 DEF Scopes!Rename, Mapped

\* A block that is opened declares nothing yet.
LEMMA OpenStep ==
    ASSUME Open, Open', LevelUp
    PROVE  Scopes!Open
<1>1. /\ levels' = levels /\ symbols' = symbols /\ level' = level + 1
      /\ level + 1 \in Level /\ level \in Nat
  BY OpenLemma, OpenNext DEF LevelUp
<1>2. \A l \in Level : Entries(l)' = Entries(l)
  BY <1>1 DEF Entries, Entry, PlaceOf, Listed
<1>3. Entries(level + 1) = {}
  <2>1. levels[level + 1] = <<>>
    BY <1>1 DEF Open, IInv, Kinds
  <2>2. Listed(level + 1) = {}
    BY <2>1 DEF Listed, ToSet
  <2> QED
    BY <2>2 DEF Entries
<1> DEFINE S == {Entries(l) : l \in Level} \cup {{}}
           m == Mapped
           t == Append(m, {})
<1>4. m \in Seq(S) /\ Len(m) = level + 1
  <2>1. Mapped \in Seq({Entries(l) : l \in Level}) /\ Len(Mapped) = level + 1
    BY ScopesLemma
  <2> QED
    BY <2>1, SeqMonotonic
<1>5. {} \in S
  OBVIOUS
<1> HIDE DEF S, m
<1>6. /\ t \in Seq(S) /\ Len(t) = level + 2
      /\ \A i \in 1 .. level + 1 : t[i] = m[i]
      /\ t[level + 2] = {}
  BY <1>1, <1>4, <1>5, AppendProperties
<1>7. DOMAIN t = 1 .. level + 2
  BY <1>6, LenProperties
<1> HIDE DEF t
<1>8. \A i \in 1 .. level + 2 : Mapped'[i] = t[i]
  <2> SUFFICES ASSUME NEW i \in 1 .. level + 2 PROVE Mapped'[i] = t[i]
    OBVIOUS
  <2>1. i - 1 \in Level /\ i \in 1 .. level' + 1
    BY <1>1, SymbolAssumption DEF Level
  <2>2. Mapped'[i] = Entries(i - 1)
    BY <1>2, <2>1, MappedNext
  <2>3. CASE i \in 1 .. level + 1
    BY <1>6, <2>2, <2>3, MappedLemma DEF m
  <2>4. CASE i = level + 2
    <3>1. i - 1 = level + 1
      BY <1>1, <2>4
    <3> QED
      BY <1>3, <1>6, <2>2, <2>4, <3>1
  <2> QED
    BY <1>1, <2>3, <2>4
<1>9. Mapped' = [i \in 1 .. level + 2 |-> Mapped'[i]]
  <2>1. level' + 1 = level + 2
    BY <1>1
  <2> QED
    BY <2>1, MappedNext
<1>10. t = [i \in 1 .. level + 2 |-> t[i]]
  BY <1>6, <1>7, LenProperties
<1>11. Mapped' = t
  BY <1>8, <1>9, <1>10
<1> QED
  BY <1>11 DEF Scopes!Open, Mapped, t, m

\* A block that ends takes the innermost scope.
LEMMA CloseStep ==
    ASSUME Open, LevelDown
    PROVE  Scopes!Close
<1>1. PICK k \in Level : k = level /\ k > 0 /\ k \in Nat
  BY OpenLemma DEF LevelDown
<1>2. levels' = [levels EXCEPT ![k] = <<>>] /\ symbols' = symbols /\ level' = k - 1
  BY <1>1 DEF LevelDown
<1>3. \A l \in Level : l # k => Entries(l)' = Entries(l)
  BY <1>2 DEF Open, IInv, Kinds, Entries, Entry, PlaceOf, Listed
<1> DEFINE S == {Entries(l) : l \in Level}
           m == Mapped
           t == SubSeq(m, 1, k)
<1>4. m \in Seq(S) /\ Len(m) = k + 1
  BY <1>1, ScopesLemma
<1> HIDE DEF S, m
<1>5. \A i \in 1 .. k : m[i] \in S
  <2>1. \A i \in 1 .. k : i \in 1 .. Len(m)
    BY <1>1, <1>4
  <2> QED
    BY <1>4, <2>1, ElementOfSeq
<1>6. 1 \in Int /\ k \in Int /\ 1 <= k
  BY <1>1
<1>7. /\ t \in Seq(S) /\ Len(t) = (IF 1 <= k THEN k - 1 + 1 ELSE 0)
      /\ \A i \in 1 .. k - 1 + 1 : t[i] = m[1 + i - 1]
  BY <1>5, <1>6, SubSeqProperties
<1> HIDE DEF t
<1>8. Len(t) = k /\ \A i \in 1 .. k : t[i] = m[i]
  BY <1>6, <1>7
<1>9. t = [i \in 1 .. k |-> t[i]]
  BY <1>7, <1>8, LenProperties
<1>10. \A i \in 1 .. k : Mapped'[i] = m[i]
  <2> SUFFICES ASSUME NEW i \in 1 .. k PROVE Mapped'[i] = m[i]
    OBVIOUS
  <2>1. i - 1 \in Level /\ i - 1 # k /\ i \in 1 .. level' + 1 /\ i \in 1 .. level + 1
    BY <1>1, <1>2, SymbolAssumption DEF Level
  <2> QED
    BY <1>3, <2>1, MappedLemma, MappedNext DEF m
<1>11. Mapped' = [i \in 1 .. k |-> Mapped'[i]]
  <2>1. level' + 1 = k
    BY <1>1, <1>2
  <2> QED
    BY <2>1, MappedNext
<1>12. Mapped' = t
  BY <1>8, <1>9, <1>10, <1>11
<1>13. Len(m) > 1 /\ Len(m) - 1 = k
  BY <1>4, <1>6
<1>14. Len(m) > 1 /\ Mapped' = SubSeq(m, 1, Len(m) - 1)
  BY <1>12, <1>13 DEF t
<1> QED
  BY <1>14 DEF Scopes!Close, Mapped, m

\* Every step of the table is a step of the scopes, or they do not see it.
LEMMA NextStep == Open /\ Open' /\ [Next]_vars => [Scopes!Next]_Scopes!vars
<1> SUFFICES ASSUME Open, Open', [Next]_vars
             PROVE  [Scopes!Next]_Scopes!vars
  OBVIOUS
<1> USE DEF Scopes!Next
<1>1. Names \subseteq Nat
  BY SymbolAssumption
<1>2. ASSUME UNCHANGED <<levels, level, symbols>>
      PROVE  UNCHANGED Scopes!vars
  BY <1>2 DEF Scopes!vars, Listed, PlaceOf
<1>3. ASSUME NEW name \in Names, NEW type \in Types,
             Insert(name, type) \/ CreateNamedLocalBuf(name, type)
      PROVE  [Scopes!Next]_Scopes!vars
  <2>1. CASE Lookup(name) # None
    BY <1>2, <1>3, <2>1 DEF Insert, CreateNamedLocalBuf
  <2>2. CASE Lookup(name) = None
    <3>1. PICK lvl \in {0, level} : Allocate(name, type, lvl) /\ level' = level
      BY <1>3, <2>2 DEF Insert, CreateNamedLocalBuf
    <3> QED
      BY <1>1, <2>2, <3>1, AllocateStep
  <2> QED
    BY <2>1, <2>2
<1>4. ASSUME NEW name \in Names, NEW type \in Types, InsertReg(name, type)
      PROVE  [Scopes!Next]_Scopes!vars
  <2>1. CASE Lookup(name) # None
    BY <1>2, <1>4, <2>1 DEF InsertReg
  <2>2. CASE Lookup(name) = None
    BY <1>4, <2>2, InsertRegStep
  <2> QED
    BY <2>1, <2>2
<1>5. ASSUME NEW type \in Types, InsertTmp(type) \/ CreateLocalBuf(type)
      PROVE  Scopes!Next
  <2>1. PICK lvl \in {0, level} : Allocate(tmpCount, type, lvl) /\ level' = level
    BY <1>5 DEF InsertTmp, CreateLocalBuf
  <2>2. tmpCount \in Nat /\ Lookup(tmpCount) = None
    BY FreshTemporary DEF Open
  <2> QED
    BY <2>1, <2>2, AllocateStep
<1>6. ASSUME NEW tmp \in Temporaries, NEW name \in Names, PromoteTmp(tmp, name)
      PROVE  Scopes!Next
  BY <1>6, RenameStep
<1>7. CASE LevelUp
  BY <1>7, OpenStep
<1>8. CASE LevelDown
  BY <1>8, CloseStep
<1>9. CASE UNCHANGED vars
  BY <1>2, <1>9 DEF vars
<1> QED
  BY <1>3, <1>4, <1>5, <1>6, <1>7, <1>8, <1>9 DEF Next

-----------------------------------------------------------------------------
\* The hash table, the lists of the levels, the numbered symbols and the count of
\* bytes are a stack of scopes whose variables never clash (frontend/symbol_table.c,
\* docs/Subtilis.md): every declaration, promotion and end of a block is one, as long
\* as the program opens fewer blocks than SUBTILIS_SYMBOL_MAX_LEVELS.
THEOREM Refinement ==
    ASSUME MaxDepth < MaxLevels
    PROVE  Spec => ImplementsEnvironment
<1>1. Init => Scopes!Init
  <2> SUFFICES ASSUME Init PROVE Scopes!Init
    OBVIOUS
  <2>1. level = 0 /\ levels[0] = <<>>
    BY SymbolAssumption DEF Init
  <2>2. Mapped = [i \in 1 .. 1 |-> {}]
    <3>1. Listed(0) = {}
      BY <2>1 DEF Listed, ToSet
    <3>2. \A i \in 1 .. 1 : i - 1 = 0
      OBVIOUS
    <3> QED
      BY <2>1, <3>1, <3>2 DEF Mapped
  <2>3. Mapped = <<{}>>
    BY <2>2
  <2> QED
    BY <2>3 DEF Scopes!Init, Mapped
<1>2. IInv /\ IInv' /\ [Next]_vars => [Scopes!Next]_Scopes!vars
  BY NextStep DEF Open
<1>3. Spec => []IInv
  BY Invariant
<1> QED
  BY <1>1, <1>2, <1>3, PTL DEF Spec, ImplementsEnvironment, Scopes!Spec

=============================================================================
