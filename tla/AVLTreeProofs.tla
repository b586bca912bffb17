--------------------------- MODULE AVLTreeProofs ---------------------------
(***************************************************************************)
(* Proofs about ppl7::AVLTree for every finite set of items.               *)
(*                                                                         *)
(* A tree is described by two functions: D gives the nodes below a node,   *)
(* itself included (Linked: they are the node and what is below its two    *)
(* children, which share none), and H the height of its subtree.  Ordered  *)
(* relates the keys of a node to those below its children, Fits the        *)
(* balances to H, except at the nodes X that an operation has still to     *)
(* look at.  A rotation changes D and H at two nodes only.                 *)
(*                                                                         *)
(* On the way up from an insertion (InsertInv) the only node that does not *)
(* fit has grown by one (Grown), on the way up from a removal (DeleteInv)  *)
(* it has shrunk by one (Shrunk); each call settles it or hands it to the  *)
(* parent.  A removed item with two children first changes places with its *)
(* neighbour: the nodes between them are renamed (Renamed), and the order  *)
(* holds but for the item (OrderedBut), which is then spliced out.         *)
(*                                                                         *)
(* The provers have no induction over trees.  Upwards replaces it by a     *)
(* node of least rank outside a set, TreeFunction shows that functions     *)
(* which are defined by recursion on the children exist.                   *)
(***************************************************************************)
EXTENDS AVLTree, SumTheorems, SequenceTheorems

LEMMA ItemsFinite == Cardinality(Items) \in Nat
BY TreeAssumption, FS_CardinalityType

-----------------------------------------------------------------------------
(* Induction over a tree                                                   *)

\* Every child has a lower rank than its parent.
Ranked(child, R) ==
    /\ child \in [Items -> [Sides -> Nodes]]
    /\ R \in [Nodes -> 0..Cardinality(Items)]
    /\ \A n \in Items, s \in Sides : R[child[n][s]] < R[n]

\* What holds for the empty tree, and for a node if it does for its children,
\* holds for all nodes.
LEMMA Upwards ==
    ASSUME NEW child, NEW R, Ranked(child, R), NEW S, NULL \in S,
           \A n \in Items : (\A s \in Sides : child[n][s] \in S) => n \in S
    PROVE  Nodes \subseteq S
<1> DEFINE Bad == {R[n] : n \in Nodes \ S}
<1> SUFFICES ASSUME Nodes \ S # {} PROVE FALSE
  OBVIOUS
<1> USE ItemsFinite
<1>1. PICK k \in Bad : \A j \in Bad : k <= j
  <2>1. Bad \in SUBSET Nat /\ Bad # {}
    BY DEF Ranked
  <2> HIDE DEF Bad
  <2> QED BY <2>1, Least
<1>2. PICK n \in Nodes \ S : R[n] = k
  OBVIOUS
<1>3. n \in Items
  BY DEF Nodes
<1>4. ASSUME NEW s \in Sides PROVE child[n][s] \in S
  <2>1. child[n][s] \in Nodes /\ R[child[n][s]] < R[n] /\ R[child[n][s]] \in Nat /\ R[n] \in Nat
    BY <1>3 DEF Ranked
  <2>2. child[n][s] \notin S => R[child[n][s]] \in Bad
    BY <2>1
  <2> HIDE DEF Bad
  <2> QED BY <1>1, <1>2, <2>1, <2>2
<1> QED BY <1>2, <1>3, <1>4

\* The function f is defined by g from its values at the children.
Unfolds(f, child, V, v, g) ==
    /\ f \in [Nodes -> V] /\ f[NULL] = v
    /\ \A n \in Items : f[n] = g[<< n, f[child[n][-1]], f[child[n][1]] >>]

Combines(g, V) == \A n \in Items, x, y \in V : g[<< n, x, y >>] \in V

\* A function that a recursion on the children defines exists.
LEMMA TreeFunction ==
    ASSUME NEW child, NEW R, Ranked(child, R), NULL \notin Items,
           NEW V, NEW v \in V, NEW g, Combines(g, V)
    PROVE  \E f : Unfolds(f, child, V, v, g)
<1> DEFINE Deep(f, k) == \A n \in Items : R[n] < k =>
                            f[n] = g[<<n, f[child[n][-1]], f[child[n][1]]>>]
           Good(k) == \E f \in [Nodes -> V] : f[NULL] = v /\ Deep(f, k)
           Bad == {k \in Nat : ~Good(k)}
<1> USE ItemsFinite
<1>1. \A n \in Items : /\ child[n][-1] \in Nodes /\ child[n][1] \in Nodes
                       /\ R[child[n][-1]] < R[n] /\ R[child[n][1]] < R[n]
                       /\ R[n] \in Nat /\ R[child[n][-1]] \in Nat /\ R[child[n][1]] \in Nat
  BY DEF Ranked, Sides, Nodes
<1>2. Good(0)
  <2> DEFINE f == [n \in Nodes |-> v]
  <2>1. f \in [Nodes -> V] /\ f[NULL] = v /\ Deep(f, 0)
    BY <1>1 DEF Nodes
  <2> QED BY <2>1
<1>3. ASSUME NEW k \in Nat, Good(k) PROVE Good(k + 1)
  <2>1. PICK f \in [Nodes -> V] : f[NULL] = v /\ Deep(f, k)
    BY <1>3
  <2> DEFINE h == [n \in Nodes |-> IF n = NULL THEN v
                                   ELSE g[<<n, f[child[n][-1]], f[child[n][1]]>>]]
  <2>2. h \in [Nodes -> V] /\ h[NULL] = v
    <3>1. \A n \in Items : f[child[n][-1]] \in V /\ f[child[n][1]] \in V
      BY <1>1
    <3> QED BY <3>1 DEF Nodes, Combines
  <2>3. \A n \in Items : h[n] = g[<<n, f[child[n][-1]], f[child[n][1]]>>]
    BY DEF Nodes
  <2>4. ASSUME NEW n \in Nodes, n \in Items => R[n] < k PROVE h[n] = f[n]
    BY <2>1, <2>3, <2>4 DEF Nodes
  <2>5. ASSUME NEW n \in Items, R[n] < k + 1, NEW c \in Nodes, R[c] < R[n] PROVE h[c] = f[c]
    <3>1. c \in Items => R[c] < k
      BY <2>5 DEF Ranked, Nodes
    <3> QED BY <2>4, <3>1
  <2>6. Deep(h, k + 1)
    <3> HIDE DEF h
    <3> SUFFICES ASSUME NEW n \in Items, R[n] < k + 1
                 PROVE  h[n] = g[<<n, h[child[n][-1]], h[child[n][1]]>>]
      OBVIOUS
    <3>1. h[child[n][-1]] = f[child[n][-1]] /\ h[child[n][1]] = f[child[n][1]]
      BY <1>1, <2>5
    <3> QED BY <2>3, <3>1
  <2> HIDE DEF h, Deep
  <2> QED BY <2>2, <2>6
<1>4. Bad = {}
  <2> HIDE DEF Good
  <2> SUFFICES ASSUME Bad # {} PROVE FALSE
    OBVIOUS
  <2>1. PICK k \in Bad : \A j \in Bad : k <= j
    <3>1. Bad \in SUBSET Nat
      OBVIOUS
    <3> HIDE DEF Bad
    <3> QED BY <3>1, Least
  <2>2. k # 0
    BY <1>2, <2>1
  <2>3. k - 1 \in Nat /\ k - 1 \notin Bad
    BY <2>1, <2>2
  <2> QED BY <1>3, <2>1, <2>3
<1>5. Good(Cardinality(Items) + 1)
  <2> HIDE DEF Good
  <2> QED BY <1>4
<1>6. PICK f \in [Nodes -> V] : f[NULL] = v /\ Deep(f, Cardinality(Items) + 1)
  BY <1>5
<1>7. \A n \in Items : R[n] < Cardinality(Items) + 1
  BY DEF Ranked, Nodes
<1> QED BY <1>6, <1>7 DEF Unfolds

-----------------------------------------------------------------------------
(* The shape of a tree.  D[n] is the set of nodes below n, n included.     *)

Shapes == [child : [Items -> [Sides -> Nodes]], parent : [Items -> Nodes],
           balance : [Items -> Int], root : Nodes, numElements : Int]

\* The nodes M form a tree: subtrees are disjoint, and the pointers up are the
\* inverse of the pointers down.
Linked(t, D, M) ==
    /\ t \in Shapes
    /\ M \in SUBSET Items
    /\ D \in [Nodes -> SUBSET Items]
    /\ D[NULL] = {} /\ D[t.root] = M
    /\ t.root # NULL => t.root \in M /\ t.parent[t.root] = NULL
    /\ \A n \in M, s \in Sides :
          /\ D[n] \subseteq M
          /\ D[n] = {n} \cup D[t.child[n][s]] \cup D[t.child[n][-s]]
          /\ n \notin D[t.child[n][s]]
          /\ D[t.child[n][s]] \cap D[t.child[n][-s]] = {}
          /\ t.child[n][s] # NULL => t.child[n][s] \in M /\ t.parent[t.child[n][s]] = n
    /\ \A n \in M : n # t.root =>
          t.parent[n] \in M /\ \E s \in Sides : t.child[t.parent[n]][s] = n

\* A node and a node below it on side r.
Before(d, m, n)    == IF d THEN m.key <= n.key ELSE m.key < n.key
OnSide(d, r, m, n) == IF r = -1 THEN Before(d, m, n) ELSE Before(d, n, m)

LEMMA OnSideTransitive ==
    ASSUME NEW d \in BOOLEAN, NEW r \in Sides, NEW l \in Items, NEW m \in Items, NEW n \in Items,
           OnSide(d, r, l, m), OnSide(d, r, m, n)
    PROVE  OnSide(d, r, l, n)
BY TreeAssumption DEF OnSide, Before, Sides

LEMMA OnSideTurned ==
    ASSUME NEW d \in BOOLEAN, NEW r \in Sides, NEW m \in Items, NEW n \in Items
    PROVE  OnSide(d, r, m, n) <=> OnSide(d, -r, n, m)
BY DEF OnSide, Sides

Ordered(t, D, M, d) ==
    \A n \in M, r \in Sides : \A m \in D[t.child[n][r]] : OnSide(d, r, m, n)

\* The heights of the subtrees as the parents see them.
Tilts(t, H, n) == t.balance[n] = H[t.child[n][1]] - H[t.child[n][-1]]
Stands(t, H, n, x) ==
    /\ \A s \in Sides : x > H[t.child[n][s]]
    /\ \E s \in Sides : x = 1 + H[t.child[n][s]]
Level(t, H, n) == t.balance[n] \in {-1, 0, 1} /\ Stands(t, H, n, H[n])

\* The balances are right, and every node but those of X is balanced and has
\* the height that its parent sees.
Fits(t, H, M, X) ==
    /\ H \in [Nodes -> Nat] /\ H[NULL] = 0
    /\ \A n \in M : Tilts(t, H, n)
    /\ \A n \in M \ X : Level(t, H, n)

\* What Linked says of a node.
LEMMA Parts ==
    ASSUME NEW t, NEW D, NEW M, Linked(t, D, M), NEW n \in M, NEW s \in Sides
    PROVE  /\ n \in Items /\ n \in D[n] /\ D[n] \subseteq M /\ n # NULL
           /\ t.child[n][s] \in Nodes /\ t.child[n][-s] \in Nodes
           /\ t.child[n][s] \in M \cup {NULL} /\ t.child[n][-s] \in M \cup {NULL}
           /\ D[n] = {n} \cup D[t.child[n][s]] \cup D[t.child[n][-s]]
           /\ n \notin D[t.child[n][s]] /\ n \notin D[t.child[n][-s]]
           /\ D[t.child[n][s]] \cap D[t.child[n][-s]] = {}
           /\ t.child[n][s] # NULL => t.parent[t.child[n][s]] = n /\ t.child[n][s] \in D[t.child[n][s]]
           /\ t.child[n][-s] # NULL => t.parent[t.child[n][-s]] = n /\ t.child[n][-s] \in D[t.child[n][-s]]
<1>1. -s \in Sides /\ -(-s) = s
  BY DEF Sides
<1>2. n \in Items /\ n # NULL
  BY TreeAssumption DEF Linked
<1>3. t.child[n][s] \in Nodes /\ t.child[n][-s] \in Nodes
  BY <1>1, <1>2 DEF Linked, Shapes
<1>4. \A m \in M : m \in D[m]
  BY <1>1 DEF Linked
<1> QED BY <1>1, <1>2, <1>3, <1>4 DEF Linked

\* The number of the nodes below is a rank.
LEMMA LinkedRanked ==
    ASSUME NEW t, NEW D, NEW M, Linked(t, D, M)
    PROVE  Ranked([n \in Items |-> IF n \in M THEN t.child[n] ELSE [s \in Sides |-> NULL]],
                  [n \in Nodes |-> IF n \in M THEN Cardinality(D[n]) ELSE IF n = NULL THEN 0 ELSE 1])
<1> DEFINE child == [n \in Items |-> IF n \in M THEN t.child[n] ELSE [s \in Sides |-> NULL]]
           R == [n \in Nodes |-> IF n \in M THEN Cardinality(D[n]) ELSE IF n = NULL THEN 0 ELSE 1]
<1> USE ItemsFinite
<1>1. IsFiniteSet(Items) /\ NULL \notin Items /\ M \subseteq Items
  BY TreeAssumption DEF Linked
<1>2. child \in [Items -> [Sides -> Nodes]]
  BY <1>1 DEF Linked, Shapes, Nodes
<1>3. \A n \in M : Cardinality(D[n]) \in 1..Cardinality(Items)
  <2> TAKE n \in M
  <2>1. D[n] \in SUBSET Items /\ n \in D[n]
    BY SMTT(30), <1>1, -1 \in Sides, Parts DEF Linked, Nodes, Sides
  <2>2. IsFiniteSet(D[n]) /\ Cardinality(D[n]) <= Cardinality(Items) /\ Cardinality(D[n]) \in Nat
    BY <1>1, <2>1, FS_Subset, FS_CardinalityType
  <2>3. Cardinality(D[n]) # 0
    BY <2>1, <2>2, FS_EmptySet
  <2> QED BY <2>2, <2>3
<1>4. \A n \in Items : 1 <= Cardinality(Items)
  BY <1>1, FS_EmptySet
<1>5. R \in [Nodes -> 0..Cardinality(Items)]
  BY <1>1, <1>3, <1>4 DEF Nodes
<1>6. ASSUME NEW n \in Items, NEW s \in Sides PROVE R[child[n][s]] < R[n]
  <2>1. CASE n \notin M
    <3>1. child[n][s] = NULL /\ R[NULL] = 0 /\ R[n] = 1
      BY <1>1, <2>1 DEF Nodes
    <3> QED BY <3>1
  <2>2. CASE n \in M /\ t.child[n][s] \notin M
    <3>1. child[n][s] = NULL /\ R[NULL] = 0 /\ R[n] = Cardinality(D[n])
      BY <1>1, <2>2, Parts DEF Nodes
    <3> QED BY <1>3, <2>2, <3>1
  <2>3. CASE n \in M /\ t.child[n][s] \in M
    <3> DEFINE c == t.child[n][s]
    <3>1. D[c] \subseteq D[n] /\ D[c] # D[n] /\ D[n] \subseteq Items
      BY <1>1, <2>3, Parts
    <3>2. IsFiniteSet(D[n])
      BY <1>1, <3>1, FS_Subset
    <3>3. Cardinality(D[c]) < Cardinality(D[n])
      BY <1>3, <2>3, <3>1, <3>2, FS_Subset
    <3>4. child[n][s] = c /\ R[c] = Cardinality(D[c]) /\ R[n] = Cardinality(D[n])
      BY <1>1, <2>3 DEF Nodes
    <3> QED BY <3>3, <3>4
  <2> QED BY <2>1, <2>2, <2>3
<1> QED BY <1>2, <1>5, <1>6 DEF Ranked

\* Induction over the nodes of a tree.
LEMMA TreeInduction ==
    ASSUME NEW t, NEW D, NEW M, Linked(t, D, M), NEW S, NULL \in S,
           \A n \in M : t.child[n][-1] \in S /\ t.child[n][1] \in S => n \in S
    PROVE  M \subseteq S
<1> DEFINE child == [n \in Items |-> IF n \in M THEN t.child[n] ELSE [s \in Sides |-> NULL]]
           R == [n \in Nodes |-> IF n \in M THEN Cardinality(D[n]) ELSE IF n = NULL THEN 0 ELSE 1]
           T == S \cup (Items \ M)
<1>1. Ranked(child, R)
  BY LinkedRanked
<1>2. ASSUME NEW n \in Items, \A s \in Sides : child[n][s] \in T PROVE n \in T
  <2>1. CASE n \in M
    <3>1. child[n][-1] = t.child[n][-1] /\ child[n][1] = t.child[n][1]
      BY <2>1
    <3>2. /\ t.child[n][-1] \in M \cup {NULL} /\ t.child[n][1] \in M \cup {NULL}
          /\ t.child[n][-1] \in T /\ t.child[n][1] \in T
      BY <1>2, <2>1, <3>1, -1 \in Sides /\ 1 \in Sides, Parts DEF Sides
    <3>3. t.child[n][-1] \in S /\ t.child[n][1] \in S
      BY <3>2, TreeAssumption
    <3> QED BY <2>1, <3>3
  <2> QED BY <2>1
<1>3. NULL \in T
  OBVIOUS
<1> HIDE DEF child, R, T
<1>4. Nodes \subseteq T
  BY <1>1, <1>2, <1>3, Upwards
<1> QED BY <1>4 DEF T, Nodes, Linked

\* What is below a node that is below n is below n.
LEMMA Inside ==
    ASSUME NEW t, NEW D, NEW M, Linked(t, D, M)
    PROVE  \A n \in M : \A m \in D[n] : m \in M /\ D[m] \subseteq D[n]
<1> DEFINE S == {n \in Nodes : \A m \in D[n] : D[m] \subseteq D[n]}
<1>1. NULL \in S
  BY DEF Linked, Nodes
<1>2. ASSUME NEW n \in M, t.child[n][-1] \in S, t.child[n][1] \in S PROVE n \in S
  <2>1. D[n] = {n} \cup D[t.child[n][-1]] \cup D[t.child[n][1]] /\ n \in Nodes
    BY Parts, -1 \in Sides DEF Sides, Nodes
  <2> QED BY <1>2, <2>1
<1> HIDE DEF S
<1>3. M \subseteq S
  BY <1>1, <1>2, TreeInduction
<1>4. \A n \in M : D[n] \subseteq M
  BY -1 \in Sides, Parts DEF Sides
<1> QED BY <1>3, <1>4 DEF S

\* What changes of the shape leave alone: the number of the nodes, and the nodes
\* that are not in the tree.
Rest(t, M) == << t.numElements, [n \in Items \ M |-> [s \in Sides |-> t.child[n][s]]] >>

-----------------------------------------------------------------------------
(* Rotations                                                               *)

\* How much higher x is than y, seen from side s.
Lean(s, x, y) == IF s = 1 THEN x - y ELSE y - x

\* The rows of the table of balances.
LEMMA BalancesRows ==
    ASSUME NEW s \in {-1, 1}, NEW b \in Int, NEW c \in Int
    PROVE  /\ b = s /\ c = -s => Balances(s, b, c) = << 0, (-2) * s >>
           /\ b = s /\ c = s => Balances(s, b, c) = << -s, -s >>
           /\ b = s /\ c = 0 => Balances(s, b, c) = << 0, -s >>
           /\ b = 2 * s /\ c = s => Balances(s, b, c) = << 0, 0 >>
           /\ b = 2 * s /\ c = 0 => Balances(s, b, c) = << s, -s >>
           /\ b = 2 * s /\ c = 2 * s => Balances(s, b, c) = << -s, 0 >>
<1>1. ASSUME b = s, c = -s PROVE Balances(s, b, c) = << 0, (-2) * s >>
  BY <1>1 DEF Balances
<1>2. ASSUME b = s, c = s PROVE Balances(s, b, c) = << -s, -s >>
  BY <1>2 DEF Balances
<1>3. ASSUME b = s, c = 0 PROVE Balances(s, b, c) = << 0, -s >>
  BY <1>3 DEF Balances
<1>4. ASSUME b = 2 * s, c = s PROVE Balances(s, b, c) = << 0, 0 >>
  BY <1>4 DEF Balances
<1>5. ASSUME b = 2 * s, c = 0 PROVE Balances(s, b, c) = << s, -s >>
  BY <1>5 DEF Balances
<1>6. ASSUME b = 2 * s, c = 2 * s PROVE Balances(s, b, c) = << -s, 0 >>
  BY <1>6 DEF Balances
<1> QED BY <1>1, <1>2, <1>3, <1>4, <1>5, <1>6

\* The table is right for a node that is heavier on side s.  h, l, i and o are
\* the heights of the heavy child, of the light one, and of the subtrees of the
\* former inside and outside; m becomes the height of the node.
InTable(s, h, l, i, o, b, c, m) ==
    /\ s \in {-1, 1} /\ {h, l, i, o, m} \subseteq Nat /\ {b, c} \subseteq Int
    /\ b = Lean(s, h, l) /\ c = Lean(s, o, i)
    /\ h > i /\ h > o /\ (h = 1 + i \/ h = 1 + o)
    /\ m > i /\ m > l /\ (m = 1 + i \/ m = 1 + l)
    /\ (b = s /\ c \in {-s, 0, s}) \/ (b = 2 * s /\ c \in {0, s, 2 * s})

LEMMA BalancesRight ==
    ASSUME NEW s, NEW h, NEW l, NEW i, NEW o, NEW b, NEW c, NEW m, InTable(s, h, l, i, o, b, c, m)
    PROVE  LET bal == Balances(s, b, c)
           IN  bal[1] \in {-1, 0, 1} /\ bal[1] = Lean(s, i, l) /\ bal[2] = Lean(s, o, m)
<1>0. /\ s \in {-1, 1} /\ h \in Nat /\ l \in Nat /\ i \in Nat /\ o \in Nat /\ m \in Nat
      /\ b \in Int /\ c \in Int /\ b = Lean(s, h, l) /\ c = Lean(s, o, i)
      /\ h > i /\ h > o /\ (h = 1 + i \/ h = 1 + o)
      /\ m > i /\ m > l /\ (m = 1 + i \/ m = 1 + l)
      /\ (b = s /\ c \in {-s, 0, s}) \/ (b = 2 * s /\ c \in {0, s, 2 * s})
  BY DEF InTable
<1> USE <1>0
<1> DEFINE bal == Balances(s, b, c)
<1>1. CASE b = s /\ c = -s
  <2>1. bal = << 0, (-2) * s >>
    BY <1>1, BalancesRows
  <2>2. bal[1] \in {-1, 0, 1} /\ bal[1] = Lean(s, i, l) /\ bal[2] = Lean(s, o, m)
    <3> HIDE DEF bal
    <3> QED BY <1>1, <2>1 DEF Lean
  <2> QED BY <2>2
<1>2. CASE b = s /\ c = s
  <2>1. bal = << -s, -s >>
    BY <1>2, BalancesRows
  <2>2. bal[1] \in {-1, 0, 1} /\ bal[1] = Lean(s, i, l) /\ bal[2] = Lean(s, o, m)
    <3> HIDE DEF bal
    <3> QED BY <1>2, <2>1 DEF Lean
  <2> QED BY <2>2
<1>3. CASE b = s /\ c = 0
  <2>1. bal = << 0, -s >>
    BY <1>3, BalancesRows
  <2>2. bal[1] \in {-1, 0, 1} /\ bal[1] = Lean(s, i, l) /\ bal[2] = Lean(s, o, m)
    <3> HIDE DEF bal
    <3> QED BY <1>3, <2>1 DEF Lean
  <2> QED BY <2>2
<1>4. CASE b = 2 * s /\ c = s
  <2>1. bal = << 0, 0 >>
    BY <1>4, BalancesRows
  <2>2. bal[1] \in {-1, 0, 1} /\ bal[1] = Lean(s, i, l) /\ bal[2] = Lean(s, o, m)
    <3> HIDE DEF bal
    <3> QED BY <1>4, <2>1 DEF Lean
  <2> QED BY <2>2
<1>5. CASE b = 2 * s /\ c = 0
  <2>1. bal = << s, -s >>
    BY <1>5, BalancesRows
  <2>2. bal[1] \in {-1, 0, 1} /\ bal[1] = Lean(s, i, l) /\ bal[2] = Lean(s, o, m)
    <3> HIDE DEF bal
    <3> QED BY <1>5, <2>1 DEF Lean
  <2> QED BY <2>2
<1>6. CASE b = 2 * s /\ c = 2 * s
  <2>1. bal = << -s, 0 >>
    BY <1>6, BalancesRows
  <2>2. bal[1] \in {-1, 0, 1} /\ bal[1] = Lean(s, i, l) /\ bal[2] = Lean(s, o, m)
    <3> HIDE DEF bal
    <3> QED BY <1>6, <2>1 DEF Lean
  <2> QED BY <2>2
<1> QED BY <1>1, <1>2, <1>3, <1>4, <1>5, <1>6

LEMMA BalancesType ==
    ASSUME NEW s \in Sides, NEW b \in Int, NEW c \in Int
    PROVE  Balances(s, b, c)[1] \in Int /\ Balances(s, b, c)[2] \in Int
<1>1. CASE s = 1
  BY <1>1, SMTT(30) DEF Balances
<1>2. CASE s = -1
  BY <1>2, SMTT(30) DEF Balances
<1> QED BY <1>1, <1>2 DEF Sides

\* What rotate() assigns.
LEMMA RotateFields ==
    ASSUME NEW t \in Shapes, NEW kn \in Items, NEW s \in Sides, s = HeavySide(t, kn),
           NEW c \in Items, c = t.child[kn][s], c # kn,
           t.parent[kn] \notin {kn, c}, t.child[c][-s] \notin {kn, c}
    PROVE  LET u   == rotate(t, kn)
               bal == Balances(s, t.balance[kn], t.balance[c])
           IN  /\ u \in Shapes /\ u.numElements = t.numElements
               /\ u.root = IF t.parent[kn] = NULL THEN c ELSE t.root
               /\ u.child[kn][s] = t.child[c][-s] /\ u.child[kn][-s] = t.child[kn][-s]
               /\ u.child[c][-s] = kn /\ u.child[c][s] = t.child[c][s]
               /\ \A n \in Items \ {kn, c}, r \in Sides :
                     u.child[n][r] = IF n = t.parent[kn] /\ t.child[n][r] = kn THEN c ELSE t.child[n][r]
               /\ u.parent[kn] = c /\ u.parent[c] = t.parent[kn]
               /\ \A n \in Items \ {kn, c} :
                     u.parent[n] = IF n = t.child[c][-s] THEN kn ELSE t.parent[n]
               /\ u.balance[kn] = bal[1] /\ u.balance[c] = bal[2]
               /\ \A n \in Items \ {kn, c} : u.balance[n] = t.balance[n]
<1> DEFINE inner == t.child[c][-s]
           top == t.parent[kn]
           bal == Balances(s, t.balance[kn], t.balance[c])
           child == [n \in Items |-> RotatedChild(t, kn, s, c, n)]
           parent == [n \in Items |-> RotatedParent(t, kn, s, c, n)]
           balance == [t.balance EXCEPT ![kn] = bal[1], ![c] = bal[2]]
           root == IF top = NULL THEN c ELSE t.root
           u == rotate(t, kn)
<1>1. -s \in Sides /\ s # -s
  BY DEF Sides
<1>2. /\ t.child \in [Items -> [Sides -> Nodes]] /\ t.parent \in [Items -> Nodes]
      /\ t.balance \in [Items -> Int] /\ t.root \in Nodes /\ t.numElements \in Int
      /\ inner \in Nodes /\ top \in Nodes /\ kn \in Nodes /\ c \in Nodes
  BY <1>1 DEF Shapes, Nodes
<1>3. DOMAIN t = {"child", "parent", "balance", "root", "numElements"}
  BY DEF Shapes
<1>4. /\ u.child = child /\ u.parent = parent /\ u.balance = balance /\ u.root = root
      /\ u.numElements = t.numElements
  <2>1. u = [t EXCEPT !.child = child, !.parent = parent, !.balance[kn] = bal[1],
                      !.balance[c] = bal[2], !.root = root]
    BY DEF rotate, Heavy
  <2> HIDE DEF u, child, parent, root, bal
  <2> QED BY <1>3, <2>1
<1>40. u = [child |-> child, parent |-> parent, balance |-> balance, root |-> root,
           numElements |-> t.numElements]
  <2>1. u = [t EXCEPT !.child = child, !.parent = parent, !.balance[kn] = bal[1],
                      !.balance[c] = bal[2], !.root = root]
    BY DEF rotate, Heavy
  <2> HIDE DEF u, child, parent, root, bal
  <2> QED BY <1>3, <2>1
<1>5. bal[1] \in Int /\ bal[2] \in Int
  BY <1>2, BalancesType
<1>6. /\ child[kn] = [t.child[kn] EXCEPT ![s] = inner]
      /\ child[c] = [t.child[c] EXCEPT ![-s] = kn]
      /\ parent[kn] = c /\ parent[c] = top
  <2>1. kn # c /\ kn # t.parent[kn] /\ c # t.parent[kn] /\ kn # t.child[c][-s] /\ c # t.child[c][-s]
    OBVIOUS
  <2>2. RotatedChild(t, kn, s, c, kn) = [t.child[kn] EXCEPT ![s] = t.child[c][-s]]
    BY <2>1 DEF RotatedChild
  <2>3. RotatedChild(t, kn, s, c, c) = [t.child[c] EXCEPT ![-s] = kn]
    BY <2>1 DEF RotatedChild
  <2>4. RotatedParent(t, kn, s, c, kn) = c
    BY <2>1 DEF RotatedParent
  <2>5. RotatedParent(t, kn, s, c, c) = t.parent[kn]
    BY <2>1 DEF RotatedParent
  <2> QED BY <2>2, <2>3, <2>4, <2>5
<1>61. ASSUME NEW n \in Items \ {kn, c}
       PROVE  /\ n = top => \A r \in Sides : child[n][r] = IF t.child[n][r] = kn THEN c ELSE t.child[n][r]
              /\ n # top => child[n] = t.child[n]
              /\ parent[n] = IF n = inner THEN kn ELSE t.parent[n]
  BY DEF RotatedChild, RotatedParent
<1>62. ASSUME NEW n \in Items \ {kn, c}, n = top PROVE child[n] = [r \in Sides |-> child[n][r]]
  BY <1>62 DEF RotatedChild
<1>7. child \in [Items -> [Sides -> Nodes]] /\ parent \in [Items -> Nodes]
  <2>1. \A n \in Items : child[n] \in [Sides -> Nodes] /\ parent[n] \in Nodes
    <3> HIDE DEF inner, top, child, parent
    <3> TAKE n \in Items
    <3>0. t.child[kn] \in [Sides -> Nodes] /\ t.child[c] \in [Sides -> Nodes] /\ t.child[n] \in [Sides -> Nodes]
      BY <1>2
    <3>1. CASE n = kn
      <4>1. [t.child[kn] EXCEPT ![s] = inner] \in [Sides -> Nodes]
        BY <1>2, <3>0
      <4> QED BY <1>2, <1>6, <3>1, <4>1
    <3>2. CASE n = c
      <4>1. [t.child[c] EXCEPT ![-s] = kn] \in [Sides -> Nodes]
        BY <1>2, <3>0
      <4> QED BY <1>2, <1>6, <3>2, <4>1
    <3>3. CASE n # kn /\ n # c /\ n = top
      <4>0. n \in Items \ {kn, c}
        BY <3>3
      <4>1. \A r \in Sides : child[n][r] = IF t.child[n][r] = kn THEN c ELSE t.child[n][r]
        BY <1>61, <3>3, <4>0
      <4>2. \A r \in Sides : child[n][r] \in Nodes
        BY <1>2, <3>0, <4>1
      <4>3. child[n] = [r \in Sides |-> child[n][r]]
        BY <1>62, <3>3, <4>0
      <4>4. parent[n] = IF n = inner THEN kn ELSE t.parent[n]
        BY <1>61, <4>0
      <4>5. parent[n] \in Nodes
        BY <1>2, <4>4
      <4> QED BY <4>2, <4>3, <4>5
    <3>4. CASE n # kn /\ n # c /\ n # top
      BY <1>2, <1>61, <3>0, <3>4
    <3> QED BY <3>1, <3>2, <3>3, <3>4
  <2> QED BY <2>1
<1>8. \A n \in Items \ {kn, c} : parent[n] = IF n = inner THEN kn ELSE t.parent[n]
  BY <1>61
<1>9. balance \in [Items -> Int] /\ balance[kn] = bal[1] /\ balance[c] = bal[2]
      /\ \A n \in Items \ {kn, c} : balance[n] = t.balance[n]
  <2> HIDE DEF bal
  <2> QED BY <1>2, <1>5
<1>10. /\ child[kn][s] = inner /\ child[kn][-s] = t.child[kn][-s]
       /\ child[c][-s] = kn /\ child[c][s] = t.child[c][s]
       /\ \A n \in Items \ {kn, c}, r \in Sides :
             child[n][r] = IF n = top /\ t.child[n][r] = kn THEN c ELSE t.child[n][r]
  <2> HIDE DEF inner, top, child, parent
  <2>1. t.child[kn] \in [Sides -> Nodes] /\ t.child[c] \in [Sides -> Nodes]
    BY <1>2
  <2>2. ASSUME NEW n \in Items \ {kn, c}, NEW r \in Sides
        PROVE  child[n][r] = IF n = top /\ t.child[n][r] = kn THEN c ELSE t.child[n][r]
    <3>1. CASE n = top
      BY <1>61, <3>1
    <3>2. CASE n # top
      BY <1>61, <3>2
    <3> QED BY <3>1, <3>2
  <2> QED BY <1>1, <1>6, <2>1, <2>2
<1>11. root \in Nodes
  BY <1>2
<1> HIDE DEF child, parent, balance, root
<1>12. u \in Shapes
  BY SMTT(30), <1>2, <1>40, <1>7, <1>8, <1>9, <1>11 DEF Shapes
<1> HIDE DEF u
<1> QED BY <1>4, <1>6, <1>8, <1>9, <1>10, <1>12 DEF root, u

\* The nodes that take part in a rotation.
RotationParts(t, D, M, kn, s, c) ==
    LET i == t.child[c][-s]
            o == t.child[c][s]
            a == t.child[kn][-s]
            top == t.parent[kn]
        IN  /\ kn \in Items /\ c \in Items /\ c \in M /\ c # kn /\ -s \in Sides /\ -(-s) = s /\ -s # s
            /\ {i, o, a, top} \subseteq M \cup {NULL}
            /\ kn \notin {i, o, a, top} /\ c \notin {i, o, a, top}
            /\ D[kn] = {kn} \cup D[c] \cup D[a] /\ D[c] = {c} \cup D[i] \cup D[o]
            /\ kn \notin D[c] /\ kn \notin D[a] /\ D[c] \cap D[a] = {}
            /\ c \notin D[i] /\ c \notin D[o] /\ D[i] \cap D[o] = {}
            /\ D[kn] \subseteq M
            /\ i # NULL => t.parent[i] = c /\ i \in D[i]
            /\ a # NULL => t.parent[a] = kn /\ a \in D[a]
            /\ o # NULL => t.parent[o] = c /\ o \in D[o]
            /\ t.parent[c] = kn
            /\ \A n \in M \ {kn, c}, r \in Sides :
                  t.child[n][r] # c /\ (t.child[n][r] = kn => n = top)
            /\ top = NULL <=> kn = t.root
            /\ top # NULL => \E r \in Sides : t.child[top][r] = kn

LEMMA RotateParts ==
    ASSUME NEW t, NEW D, NEW M, Linked(t, D, M), NEW kn \in M,
           NEW s \in Sides, NEW c, c = t.child[kn][s], c # NULL
    PROVE  RotationParts(t, D, M, kn, s, c)
<1> DEFINE i == t.child[c][-s]
           o == t.child[c][s]
           a == t.child[kn][-s]
           top == t.parent[kn]
<1>1. -s \in Sides /\ -(-s) = s /\ -s # s
  BY DEF Sides
<1>2. /\ kn \in Items /\ c \in M /\ a \in M \cup {NULL} /\ D[kn] = {kn} \cup D[c] \cup D[a]
      /\ kn \notin D[c] /\ kn \notin D[a] /\ D[c] \cap D[a] = {} /\ D[kn] \subseteq M
      /\ t.parent[c] = kn /\ c \in D[c] /\ (a # NULL => t.parent[a] = kn /\ a \in D[a])
  BY Parts
<1>3. /\ c \in Items /\ i \in M \cup {NULL} /\ o \in M \cup {NULL} /\ D[c] = {c} \cup D[i] \cup D[o]
      /\ c \notin D[i] /\ c \notin D[o] /\ D[i] \cap D[o] = {}
      /\ (i # NULL => t.parent[i] = c /\ i \in D[i]) /\ (o # NULL => t.parent[o] = c /\ o \in D[o])
  <2> DEFINE b == c
  <2>1. b \in M
    BY <1>2
  <2>2. /\ b \in Items /\ t.child[b][s] \in M \cup {NULL} /\ t.child[b][-s] \in M \cup {NULL}
        /\ D[b] = {b} \cup D[t.child[b][s]] \cup D[t.child[b][-s]]
        /\ b \notin D[t.child[b][s]] /\ b \notin D[t.child[b][-s]]
        /\ D[t.child[b][s]] \cap D[t.child[b][-s]] = {}
        /\ t.child[b][s] # NULL => t.parent[t.child[b][s]] = b /\ t.child[b][s] \in D[t.child[b][s]]
        /\ t.child[b][-s] # NULL => t.parent[t.child[b][-s]] = b /\ t.child[b][-s] \in D[t.child[b][-s]]
    <3> HIDE DEF b
    <3> QED BY <2>1, Parts
  <2> QED BY <2>2
<1>4. kn \notin {i, o, a} /\ c \notin {i, o, a} /\ c # kn
  BY <1>2, <1>3, TreeAssumption
<1>5. top = NULL <=> kn = t.root
  BY SMTT(30), <1>2, TreeAssumption DEF Linked
<1>6. top # NULL => top \in M /\ \E r \in Sides : t.child[top][r] = kn
  BY <1>5 DEF Linked
<1>7. kn # top /\ c # top
  <2>1. ASSUME NEW n \in M, NEW r \in Sides, t.child[n][r] = kn PROVE n # kn /\ n # c
    <3>1. n \notin D[kn] /\ kn \in D[kn] /\ kn \in D[n]
      <4>1. kn \in D[kn]
        BY Parts
      <4>2. n \notin D[t.child[n][r]] /\ D[t.child[n][r]] \subseteq D[n]
        BY Parts
      <4> QED BY <2>1, <4>1, <4>2
    <3> QED BY <1>2, <3>1
  <2>2. kn # NULL /\ c # NULL
    BY <1>2, <1>3, TreeAssumption
  <2>3. ASSUME top # NULL PROVE top # kn /\ top # c
    <3>1. PICK r \in Sides : t.child[top][r] = kn
      BY <1>6, <2>3
    <3> QED BY <1>6, <2>1, <2>3, <3>1
  <2> QED BY <2>2, <2>3
<1>8. \A n \in M, r \in Sides : t.child[n][r] # NULL => t.parent[t.child[n][r]] = n
  BY DEF Linked
<1>9. \A n \in M \ {kn, c}, r \in Sides : t.child[n][r] # c /\ (t.child[n][r] = kn => n = top)
  <2> SUFFICES ASSUME NEW n \in M \ {kn, c}, NEW r \in Sides
               PROVE  t.child[n][r] # c /\ (t.child[n][r] = kn => n = top)
    OBVIOUS
  <2>1. kn # NULL /\ c # NULL /\ (t.child[n][r] # NULL => t.parent[t.child[n][r]] = n)
    BY <1>2, <1>8, TreeAssumption
  <2>2. t.child[n][r] = c => n = kn
    BY <1>2, <2>1
  <2> QED BY <2>1, <2>2
<1>10. {i, o, a, top} \subseteq M \cup {NULL}
  <2>1. top \in M \cup {NULL}
    BY <1>6
  <2>2. i \in M \cup {NULL} /\ o \in M \cup {NULL} /\ a \in M \cup {NULL}
    BY <1>2, <1>3
  <2> HIDE DEF i, o, a, top
  <2> QED BY <2>1, <2>2
<1>11. kn \notin {i, o, a, top} /\ c \notin {i, o, a, top}
  BY <1>4, <1>7
<1> QED BY <1>1, <1>2, <1>3, <1>4, <1>5, <1>6, <1>9, <1>10, <1>11 DEF RotationParts

\* The child that a rotation of kn lifts.
HeavyChild(t, kn, s, c) == s = HeavySide(t, kn) /\ c = t.child[kn][s] /\ c # NULL

\* The nodes below each node after a rotation.
RotatedBelow(t, D, kn, s, c) ==
    [n \in Nodes |-> IF n = c THEN D[kn]
                     ELSE IF n = kn THEN {kn} \cup D[t.child[kn][-s]] \cup D[t.child[c][-s]]
                     ELSE D[n]]

\* What a rotation of a tree does to the pointers of its nodes.
Rotation(t, D, M, kn, s, c) ==
    LET u == rotate(t, kn)
            E == RotatedBelow(t, D, kn, s, c)
        IN  /\ u \in Shapes /\ u.numElements = t.numElements
            /\ u.root = IF t.parent[kn] = NULL THEN c ELSE t.root
            /\ u.child[kn][s] = t.child[c][-s] /\ u.child[kn][-s] = t.child[kn][-s]
            /\ u.child[c][-s] = kn /\ u.child[c][s] = t.child[c][s]
            /\ \A n \in M \ {kn, c}, r \in Sides :
                  /\ u.child[n][r] = IF t.child[n][r] = kn THEN c ELSE t.child[n][r]
                  /\ E[u.child[n][r]] = D[t.child[n][r]]
            /\ u.parent[kn] = c /\ u.parent[c] = t.parent[kn]
            /\ \A n \in Items \ {kn, c} :
                  u.parent[n] = IF n = t.child[c][-s] THEN kn ELSE t.parent[n]
            /\ u.balance[kn] = Balances(s, t.balance[kn], t.balance[c])[1]
            /\ u.balance[c] = Balances(s, t.balance[kn], t.balance[c])[2]
            /\ \A n \in Items \ {kn, c} : u.balance[n] = t.balance[n]
            /\ E \in [Nodes -> SUBSET Items]
            /\ E[c] = D[kn] /\ E[kn] = {kn} \cup D[t.child[kn][-s]] \cup D[t.child[c][-s]]
            /\ \A n \in Nodes \ {kn, c} : E[n] = D[n]

LEMMA RotateChildren ==
    ASSUME NEW t, NEW D, NEW M, Linked(t, D, M), NEW kn \in M,
           NEW s \in Sides, NEW c, HeavyChild(t, kn, s, c)
    PROVE  Rotation(t, D, M, kn, s, c)
<1> DEFINE u == rotate(t, kn)
           E == RotatedBelow(t, D, kn, s, c)
           i == t.child[c][-s]
           o == t.child[c][s]
           a == t.child[kn][-s]
           top == t.parent[kn]
<1>1. /\ kn \in Items /\ c \in Items /\ c \in M /\ c # kn /\ -s \in Sides
      /\ i \in M \cup {NULL} /\ a \in M \cup {NULL}
      /\ kn \notin {i, o, a, top} /\ c \notin {i, o, a, top}
      /\ \A n \in M \ {kn, c}, r \in Sides :
            t.child[n][r] # c /\ (t.child[n][r] = kn => n = top)
  <2>1. RotationParts(t, D, M, kn, s, c)
    BY RotateParts DEF HeavyChild
  <2> QED BY <2>1 DEF RotationParts
<1>2. t \in Shapes /\ M \subseteq Items /\ D \in [Nodes -> SUBSET Items] /\ Items \subseteq Nodes
  BY DEF Linked, Nodes
<1>3. /\ E \in [Nodes -> SUBSET Items]
      /\ E[c] = D[kn] /\ E[kn] = {kn} \cup D[a] \cup D[i]
      /\ \A n \in Nodes \ {kn, c} : E[n] = D[n]
  <2>1. a \in Nodes /\ i \in Nodes /\ kn \in Nodes /\ c \in Nodes
    BY <1>1, <1>2 DEF Nodes
  <2> HIDE DEF a, i
  <2>2. E = [n \in Nodes |-> IF n = c THEN D[kn] ELSE IF n = kn THEN {kn} \cup D[a] \cup D[i] ELSE D[n]]
    BY DEF RotatedBelow, a, i
  <2>3. D[kn] \in SUBSET Items /\ {kn} \cup D[a] \cup D[i] \in SUBSET Items
    BY <1>1, <1>2, <2>1
  <2> HIDE DEF E
  <2> QED BY <1>1, <1>2, <2>1, <2>2, <2>3
<1>4. LET bal == Balances(s, t.balance[kn], t.balance[c])
      IN /\ u \in Shapes /\ u.numElements = t.numElements
         /\ u.root = IF t.parent[kn] = NULL THEN c ELSE t.root
         /\ u.child[kn][s] = t.child[c][-s] /\ u.child[kn][-s] = t.child[kn][-s]
         /\ u.child[c][-s] = kn /\ u.child[c][s] = t.child[c][s]
         /\ \A n \in Items \ {kn, c}, r \in Sides :
               u.child[n][r] = IF n = t.parent[kn] /\ t.child[n][r] = kn THEN c ELSE t.child[n][r]
         /\ u.parent[kn] = c /\ u.parent[c] = t.parent[kn]
         /\ \A n \in Items \ {kn, c} :
               u.parent[n] = IF n = t.child[c][-s] THEN kn ELSE t.parent[n]
         /\ u.balance[kn] = bal[1] /\ u.balance[c] = bal[2]
         /\ \A n \in Items \ {kn, c} : u.balance[n] = t.balance[n]
  <2>1. kn \in Items /\ c \in Items /\ c # kn /\ t.parent[kn] \notin {kn, c} /\ t.child[c][-s] \notin {kn, c}
    BY <1>1
  <2> HIDE DEF u
  <2> QED BY SMTT(30), <1>2, <2>1, RotateFields DEF u, HeavyChild
<1>5. ASSUME NEW n \in M \ {kn, c}, NEW r \in Sides
      PROVE  /\ u.child[n][r] = IF t.child[n][r] = kn THEN c ELSE t.child[n][r]
             /\ E[u.child[n][r]] = D[t.child[n][r]]
  <2> HIDE DEF u, E, i, o, a, top
  <2>1. t.child[n][r] \in Nodes /\ t.child[n][r] # c
    BY <1>1, Parts
  <2>2. u.child[n][r] = IF t.child[n][r] = kn THEN c ELSE t.child[n][r]
    BY <1>1, <1>2, <1>4 DEF top
  <2> QED BY <1>3, <2>1, <2>2
<1> HIDE DEF u, E
<1> QED BY <1>3, <1>4, <1>5 DEF u, E, Rotation

LEMMA RotateRest ==
    ASSUME NEW t, NEW D, NEW M, Linked(t, D, M), NEW kn \in M,
           NEW s \in Sides, NEW c, HeavyChild(t, kn, s, c)
    PROVE  Rest(rotate(t, kn), M) = Rest(t, M)
<1> DEFINE u == rotate(t, kn)
<1>1. /\ kn \in Items /\ c \in Items /\ c \in M /\ c # kn
      /\ t.parent[kn] \in M \cup {NULL} /\ t.parent[kn] \notin {kn, c} /\ t.child[c][-s] \notin {kn, c}
  <2>1. RotationParts(t, D, M, kn, s, c)
    BY RotateParts DEF HeavyChild
  <2> QED BY <2>1 DEF RotationParts
<1>2. t \in Shapes /\ M \subseteq Items
  BY DEF Linked
<1>3. /\ u.numElements = t.numElements
      /\ \A n \in Items \ {kn, c}, r \in Sides :
            u.child[n][r] = IF n = t.parent[kn] /\ t.child[n][r] = kn THEN c ELSE t.child[n][r]
  <2> HIDE DEF u
  <2> QED BY <1>1, <1>2, RotateFields DEF u, HeavyChild
<1> HIDE DEF u
<1>4. ASSUME NEW n \in Items \ M PROVE [r \in Sides |-> u.child[n][r]] = [r \in Sides |-> t.child[n][r]]
  <2>1. n \in Items \ {kn, c} /\ n # t.parent[kn]
    BY <1>1, TreeAssumption
  <2> QED BY <1>3, <2>1
<1> QED BY <1>3, <1>4 DEF Rest, u

\* A rotation keeps the shape of a tree ...
LEMMA RotateLinked ==
    ASSUME NEW t, NEW D, NEW M, Linked(t, D, M), NEW kn \in M,
           NEW s \in Sides, NEW c, HeavyChild(t, kn, s, c)
    PROVE  Linked(rotate(t, kn), RotatedBelow(t, D, kn, s, c), M)
<1> DEFINE u == rotate(t, kn)
           E == RotatedBelow(t, D, kn, s, c)
           i == t.child[c][-s]
           o == t.child[c][s]
           a == t.child[kn][-s]
           top == t.parent[kn]
<1>1. /\ kn \in Items /\ c \in Items /\ c \in M /\ c # kn /\ -s \in Sides /\ -(-s) = s /\ -s # s
      /\ {i, o, a, top} \subseteq M \cup {NULL}
      /\ kn \notin {i, o, a, top} /\ c \notin {i, o, a, top}
      /\ D[kn] = {kn} \cup D[c] \cup D[a] /\ D[c] = {c} \cup D[i] \cup D[o]
      /\ kn \notin D[c] /\ kn \notin D[a] /\ D[c] \cap D[a] = {}
      /\ c \notin D[i] /\ c \notin D[o] /\ D[i] \cap D[o] = {}
      /\ D[kn] \subseteq M
      /\ i # NULL => t.parent[i] = c /\ i \in D[i]
      /\ a # NULL => t.parent[a] = kn /\ a \in D[a]
      /\ o # NULL => t.parent[o] = c /\ o \in D[o]
      /\ t.parent[c] = kn
      /\ \A n \in M \ {kn, c}, r \in Sides :
            t.child[n][r] # c /\ (t.child[n][r] = kn => n = top)
      /\ top = NULL <=> kn = t.root
      /\ top # NULL => \E r \in Sides : t.child[top][r] = kn
  <2>1. RotationParts(t, D, M, kn, s, c)
    BY RotateParts DEF HeavyChild
  <2> QED BY <2>1 DEF RotationParts
<1>2. /\ u \in Shapes /\ u.root = IF top = NULL THEN c ELSE t.root
      /\ u.child[kn][s] = i /\ u.child[kn][-s] = a
      /\ u.child[c][-s] = kn /\ u.child[c][s] = o
      /\ \A n \in M \ {kn, c}, r \in Sides :
            /\ u.child[n][r] = IF t.child[n][r] = kn THEN c ELSE t.child[n][r]
            /\ E[u.child[n][r]] = D[t.child[n][r]]
      /\ u.parent[kn] = c /\ u.parent[c] = top
      /\ \A n \in Items \ {kn, c} : u.parent[n] = IF n = i THEN kn ELSE t.parent[n]
      /\ E \in [Nodes -> SUBSET Items]
      /\ E[c] = D[kn] /\ E[kn] = {kn} \cup D[a] \cup D[i]
      /\ \A n \in Nodes \ {kn, c} : E[n] = D[n]
  <2>1. Rotation(t, D, M, kn, s, c)
    BY RotateChildren
  <2> QED BY <2>1 DEF Rotation
<1>3. /\ M \subseteq Items /\ D[NULL] = {} /\ D[t.root] = M /\ NULL \notin Items
      /\ t.root # NULL => t.root \in M /\ t.parent[t.root] = NULL
      /\ \A n \in M : n # t.root =>
            t.parent[n] \in M /\ \E r \in Sides : t.child[t.parent[n]][r] = n
  BY TreeAssumption DEF Linked
<1> HIDE DEF u, E, i, o, a, top
<1>4. \A r \in Sides : r = s \/ r = -s
  BY DEF Sides
<1>5. E[i] = D[i] /\ E[o] = D[o] /\ E[a] = D[a] /\ E[NULL] = {}
  BY <1>1, <1>2, <1>3 DEF Nodes
<1>6. /\ E[u.root] = M /\ u.root \in Nodes
      /\ u.root # NULL => u.root \in M /\ u.parent[u.root] = NULL
  <2>1. CASE top = NULL
    BY <1>1, <1>2, <1>3, <2>1 DEF Nodes
  <2>2. CASE top # NULL
    <3>1. u.root = t.root /\ t.root # kn /\ t.root # c /\ t.root # NULL /\ t.root \in M
      BY <1>1, <1>2, <1>3, <2>2
    <3>2. t.root # i
      BY <1>1, <1>3, <3>1
    <3> QED BY <1>1, <1>2, <1>3, <3>1, <3>2 DEF Nodes
  <2> QED BY <2>1, <2>2
<1>7. ASSUME NEW n \in M, NEW r \in Sides
      PROVE  /\ E[n] \subseteq M
             /\ E[n] = {n} \cup E[u.child[n][r]] \cup E[u.child[n][-r]]
             /\ n \notin E[u.child[n][r]]
             /\ E[u.child[n][r]] \cap E[u.child[n][-r]] = {}
             /\ u.child[n][r] # NULL => u.child[n][r] \in M /\ u.parent[u.child[n][r]] = n
  <2>1. CASE n = kn
    <3>1. E[kn] = {kn} \cup D[a] \cup D[i] /\ D[a] \cap D[i] = {} /\ kn \notin D[a] /\ kn \notin D[i] /\ E[kn] \subseteq M
      BY <1>1, <1>2
    <3>2. i # NULL => i \in M /\ u.parent[i] = kn
      BY <1>1, <1>2, <1>3
    <3>3. a # NULL => a \in M /\ u.parent[a] = kn
      BY <1>1, <1>2, <1>3
    <3>4. CASE r = s
      BY <1>2, <1>5, <2>1, <3>1, <3>2, <3>4
    <3>5. CASE r = -s
      BY <1>1, <1>2, <1>5, <2>1, <3>1, <3>3, <3>5
    <3> QED BY <1>4, <3>4, <3>5
  <2>2. CASE n = c
    <3>1. /\ E[c] = {c} \cup E[kn] \cup E[o] /\ E[c] \subseteq M /\ c \notin E[kn] /\ c \notin E[o]
          /\ E[kn] \cap E[o] = {}
      <4>1. c \notin D[a] /\ D[o] \cap D[a] = {} /\ kn \notin D[o]
        BY <1>1
      <4> QED BY <1>1, <1>2, <1>5, <4>1
    <3>2. o # NULL => o \in M /\ u.parent[o] = c
      <4>1. o # NULL => o # i
        BY <1>1
      <4> QED BY <1>1, <1>2, <1>3, <4>1
    <3>3. CASE r = s
      BY <1>1, <1>2, <2>2, <3>1, <3>2, <3>3
    <3>4. CASE r = -s
      BY <1>1, <1>2, <2>2, <3>1, <3>2, <3>4
    <3> QED BY <1>4, <3>3, <3>4
  <2>3. CASE n # kn /\ n # c
    <3>1. /\ D[n] \subseteq M /\ D[n] = {n} \cup D[t.child[n][r]] \cup D[t.child[n][-r]]
          /\ n \notin D[t.child[n][r]] /\ D[t.child[n][r]] \cap D[t.child[n][-r]] = {}
          /\ (t.child[n][r] # NULL => t.child[n][r] \in M /\ t.parent[t.child[n][r]] = n)
      BY DEF Linked
    <3>10. -r \in Sides
      BY DEF Sides
    <3>2. E[n] = D[n] /\ E[u.child[n][r]] = D[t.child[n][r]] /\ E[u.child[n][-r]] = D[t.child[n][-r]]
      BY <1>2, <1>3, <2>3, <3>10 DEF Nodes
    <3>3. u.child[n][r] # NULL => u.child[n][r] \in M /\ u.parent[u.child[n][r]] = n
      <4>1. CASE t.child[n][r] = kn
        <5>1. u.child[n][r] = c /\ n = top
          BY <1>1, <1>2, <2>3, <4>1
        <5> QED BY <1>1, <1>2, <5>1
      <4>2. CASE t.child[n][r] # kn
        <5> DEFINE m == t.child[n][r]
        <5>1. u.child[n][r] = m /\ m # c
          BY <1>1, <1>2, <2>3, <4>2
        <5>2. m # NULL => m \in M /\ m # i /\ u.parent[m] = t.parent[m]
          BY <1>1, <1>2, <1>3, <2>3, <3>1, <4>2, <5>1
        <5> QED BY <3>1, <5>1, <5>2
      <4> QED BY <4>1, <4>2
    <3> QED BY <3>1, <3>2, <3>3
  <2> QED BY <2>1, <2>2, <2>3
<1>8. ASSUME NEW n \in M, n # u.root
      PROVE  u.parent[n] \in M /\ \E r \in Sides : u.child[u.parent[n]][r] = n
  <2>1. CASE n = kn
    BY <1>1, <1>2, <2>1
  <2>2. CASE n = c
    <3>1. top # NULL /\ top \in M \ {kn, c}
      BY <1>1, <1>2, <1>8, <2>2
    <3>2. PICK r \in Sides : t.child[top][r] = kn
      BY <1>1, <3>1
    <3> QED BY <1>2, <2>2, <3>1, <3>2
  <2>3. CASE n = i
    BY <1>1, <1>2, <1>3, <2>3
  <2>4. CASE n # kn /\ n # c /\ n # i
    <3> DEFINE p == t.parent[n]
    <3>1. n # t.root
      BY <1>1, <1>2, <1>8, <2>4
    <3>2. p \in M /\ u.parent[n] = p
      BY <1>2, <1>3, <2>4, <3>1
    <3>3. PICK r \in Sides : t.child[p][r] = n
      BY <1>3, <3>1
    <3>4. CASE p = kn
      <4>1. r # s
        BY <1>1, <2>4, <3>3, <3>4 DEF HeavyChild
      <4>2. u.child[kn][-s] = n
        BY <1>2, <1>4, <3>3, <3>4, <4>1 DEF a
      <4> QED BY <1>1, <3>2, <3>4, <4>2
    <3>5. CASE p = c
      <4>1. r # -s
        BY <2>4, <3>3, <3>5 DEF i
      <4>2. u.child[c][s] = n
        BY <1>2, <1>4, <3>3, <3>5, <4>1 DEF o
      <4> QED BY <1>1, <3>2, <3>5, <4>2
    <3>6. CASE p # kn /\ p # c
      BY <1>2, <2>4, <3>2, <3>3, <3>6
    <3> QED BY <3>4, <3>5, <3>6
  <2> QED BY <2>1, <2>2, <2>3, <2>4
<1>9. M \in SUBSET Items
  BY DEF Linked
<1> QED BY <1>2, <1>5, <1>6, <1>7, <1>8, <1>9 DEF Linked, u, E

\* ... and the order of its nodes.
LEMMA RotateOrdered ==
    ASSUME NEW t, NEW D, NEW M, Linked(t, D, M), NEW kn \in M,
           NEW s \in Sides, NEW c, HeavyChild(t, kn, s, c),
           NEW d \in BOOLEAN, Ordered(t, D, M, d)
    PROVE  Ordered(rotate(t, kn), RotatedBelow(t, D, kn, s, c), M, d)
<1> DEFINE u == rotate(t, kn)
           E == RotatedBelow(t, D, kn, s, c)
           i == t.child[c][-s]
           o == t.child[c][s]
           a == t.child[kn][-s]
<1>1. /\ kn \in Items /\ c \in Items /\ c \in M /\ -s \in Sides /\ -(-s) = s
      /\ {i, o, a} \subseteq M \cup {NULL} /\ kn \notin {i, o, a} /\ c \notin {i, o, a}
      /\ D[kn] = {kn} \cup D[c] \cup D[a] /\ D[c] = {c} \cup D[i] \cup D[o] /\ D[kn] \subseteq M
  <2>1. RotationParts(t, D, M, kn, s, c)
    BY RotateParts DEF HeavyChild
  <2>2. /\ {i, o, a} \subseteq M \cup {NULL} /\ kn \notin {i, o, a} /\ c \notin {i, o, a}
    BY SMTT(30), <2>1 DEF RotationParts
  <2>3. /\ kn \in Items /\ c \in Items /\ c \in M /\ -s \in Sides /\ -(-s) = s
        /\ D[kn] = {kn} \cup D[c] \cup D[a] /\ D[c] = {c} \cup D[i] \cup D[o] /\ D[kn] \subseteq M
    BY <2>1 DEF RotationParts
  <2> QED BY <2>2, <2>3
<1>2. /\ u.child[kn][s] = i /\ u.child[kn][-s] = a /\ u.child[c][-s] = kn /\ u.child[c][s] = o
      /\ \A n \in M \ {kn, c}, r \in Sides : E[u.child[n][r]] = D[t.child[n][r]]
      /\ E[kn] = {kn} \cup D[a] \cup D[i] /\ \A n \in Nodes \ {kn, c} : E[n] = D[n]
  <2>1. Rotation(t, D, M, kn, s, c)
    BY RotateChildren
  <2> QED BY <2>1 DEF Rotation
<1>3. E[i] = D[i] /\ E[o] = D[o] /\ E[a] = D[a] /\ M \subseteq Items
  BY <1>1, <1>2 DEF Linked, Nodes
<1>4. \A n \in M, r \in Sides : \A m \in D[t.child[n][r]] : OnSide(d, r, m, n)
  BY DEF Ordered
<1>5. c \in D[t.child[kn][s]]
  BY <1>1 DEF HeavyChild
<1> HIDE DEF u, E, i, o, a
<1>6. /\ \A m \in D[c] : OnSide(d, s, m, kn)
      /\ \A m \in D[a] : OnSide(d, -s, m, kn)
      /\ \A m \in D[i] : OnSide(d, -s, m, c)
      /\ \A m \in D[o] : OnSide(d, s, m, c)
  BY <1>1, <1>4 DEF a, i, o, HeavyChild
<1>7. OnSide(d, -s, kn, c)
  BY <1>1, <1>5, <1>6, OnSideTurned
<1>8. \A m \in D[a] : OnSide(d, -s, m, c)
  BY <1>1, <1>3, <1>6, <1>7, OnSideTransitive
<1>9. ASSUME NEW n \in M, NEW r \in Sides, NEW m \in E[u.child[n][r]]
      PROVE  OnSide(d, r, m, n)
  <2>1. r = s \/ r = -s
    BY DEF Sides
  <2>2. CASE n = kn
    BY <1>1, <1>2, <1>3, <1>6, <1>9, <2>1, <2>2
  <2>3. CASE n = c
    BY <1>1, <1>2, <1>3, <1>6, <1>7, <1>8, <1>9, <2>1, <2>3
  <2>4. CASE n # kn /\ n # c
    BY <1>2, <1>4, <1>9, <2>4
  <2> QED BY <2>2, <2>3, <2>4
<1> QED BY <1>9 DEF Ordered, u, E

\* The balance of a node, seen from a side.
LEMMA TiltsLean ==
    ASSUME NEW t \in Shapes, NEW H \in [Nodes -> Nat], NEW n \in Items, NEW s \in Sides
    PROVE  Tilts(t, H, n) <=> t.balance[n] = Lean(s, H[t.child[n][s]], H[t.child[n][-s]])
<1>1. H[t.child[n][1]] \in Nat /\ H[t.child[n][-1]] \in Nat /\ t.balance[n] \in Int
  BY DEF Shapes, Sides
<1>2. CASE s = 1
  BY <1>1, <1>2 DEF Tilts, Lean
<1>3. CASE s = -1
  BY <1>1, <1>3 DEF Tilts, Lean
<1> QED BY <1>2, <1>3 DEF Sides

\* The heights after a rotation: the parent of kn sees no change.
Higher(x, y) == IF x < y THEN y ELSE x

RotatedHeights(t, H, kn, s, c) ==
    [n \in Nodes |-> IF n = c THEN H[kn]
                     ELSE IF n = kn THEN 1 + Higher(H[t.child[kn][-s]], H[t.child[c][-s]])
                     ELSE H[n]]

\* A rotation makes kn level, if the table of balances has an entry for it.
LEMMA RotateFits ==
    ASSUME NEW t, NEW D, NEW M, Linked(t, D, M), NEW kn \in M,
           NEW s \in Sides, NEW c, HeavyChild(t, kn, s, c),
           NEW H, NEW X, Fits(t, H, M, X), Stands(t, H, c, H[c]),
           \/ t.balance[kn] = s /\ t.balance[c] \in {-s, 0, s}
           \/ t.balance[kn] = 2 * s /\ t.balance[c] \in {0, s, 2 * s}
    PROVE  Fits(rotate(t, kn), RotatedHeights(t, H, kn, s, c), M, (X \ {kn}) \cup {c})
<1> DEFINE u == rotate(t, kn)
           G == RotatedHeights(t, H, kn, s, c)
           i == t.child[c][-s]
           o == t.child[c][s]
           a == t.child[kn][-s]
           m == 1 + Higher(H[a], H[i])
<1>1. /\ kn \in Items /\ c \in Items /\ c \in M /\ c # kn /\ -s \in Sides /\ -(-s) = s
      /\ {i, o, a} \subseteq M \cup {NULL} /\ kn \notin {i, o, a} /\ c \notin {i, o, a}
      /\ \A n \in M \ {kn, c}, r \in Sides : t.child[n][r] # c
  <2>1. RotationParts(t, D, M, kn, s, c)
    BY RotateParts DEF HeavyChild
  <2>2. /\ {i, o, a} \subseteq M \cup {NULL} /\ kn \notin {i, o, a} /\ c \notin {i, o, a}
    BY SMTT(30), <2>1 DEF RotationParts
  <2>3. /\ kn \in Items /\ c \in Items /\ c \in M /\ c # kn /\ -s \in Sides /\ -(-s) = s
        /\ \A n \in M \ {kn, c}, r \in Sides : t.child[n][r] # c
    BY SMTT(30), <2>1 DEF RotationParts
  <2> QED BY <2>2, <2>3
<1>2. /\ u \in Shapes
      /\ u.child[kn][s] = i /\ u.child[kn][-s] = a /\ u.child[c][-s] = kn /\ u.child[c][s] = o
      /\ \A n \in M \ {kn, c}, r \in Sides :
            u.child[n][r] = IF t.child[n][r] = kn THEN c ELSE t.child[n][r]
      /\ u.balance[kn] = Balances(s, t.balance[kn], t.balance[c])[1]
      /\ u.balance[c] = Balances(s, t.balance[kn], t.balance[c])[2]
      /\ \A n \in Items \ {kn, c} : u.balance[n] = t.balance[n]
  <2>1. Rotation(t, D, M, kn, s, c)
    BY RotateChildren
  <2> QED BY SMTT(30), <2>1 DEF Rotation
<1>3. /\ t \in Shapes /\ M \subseteq Items /\ Items \subseteq Nodes /\ NULL \in Nodes
      /\ H \in [Nodes -> Nat] /\ H[NULL] = 0
      /\ NULL \notin Items /\ \A n \in M : Tilts(t, H, n)
  BY TreeAssumption DEF Linked, Fits, Nodes
<1>4. i \in Nodes /\ o \in Nodes /\ a \in Nodes /\ kn \in Nodes /\ c \in Nodes
  BY <1>1, <1>3
<1>5. c = t.child[kn][s]
  BY DEF HeavyChild
<1>6. /\ H[i] \in Nat /\ H[o] \in Nat /\ H[a] \in Nat /\ H[kn] \in Nat /\ H[c] \in Nat
      /\ t.balance[kn] \in Int /\ t.balance[c] \in Int
  <2> HIDE DEF i, o, a
  <2> QED BY <1>1, <1>3, <1>4 DEF Shapes
<1>7. m \in Nat /\ m > H[a] /\ m > H[i] /\ (m = 1 + H[a] \/ m = 1 + H[i])
  BY <1>6 DEF Higher
<1>8. t.balance[kn] = Lean(s, H[c], H[a]) /\ t.balance[c] = Lean(s, H[o], H[i])
  <2>1. ASSUME NEW n \in M
        PROVE  t.balance[n] = Lean(s, H[t.child[n][s]], H[t.child[n][-s]])
    BY <1>3, <2>1, TiltsLean
  <2>2. t.balance[kn] = Lean(s, H[t.child[kn][s]], H[a]) /\ t.balance[c] = Lean(s, H[o], H[i])
    BY <1>1, <2>1
  <2> QED BY <1>5, <2>2
<1>9. H[c] > H[i] /\ H[c] > H[o] /\ (H[c] = 1 + H[i] \/ H[c] = 1 + H[o])
  <2>1. \A r \in Sides : r = s \/ r = -s
    BY DEF Sides
  <2> QED BY <1>1, <2>1 DEF Stands
<1>10. /\ u.balance[kn] \in {-1, 0, 1} /\ u.balance[kn] = Lean(s, H[i], H[a])
       /\ u.balance[c] = Lean(s, H[o], m)
  <2> DEFINE bal == Balances(s, t.balance[kn], t.balance[c])
  <2> HIDE DEF i, o, a, m, u
  <2>1. bal[1] \in {-1, 0, 1} /\ bal[1] = Lean(s, H[i], H[a]) /\ bal[2] = Lean(s, H[o], m)
    <3>1. InTable(s, H[c], H[a], H[i], H[o], t.balance[kn], t.balance[c], m)
      <4> DEFINE h == H[c]  l == H[a]  hi == H[i]  ho == H[o]  b == t.balance[kn]  k == t.balance[c]
      <4>1. s \in {-1, 1} /\ {h, l, hi, ho, m} \subseteq Nat /\ {b, k} \subseteq Int
        BY <1>6, <1>7 DEF Sides
      <4>2. (b = s /\ k \in {-s, 0, s}) \/ (b = 2 * s /\ k \in {0, s, 2 * s})
        OBVIOUS
      <4>3. b = Lean(s, h, l) /\ k = Lean(s, ho, hi)
        BY <1>8
      <4>4. /\ h > hi /\ h > ho /\ (h = 1 + hi \/ h = 1 + ho)
            /\ m > hi /\ m > l /\ (m = 1 + hi \/ m = 1 + l)
        BY <1>7, <1>9
      <4> HIDE DEF h, l, hi, ho, b, k
      <4>5. InTable(s, h, l, hi, ho, b, k, m)
        BY <4>1, <4>2, <4>3, <4>4 DEF InTable
      <4> QED BY <4>5 DEF h, l, hi, ho, b, k
    <3> QED BY <3>1, BalancesRight
  <2> QED BY <1>2, <2>1
<1>11. /\ G \in [Nodes -> Nat] /\ G[c] = H[kn] /\ G[kn] = m
       /\ \A n \in Nodes \ {kn, c} : G[n] = H[n]
  <2>1. G = [n \in Nodes |-> IF n = c THEN H[kn] ELSE IF n = kn THEN m ELSE H[n]]
    BY DEF RotatedHeights
  <2> HIDE DEF G, m
  <2> QED BY <1>1, <1>3, <1>4, <1>6, <1>7, <2>1
<1> HIDE DEF u, G, i, o, a, m
<1>12. G[i] = H[i] /\ G[o] = H[o] /\ G[a] = H[a] /\ G[NULL] = 0
  BY <1>1, <1>3, <1>4, <1>11
<1>13. Tilts(u, G, kn) /\ Tilts(u, G, c)
  BY <1>1, <1>2, <1>10, <1>11, <1>12, TiltsLean
<1>14. Stands(u, G, kn, G[kn])
  <2>1. \A r \in Sides : r = s \/ r = -s
    BY DEF Sides
  <2> QED BY <1>1, <1>2, <1>7, <1>11, <1>12, <2>1 DEF Stands
<1>15. ASSUME NEW n \in M \ {kn, c}
       PROVE  /\ u.balance[n] = t.balance[n] /\ G[n] = H[n]
              /\ \A r \in Sides : G[u.child[n][r]] = H[t.child[n][r]]
  <2>1. ASSUME NEW r \in Sides PROVE t.child[n][r] \in Nodes
    BY <1>3, <2>1 DEF Shapes
  <2> QED BY <1>1, <1>2, <1>3, <1>11, <2>1
<1>16. \A n \in M : Tilts(u, G, n)
  <2> SUFFICES ASSUME NEW n \in M \ {kn, c} PROVE Tilts(u, G, n)
    BY <1>13
  <2> QED BY <1>3, <1>15 DEF Tilts, Sides
<1>17. \A n \in M \ ((X \ {kn}) \cup {c}) : Level(u, G, n)
  <2> TAKE n \in M \ ((X \ {kn}) \cup {c})
  <2>1. CASE n = kn
    BY <1>10, <1>14, <2>1 DEF Level
  <2>2. CASE n # kn
    <3>1. Level(t, H, n)
      BY <2>2 DEF Fits
    <3> QED BY <1>15, <2>2, <3>1 DEF Level, Stands
  <2> QED BY <2>1, <2>2
<1> QED BY <1>11, <1>12, <1>16, <1>17 DEF Fits, u, G

\* A tree whose nodes are those of M: X holds the ones that are not level.
AVL(t, D, H, M, d, X) ==
    Linked(t, D, M) /\ d \in BOOLEAN /\ Ordered(t, D, M, d) /\ Fits(t, H, M, X)

LEMMA Rotated ==
    ASSUME NEW t, NEW D, NEW H, NEW M, NEW d, NEW X, AVL(t, D, H, M, d, X), NEW kn \in M,
           NEW s \in Sides, NEW c, HeavyChild(t, kn, s, c), Stands(t, H, c, H[c]),
           \/ t.balance[kn] = s /\ t.balance[c] \in {-s, 0, s}
           \/ t.balance[kn] = 2 * s /\ t.balance[c] \in {0, s, 2 * s}
    PROVE  AVL(rotate(t, kn), RotatedBelow(t, D, kn, s, c), RotatedHeights(t, H, kn, s, c),
               M, d, (X \ {kn}) \cup {c})
BY RotateLinked, RotateOrdered, RotateFits DEF AVL

\* What is known of a node and its children.
LEMMA NodeFacts ==
    ASSUME NEW t, NEW D, NEW H, NEW M, NEW d, NEW X, AVL(t, D, H, M, d, X), NEW n \in M, NEW s \in Sides
    PROVE  /\ n \in Items /\ n # NULL /\ H[n] \in Nat /\ t.balance[n] \in Int /\ t \in Shapes
           /\ t.child[n][s] \in M \cup {NULL} /\ t.child[n][-s] \in M \cup {NULL}
           /\ t.child[n][s] # n /\ t.child[n][-s] # n
           /\ H[t.child[n][s]] \in Nat /\ H[t.child[n][-s]] \in Nat
           /\ t.child[n][s] = NULL => H[t.child[n][s]] = 0
           /\ t.child[n][-s] = NULL => H[t.child[n][-s]] = 0
           /\ t.balance[n] = Lean(s, H[t.child[n][s]], H[t.child[n][-s]])
           /\ n \notin X => Level(t, H, n)
           /\ \A x : Stands(t, H, n, x) <=>
                 /\ x > H[t.child[n][s]] /\ x > H[t.child[n][-s]]
                 /\ x = 1 + H[t.child[n][s]] \/ x = 1 + H[t.child[n][-s]]
<1>1. t \in Shapes /\ H \in [Nodes -> Nat] /\ H[NULL] = 0 /\ Tilts(t, H, n) /\ M \subseteq Items
  BY DEF AVL, Linked, Fits
<1>2. /\ n \in Items /\ n # NULL
      /\ t.child[n][s] \in M \cup {NULL} /\ t.child[n][-s] \in M \cup {NULL}
      /\ t.child[n][s] \in Nodes /\ t.child[n][-s] \in Nodes
      /\ t.child[n][s] # n /\ t.child[n][-s] # n
  <2>1. Linked(t, D, M)
    BY DEF AVL
  <2> QED BY <2>1, Parts
<1>3. t.balance[n] = Lean(s, H[t.child[n][s]], H[t.child[n][-s]])
  BY <1>1, <1>2, TiltsLean
<1>4. \A x : Stands(t, H, n, x) <=>
         /\ x > H[t.child[n][s]] /\ x > H[t.child[n][-s]]
         /\ x = 1 + H[t.child[n][s]] \/ x = 1 + H[t.child[n][-s]]
  <2>1. -s \in Sides /\ \A r \in Sides : r = s \/ r = -s
    BY DEF Sides
  <2> QED BY <2>1 DEF Stands
<1>5. n \notin X => Level(t, H, n)
  BY DEF AVL, Fits
<1>6. H[n] \in Nat /\ t.balance[n] \in Int
  BY <1>1, <1>2 DEF Nodes, Shapes
<1> QED BY <1>1, <1>2, <1>3, <1>4, <1>5, <1>6

\* A node of which side s is two higher.
LEMMA HeavyBy2 ==
    ASSUME NEW t, NEW D, NEW H, NEW M, NEW d, NEW n \in M, AVL(t, D, H, M, d, {n}),
           t.balance[n] \in {-2, 2}, NEW s, s = HeavySide(t, n), NEW c, c = Heavy(t, n)
    PROVE  /\ s \in Sides /\ HeavyChild(t, n, s, c) /\ t.balance[n] = 2 * s
           /\ c \in M /\ H[c] = 2 + H[t.child[n][-s]] /\ c # n
           /\ Level(t, H, c) /\ t.balance[c] \in {-s, 0, s}
<1> USE TreeAssumption
<1>1. s \in Sides /\ t.balance[n] = 2 * s /\ c = t.child[n][s]
  BY DEF HeavySide, Heavy, Sides
<1>2. /\ t.balance[n] = Lean(s, H[c], H[t.child[n][-s]]) /\ H[c] \in Nat /\ H[t.child[n][-s]] \in Nat
      /\ c \in M \cup {NULL} /\ (c = NULL => H[c] = 0) /\ c # n
  BY <1>1, NodeFacts
<1>3. H[c] = 2 + H[t.child[n][-s]]
  <2>1. CASE s = 1
    BY <1>1, <1>2, <2>1 DEF Lean
  <2>2. CASE s = -1
    BY <1>1, <1>2, <2>2 DEF Lean
  <2> QED BY <1>1, <2>1, <2>2 DEF Sides
<1>4. c \in M /\ c # NULL
  BY <1>2, <1>3
<1>5. Level(t, H, c)
  BY <1>2, <1>4 DEF AVL, Fits
<1>6. t.balance[c] \in {-s, 0, s}
  BY <1>1, <1>5 DEF Level, Sides
<1> QED BY <1>1, <1>2, <1>3, <1>4, <1>5, <1>6 DEF HeavyChild

\* What a rotation does to the heights around it.
LEMMA RotatedNode ==
    ASSUME NEW t, NEW D, NEW H, NEW M, NEW d, NEW X, AVL(t, D, H, M, d, X), NEW kn \in M,
           NEW s \in Sides, NEW c, HeavyChild(t, kn, s, c)
    PROVE  LET u == rotate(t, kn)
               E == RotatedBelow(t, D, kn, s, c)
               G == RotatedHeights(t, H, kn, s, c)
           IN  /\ c \in M /\ c # kn /\ u.child[c][-s] = kn /\ u.child[c][s] = t.child[c][s]
               /\ u.child[kn][s] = t.child[c][-s] /\ u.child[kn][-s] = t.child[kn][-s]
               /\ E[c] = D[kn] /\ G[c] = H[kn]
               /\ G[kn] = 1 + Higher(H[t.child[kn][-s]], H[t.child[c][-s]])
               /\ \A n \in Nodes \ {kn, c} : G[n] = H[n] /\ E[n] = D[n]
               /\ t.child[c][s] \in Nodes \ {kn, c} /\ t.child[c][-s] \in Nodes \ {kn, c}
               /\ t.child[kn][-s] \in Nodes \ {kn, c}
               /\ \A n \in M \ {kn, c}, r \in Sides :
                     /\ u.child[n][r] = IF t.child[n][r] = kn THEN c ELSE t.child[n][r]
                     /\ u.balance[n] = t.balance[n]
<1> DEFINE u == rotate(t, kn)
           E == RotatedBelow(t, D, kn, s, c)
           G == RotatedHeights(t, H, kn, s, c)
<1>1. Rotation(t, D, M, kn, s, c)
  BY RotateChildren DEF AVL
<1>2. RotationParts(t, D, M, kn, s, c)
  BY RotateParts DEF HeavyChild, AVL
<1>3. M \subseteq Nodes /\ NULL \in Nodes /\ M \subseteq Items
  BY DEF AVL, Linked, Nodes
<1>4. /\ c \in M /\ c # kn
      /\ t.child[c][s] \in Nodes \ {kn, c} /\ t.child[c][-s] \in Nodes \ {kn, c}
      /\ t.child[kn][-s] \in Nodes \ {kn, c}
  BY <1>2, <1>3 DEF RotationParts
<1>5. /\ u.child[c][-s] = kn /\ u.child[c][s] = t.child[c][s]
      /\ u.child[kn][s] = t.child[c][-s] /\ u.child[kn][-s] = t.child[kn][-s]
      /\ E[c] = D[kn] /\ \A n \in Nodes \ {kn, c} : E[n] = D[n]
      /\ \A n \in M \ {kn, c}, r \in Sides :
            /\ u.child[n][r] = IF t.child[n][r] = kn THEN c ELSE t.child[n][r]
            /\ u.balance[n] = t.balance[n]
  BY <1>1, <1>3 DEF Rotation
<1>6. /\ G[c] = H[kn] /\ G[kn] = 1 + Higher(H[t.child[kn][-s]], H[t.child[c][-s]])
      /\ \A n \in Nodes \ {kn, c} : G[n] = H[n]
  BY <1>3, <1>4 DEF RotatedHeights
<1> HIDE DEF u, E, G
<1> QED BY <1>4, <1>5, <1>6 DEF u, E, G

\* After the rotations k has the place and the height of n, seen from above.
Restores(t, D, H, M, d, n, u, k) ==
    LET s == HeavySide(t, n)
        c == Heavy(t, n)
    IN  \E E, G :
           /\ AVL(u, E, G, M, d, {k}) /\ k \in M /\ E[k] = D[n] /\ G[k] = H[n]
           /\ Stands(u, G, k, IF t.balance[c] = 0 THEN 1 + H[c] ELSE H[c])
           /\ u.balance[k] = IF t.balance[c] = 0 THEN -s ELSE 0
           /\ Rest(u, M) = Rest(t, M)

\* One rotation restores the balance of n ...
LEMMA RestoreOnce ==
    ASSUME NEW t, NEW D, NEW H, NEW M, NEW d, NEW n \in M, AVL(t, D, H, M, d, {n}),
           t.balance[n] \in {-2, 2}, t.balance[Heavy(t, n)] # -HeavySide(t, n)
    PROVE  Restores(t, D, H, M, d, n, rotate(t, n), Heavy(t, n))
<1> DEFINE s == HeavySide(t, n)
           c == Heavy(t, n)
<1>0. s = HeavySide(t, n) /\ c = Heavy(t, n) /\ t.balance[c] # -s
  OBVIOUS
<1> HIDE DEF s, c
<1> DEFINE u == rotate(t, n)
           E == RotatedBelow(t, D, n, s, c)
           G == RotatedHeights(t, H, n, s, c)
           i == t.child[c][-s]
           o == t.child[c][s]
           a == t.child[n][-s]
<1>1. /\ s \in Sides /\ HeavyChild(t, n, s, c) /\ t.balance[n] = 2 * s
      /\ c \in M /\ H[c] = 2 + H[a] /\ c # n
      /\ Level(t, H, c) /\ t.balance[c] \in {0, s}
  <2>1. /\ s \in Sides /\ HeavyChild(t, n, s, c) /\ t.balance[n] = 2 * s
        /\ c \in M /\ H[c] = 2 + H[a] /\ c # n
        /\ Level(t, H, c) /\ t.balance[c] \in {-s, 0, s}
    BY <1>0, HeavyBy2
  <2> QED BY <1>0, <2>1
<1>2. AVL(u, E, G, M, d, {c})
  <2>1. AVL(u, E, G, M, d, ({n} \ {n}) \cup {c})
    BY <1>1, Rotated DEF Level
  <2>2. ({n} \ {n}) \cup {c} = {c}
    OBVIOUS
  <2> HIDE DEF u, E, G
  <2> QED BY <2>1, <2>2
<1>3. /\ H[i] \in Nat /\ H[o] \in Nat /\ H[a] \in Nat /\ H[c] \in Nat
      /\ t.balance[c] = Lean(s, H[o], H[i])
      /\ H[c] > H[o] /\ H[c] > H[i] /\ (H[c] = 1 + H[o] \/ H[c] = 1 + H[i])
  <2>1. Stands(t, H, c, H[c])
    BY <1>1 DEF Level
  <2> QED BY SMTT(30), <1>1, <2>1, NodeFacts
<1>4. /\ u.child[c][-s] = n /\ u.child[c][s] = o /\ E[c] = D[n] /\ G[c] = H[n]
      /\ G[n] = 1 + Higher(H[a], H[i]) /\ G[o] = H[o]
  BY SMTT(30), <1>1, RotatedNode
<1> HIDE DEF u, E, G
<1>5. /\ u.balance[c] = Lean(s, G[o], G[n])
      /\ \A x : Stands(u, G, c, x) <=>
            /\ x > G[o] /\ x > G[n]
            /\ x = 1 + G[o] \/ x = 1 + G[n]
  <2>1. /\ u.balance[c] = Lean(s, G[u.child[c][s]], G[u.child[c][-s]])
        /\ \A x : Stands(u, G, c, x) <=>
              /\ x > G[u.child[c][s]] /\ x > G[u.child[c][-s]]
              /\ x = 1 + G[u.child[c][s]] \/ x = 1 + G[u.child[c][-s]]
    <3> HIDE DEF i, o, a
    <3> QED BY <1>1, <1>2, NodeFacts
  <2>2. u.child[c][s] = o /\ u.child[c][-s] = n
    BY <1>4
  <2> QED BY <2>1, <2>2
<1> HIDE DEF i, o, a
<1> DEFINE Ends == /\ Stands(u, G, c, IF t.balance[c] = 0 THEN 1 + H[c] ELSE H[c])
                   /\ u.balance[c] = IF t.balance[c] = 0 THEN -s ELSE 0
<1>6. ASSUME t.balance[c] = 0 PROVE Ends
  <2>1. H[i] = H[o] /\ H[c] = 1 + H[i] /\ H[i] = 1 + H[a]
    BY <1>1, <1>3, <1>6 DEF Lean
  <2>2. G[n] = H[c] /\ G[o] = H[c] - 1
    BY <1>3, <1>4, <2>1 DEF Higher
  <2>3. u.balance[c] = -s
    BY <1>1, <1>3, <1>5, <2>2 DEF Lean, Sides
  <2>4. Stands(u, G, c, 1 + H[c])
    BY <1>3, <1>5, <2>2
  <2> QED BY <1>6, <2>3, <2>4
<1>7. ASSUME t.balance[c] = s PROVE Ends
  <2>1. H[o] = 1 + H[i] /\ H[c] = 1 + H[o] /\ H[i] = H[a]
    <3>1. CASE s = 1
      BY <1>1, <1>3, <1>7, <3>1 DEF Lean
    <3>2. CASE s = -1
      BY <1>1, <1>3, <1>7, <3>2 DEF Lean
    <3> QED BY <1>1, <3>1, <3>2 DEF Sides
  <2>2. G[n] = H[o] /\ G[o] = H[o] /\ s # 0
    BY <1>1, <1>3, <1>4, <2>1 DEF Higher, Sides
  <2>3. u.balance[c] = 0
    BY <1>1, <1>3, <1>5, <2>2 DEF Lean
  <2>4. Stands(u, G, c, H[c])
    BY <1>3, <1>5, <2>1, <2>2
  <2>5. t.balance[c] # 0
    BY <1>7, <2>2
  <2> QED BY <2>3, <2>4, <2>5
<1>8. Ends
  <2> HIDE DEF Ends
  <2> QED BY <1>1, <1>6, <1>7
<1>9. Rest(u, M) = Rest(t, M)
  <2>1. Linked(t, D, M)
    BY DEF AVL
  <2> QED BY <1>1, <2>1, RotateRest DEF u
<1> QED BY <1>0, <1>1, <1>2, <1>4, <1>8, <1>9 DEF Restores, u

\* ... or two do, when the heavy child leans to the other side.
LEMMA RestoreTwice ==
    ASSUME NEW t, NEW D, NEW H, NEW M, NEW d, NEW n \in M, AVL(t, D, H, M, d, {n}),
           t.balance[n] \in {-2, 2}, t.balance[Heavy(t, n)] = -HeavySide(t, n)
    PROVE  LET t1 == rotate(t, Heavy(t, n))
           IN  Restores(t, D, H, M, d, n, rotate(t1, n), Heavy(t1, n))
<1> DEFINE s == HeavySide(t, n)
           c == Heavy(t, n)
<1>0. s = HeavySide(t, n) /\ c = Heavy(t, n) /\ t.balance[c] = -s
  OBVIOUS
<1> HIDE DEF s, c
<1> DEFINE k == t.child[c][-s]
           t1 == rotate(t, c)
           D1 == RotatedBelow(t, D, c, -s, k)
           H1 == RotatedHeights(t, H, c, -s, k)
           u == rotate(t1, n)
           E == RotatedBelow(t1, D1, n, s, k)
           G == RotatedHeights(t1, H1, n, s, k)
           o == t.child[c][s]
           a == t.child[n][-s]
           x == t.child[k][s]
           y == t.child[k][-s]
<1>1. /\ s \in Sides /\ HeavyChild(t, n, s, c) /\ t.balance[n] = 2 * s
      /\ c \in M /\ H[c] = 2 + H[a] /\ c # n
      /\ Level(t, H, c) /\ t.balance[c] = -s /\ -s \in Sides /\ -(-s) = s
      /\ t.child[n][s] = c
  <2>1. s \in Sides /\ HeavyChild(t, n, s, c) /\ t.balance[n] = 2 * s
        /\ c \in M /\ H[c] = 2 + H[a] /\ c # n /\ Level(t, H, c)
    BY <1>0, HeavyBy2
  <2> QED BY <1>0, <2>1 DEF HeavyChild, Sides
<1>2. RotationParts(t, D, M, n, s, c)
  BY <1>1, RotateParts DEF AVL, HeavyChild
<1>3. k # n /\ a # c
  BY <1>2 DEF RotationParts
<1>4. /\ H[k] \in Nat /\ H[o] \in Nat /\ H[a] \in Nat /\ H[c] \in Nat
      /\ k \in M \cup {NULL} /\ (k = NULL => H[k] = 0)
      /\ H[k] = 1 + H[a] /\ H[o] = H[a]
  <2>1. Stands(t, H, c, H[c])
    BY <1>1 DEF Level
  <2>2. /\ H[k] \in Nat /\ H[o] \in Nat /\ H[a] \in Nat /\ H[c] \in Nat
        /\ k \in M \cup {NULL} /\ (k = NULL => H[k] = 0)
        /\ t.balance[c] = Lean(s, H[o], H[k])
        /\ H[c] > H[o] /\ H[c] > H[k] /\ (H[c] = 1 + H[o] \/ H[c] = 1 + H[k])
    BY SMTT(30), <1>1, <2>1, NodeFacts
  <2> HIDE DEF k, o, a
  <2>3. H[k] = 1 + H[o]
    BY <1>1, <2>2 DEF Lean, Sides
  <2> QED BY <1>1, <2>2, <2>3
<1>5. k \in M /\ k # NULL /\ HeavyChild(t, c, -s, k) /\ Level(t, H, k)
  <2>1. k # NULL /\ k \in M
    <3> HIDE DEF k, o, a
    <3> QED BY <1>4
  <2>2. -s = HeavySide(t, c)
    BY <1>1 DEF HeavySide, Sides
  <2>3. Level(t, H, k)
    BY <1>3, <2>1 DEF AVL, Fits
  <2> QED BY <2>1, <2>2, <2>3 DEF HeavyChild
<1>6. /\ H[x] \in Nat /\ H[y] \in Nat /\ H[k] > H[x] /\ H[k] > H[y]
      /\ (H[k] = 1 + H[x] \/ H[k] = 1 + H[y]) /\ t.balance[k] = Lean(s, H[x], H[y])
      /\ t.balance[k] \in {-1, 0, 1}
  <2>1. Stands(t, H, k, H[k]) /\ t.balance[k] \in {-1, 0, 1}
    BY <1>5 DEF Level
  <2> HIDE DEF k
  <2> QED BY SMTT(30), <1>1, <1>5, <2>1, NodeFacts
<1>7. AVL(t1, D1, H1, M, d, {n, k})
  <2> HIDE DEF k
  <2>1. AVL(t1, D1, H1, M, d, ({n} \ {c}) \cup {k})
    <3>1. t.balance[c] = -s /\ t.balance[k] \in {-(-s), 0, -s} /\ Stands(t, H, k, H[k])
      BY <1>1, <1>5 DEF Level, Sides
    <3> HIDE DEF t1, D1, H1
    <3> QED BY <1>1, <1>5, <3>1, Rotated DEF t1, D1, H1
  <2>2. ({n} \ {c}) \cup {k} = {n, k}
    BY <1>1
  <2> HIDE DEF t1, D1, H1
  <2> QED BY <2>1, <2>2
<1>8. /\ t1.child[k][s] = c /\ t1.child[k][-s] = y /\ D1[n] = D[n] /\ H1[n] = H[n]
      /\ H1[k] = H[c] /\ H1[c] = 1 + Higher(H[o], H[x])
      /\ H1[y] = H[y] /\ H1[a] = H[a]
      /\ t1.child[n][s] = k /\ t1.child[n][-s] = a /\ t1.balance[n] = t.balance[n]
  <2> HIDE DEF k
  <2>1. /\ t1.child[k][-(-s)] = c /\ t1.child[k][-s] = t.child[k][-s]
        /\ H1[k] = H[c] /\ H1[c] = 1 + Higher(H[t.child[c][-(-s)]], H[t.child[k][-(-s)]])
        /\ \A m \in Nodes \ {c, k} : H1[m] = H[m] /\ D1[m] = D[m]
        /\ t.child[k][-s] \in Nodes \ {c, k}
        /\ \A m \in M \ {c, k}, r \in Sides :
              /\ t1.child[m][r] = IF t.child[m][r] = c THEN k ELSE t.child[m][r]
              /\ t1.balance[m] = t.balance[m]
    <3> HIDE DEF t1, D1, H1, o, a, x, y
    <3> QED BY <1>1, <1>5, RotatedNode DEF t1, D1, H1
  <2>2. n \in M \ {c, k} /\ n \in Nodes \ {c, k}
    BY <1>1, <1>3 DEF AVL, Linked, Nodes
  <2>3. a \in Nodes \ {c, k}
    <3>1. a \in M \cup {NULL} /\ a # c /\ M \subseteq Items
      BY <1>2 DEF RotationParts, AVL, Linked
    <3>2. H[a] # H[k]
      BY <1>4
    <3> QED BY <3>1, <3>2 DEF Nodes
  <2> HIDE DEF t1, D1, H1
  <2> QED BY <1>1, <2>1, <2>2, <2>3
<1> HIDE DEF t1, D1, H1
<1>9. H1[c] = H[k] /\ H1[c] \in Nat
  <2> HIDE DEF k, o, a, x, y
  <2> QED BY <1>4, <1>6, <1>8 DEF Higher
<1>10. k \in M /\ s = HeavySide(t1, n) /\ k = Heavy(t1, n) /\ HeavyChild(t1, n, s, k)
  <2>1. s = HeavySide(t1, n)
    BY <1>0, <1>8 DEF HeavySide
  <2> QED BY <1>5, <1>8, <2>1 DEF HeavyChild, Heavy
<1>11. Stands(t1, H1, k, H1[k]) /\ t1.balance[k] \in {s, 2 * s}
  <2> HIDE DEF k, o, a, x, y
  <2>1. /\ t1.balance[k] = Lean(s, H1[t1.child[k][s]], H1[t1.child[k][-s]])
        /\ Stands(t1, H1, k, H1[k]) <=>
              /\ H1[k] > H1[t1.child[k][s]] /\ H1[k] > H1[t1.child[k][-s]]
              /\ H1[k] = 1 + H1[t1.child[k][s]] \/ H1[k] = 1 + H1[t1.child[k][-s]]
    BY <1>1, <1>5, <1>7, NodeFacts
  <2>2. /\ t1.balance[k] = Lean(s, H[k], H[y])
        /\ Stands(t1, H1, k, H1[k]) <=>
              /\ H[c] > H[k] /\ H[c] > H[y]
              /\ H[c] = 1 + H[k] \/ H[c] = 1 + H[y]
    BY <1>8, <1>9, <2>1
  <2>3. H[c] = 1 + H[k]
    BY <1>1, <1>4
  <2>4. H[k] = 1 + H[y] \/ H[k] = 2 + H[y]
    <3>1. CASE s = 1
      BY <1>4, <1>6, <3>1 DEF Lean
    <3>2. CASE s = -1
      BY <1>4, <1>6, <3>2 DEF Lean
    <3> QED BY <1>1, <3>1, <3>2 DEF Sides
  <2>5. t1.balance[k] \in {s, 2 * s}
    <3>1. CASE s = 1
      BY <1>4, <1>6, <2>2, <2>4, <3>1 DEF Lean
    <3>2. CASE s = -1
      BY <1>4, <1>6, <2>2, <2>4, <3>2 DEF Lean
    <3> QED BY <1>1, <3>1, <3>2 DEF Sides
  <2> QED BY <1>4, <1>6, <2>2, <2>3, <2>5

<1>12. AVL(u, E, G, M, d, {k})
  <2> HIDE DEF k, u, E, G
  <2>1. AVL(u, E, G, M, d, ({n, k} \ {n}) \cup {k})
    <3>1. t1.balance[n] = 2 * s /\ t1.balance[k] \in {0, s, 2 * s}
      BY <1>1, <1>8, <1>11
    <3> QED BY <1>1, <1>7, <1>10, <1>11, <3>1, Rotated DEF u, E, G
  <2>2. ({n, k} \ {n}) \cup {k} = {k}
    BY <1>3
  <2> QED BY <2>1, <2>2
<1>13. /\ u.child[k][-s] = n /\ u.child[k][s] = c /\ E[k] = D[n] /\ G[k] = H[n]
       /\ G[n] = 1 + Higher(H[a], H[y]) /\ G[c] = H[k]
  <2> HIDE DEF k
  <2>1. /\ u.child[k][-s] = n /\ u.child[k][s] = t1.child[k][s] /\ E[k] = D1[n] /\ G[k] = H1[n]
        /\ G[n] = 1 + Higher(H1[t1.child[n][-s]], H1[t1.child[k][-s]])
        /\ \A m \in Nodes \ {n, k} : G[m] = H1[m]
        /\ t1.child[k][s] \in Nodes \ {n, k}
    <3> HIDE DEF u, E, G, o, a, x, y
    <3> QED BY <1>1, <1>7, <1>10, RotatedNode DEF u, E, G
  <2> HIDE DEF u, E, G
  <2> QED BY <1>8, <1>9, <2>1
<1> HIDE DEF u, E, G
<1>14. G[n] = H[k] /\ H[c] = 1 + H[k]
  <2> HIDE DEF k, o, a, x, y
  <2> QED BY <1>1, <1>4, <1>6, <1>13 DEF Higher
<1>15. Stands(u, G, k, H[c]) /\ u.balance[k] = 0
  <2> HIDE DEF k, o, a, x, y
  <2>1. /\ u.balance[k] = Lean(s, G[u.child[k][s]], G[u.child[k][-s]])
        /\ Stands(u, G, k, H[c]) <=>
              /\ H[c] > G[u.child[k][s]] /\ H[c] > G[u.child[k][-s]]
              /\ H[c] = 1 + G[u.child[k][s]] \/ H[c] = 1 + G[u.child[k][-s]]
    BY <1>1, <1>5, <1>12, NodeFacts
  <2>2. /\ u.balance[k] = Lean(s, H[k], H[k])
        /\ Stands(u, G, k, H[c]) <=> H[c] > H[k] /\ H[c] = 1 + H[k]
    BY <1>13, <1>14, <2>1
  <2> QED BY <1>4, <1>14, <2>2 DEF Lean
<1> HIDE DEF k
<1>16. Rest(u, M) = Rest(t, M)
  <2>1. Linked(t, D, M) /\ Linked(t1, D1, M)
    BY <1>7 DEF AVL
  <2>2. Rest(t1, M) = Rest(t, M)
    BY <1>1, <1>5, <2>1, RotateRest DEF t1
  <2>3. Rest(u, M) = Rest(t1, M)
    BY <1>1, <1>10, <2>1, RotateRest DEF u
  <2> QED BY <2>2, <2>3
<1>17. t.balance[c] # 0
  BY <1>1 DEF Sides
<1>18. Restores(t, D, H, M, d, n, u, k)
  BY <1>0, <1>5, <1>12, <1>13, <1>15, <1>16, <1>17 DEF Restores
<1> QED BY <1>0, <1>10, <1>18 DEF u, t1

-----------------------------------------------------------------------------
(* The way up                                                              *)

\* Nothing but the balance of a node is changed.
Rebalanced(t, u, p, b) ==
    /\ u.child = t.child /\ u.parent = t.parent /\ u.root = t.root /\ u.numElements = t.numElements
    /\ u.balance = [t.balance EXCEPT ![p] = b]
    /\ u \in Shapes

LEMMA SetBalance ==
    ASSUME NEW t \in Shapes, NEW p \in Items, NEW b \in Int
    PROVE  Rebalanced(t, [t EXCEPT !.balance[p] = b], p, b)
<1> DEFINE u == [t EXCEPT !.balance[p] = b]
<1>1. /\ u.child = t.child /\ u.parent = t.parent /\ u.root = t.root /\ u.numElements = t.numElements
      /\ u.balance = [t.balance EXCEPT ![p] = b]
  BY DEF Shapes
<1>2. [t.balance EXCEPT ![p] = b] \in [Items -> Int]
  BY DEF Shapes
<1>3. u \in Shapes
  BY <1>2 DEF Shapes
<1> QED BY <1>1, <1>3 DEF Rebalanced

\* The links and the order of a tree do not depend on the balances.
LEMMA RebalancedLinks ==
    ASSUME NEW t, NEW D, NEW M, NEW u, NEW p, NEW b, Linked(t, D, M), NEW d, Ordered(t, D, M, d),
           Rebalanced(t, u, p, b)
    PROVE  Linked(u, D, M) /\ Ordered(u, D, M, d)
BY DEF Linked, Ordered, Rebalanced

LEMMA RebalancedRest ==
    ASSUME NEW t, NEW M, NEW u, NEW p, NEW b, Rebalanced(t, u, p, b)
    PROVE  Rest(u, M) = Rest(t, M)
BY DEF Rebalanced, Rest

\* A node that is not the root hangs on one side of its parent.
Hangs(t, D, M, n, p, r) ==
    /\ p = t.parent[n] /\ r = SideOf(t, n)
    /\ p \in M /\ p # n /\ r \in Sides /\ t.child[p][r] = n /\ t.child[p][-r] # n
    /\ D[n] \subseteq D[p] /\ p \in D[p] /\ p \notin D[n]
    /\ \A m \in M, q \in Sides : t.child[m][q] = n => m = p /\ q = r

LEMMA ParentFacts ==
    ASSUME NEW t, NEW D, NEW M, Linked(t, D, M), NEW n \in M, n # t.root
    PROVE  Hangs(t, D, M, n, t.parent[n], SideOf(t, n))
<1> DEFINE p == t.parent[n]
           r == SideOf(t, n)
<1>1. p \in M /\ \E q \in Sides : t.child[p][q] = n
  BY DEF Linked
<1>2. r \in Sides /\ t.child[p][r] = n
  BY <1>1 DEF SideOf, Sides
<1> HIDE DEF p, r
<1>3. /\ n \in D[n] /\ p \in D[p] /\ D[p] = {p} \cup D[t.child[p][r]] \cup D[t.child[p][-r]]
      /\ p \notin D[t.child[p][r]] /\ D[t.child[p][r]] \cap D[t.child[p][-r]] = {} /\ n # NULL
  <2>1. \A m \in M : m \in D[m] /\ m # NULL
    BY -1 \in Sides, Parts DEF Sides
  <2>2. /\ D[p] = {p} \cup D[t.child[p][r]] \cup D[t.child[p][-r]]
        /\ p \notin D[t.child[p][r]] /\ D[t.child[p][r]] \cap D[t.child[p][-r]] = {}
    <3>1. \A q \in Sides : /\ D[p] = {p} \cup D[t.child[p][q]] \cup D[t.child[p][-q]]
                            /\ p \notin D[t.child[p][q]]
                            /\ D[t.child[p][q]] \cap D[t.child[p][-q]] = {}
      BY <1>1 DEF Linked
    <3> QED BY <1>2, <3>1
  <2> QED BY <1>1, <2>1, <2>2
<1>4. p # n /\ t.child[p][-r] # n
  BY <1>2, <1>3
<1>5. ASSUME NEW m \in M, NEW q \in Sides, t.child[m][q] = n PROVE m = p /\ q = r
  <2>1. m = p
    <3>1. t.child[m][q] # NULL => t.parent[t.child[m][q]] = m
      BY <1>5 DEF Linked
    <3> QED BY <1>3, <1>5, <3>1 DEF p
  <2>2. q = r \/ q = -r
    BY <1>2 DEF Sides
  <2> QED BY <1>4, <1>5, <2>1, <2>2
<1> QED BY <1>1, <1>2, <1>3, <1>4, <1>5 DEF p, r, Hangs

\* A node that holds all others is the root.
LEMMA RootHolds ==
    ASSUME NEW t, NEW D, NEW M, Linked(t, D, M), NEW n \in M
    PROVE  D[n] = M <=> n = t.root
<1>1. n = t.root => D[n] = M
  BY DEF Linked
<1>2. n # t.root => \E p \in M : p \notin D[n]
  BY ParentFacts DEF Hangs
<1> QED BY <1>1, <1>2

\* The height of a node that is balanced may be corrected: the root's at once ...
LEMMA RootHeight ==
    ASSUME NEW t, NEW D, NEW H, NEW M, NEW d, NEW n \in M, AVL(t, D, H, M, d, {n}), n = t.root,
           NEW v \in Nat, Stands(t, H, n, v), t.balance[n] \in {-1, 0, 1}
    PROVE  AVL(t, D, [H EXCEPT ![n] = v], M, d, {})
<1> DEFINE G == [H EXCEPT ![n] = v]
<1>1. t \in Shapes /\ n \in Items /\ M \subseteq Items /\ H \in [Nodes -> Nat] /\ H[NULL] = 0 /\ n # NULL
  BY TreeAssumption DEF AVL, Linked, Fits
<1>2. \A m \in M, r \in Sides : t.child[m][r] # n /\ t.child[m][r] \in Nodes
  <2>1. \A m \in M, r \in Sides : t.child[m][r] # NULL => t.parent[t.child[m][r]] = m
    BY DEF AVL, Linked
  <2>2. t.parent[n] = NULL
    BY <1>1 DEF AVL, Linked
  <2> QED BY <1>1, <2>1, <2>2, TreeAssumption DEF Shapes
<1>3. G \in [Nodes -> Nat] /\ G[n] = v /\ \A m \in Nodes \ {n} : G[m] = H[m]
  BY <1>1 DEF Nodes
<1> HIDE DEF G
<1>4. \A m \in M, r \in Sides : G[t.child[m][r]] = H[t.child[m][r]]
  BY <1>2, <1>3
<1>5. \A m \in M : Tilts(t, H, m) /\ (m # n => Level(t, H, m))
  BY DEF AVL, Fits
<1>6. ASSUME NEW m \in M PROVE Tilts(t, G, m)
  BY <1>4, <1>5 DEF Tilts, Sides
<1>7. ASSUME NEW m \in M PROVE Level(t, G, m)
  <2>1. CASE m = n
    BY <1>3, <1>4, <2>1 DEF Level, Stands
  <2>2. CASE m # n
    <3>1. G[m] = H[m]
      BY <1>1, <1>3, <2>2 DEF Nodes
    <3> QED BY <1>4, <1>5, <2>2, <3>1 DEF Level, Stands
  <2> QED BY <2>1, <2>2
<1>8. G[NULL] = 0
  BY <1>1, <1>3 DEF Nodes
<1>9. Fits(t, G, M, {})
  BY <1>3, <1>6, <1>7, <1>8 DEF Fits
<1> QED BY <1>9 DEF AVL, G

\* ... that of another one if its parent's balance is corrected, too ...
LEMMA ParentHeight ==
    ASSUME NEW t, NEW D, NEW H, NEW M, NEW d, NEW n \in M, AVL(t, D, H, M, d, {n}), n # t.root,
           NEW v \in Nat, Stands(t, H, n, v), t.balance[n] \in {-1, 0, 1},
           NEW p, NEW r, Hangs(t, D, M, n, p, r),
           NEW b \in Int, b = Lean(r, v, H[t.child[p][-r]]),
           NEW u, Rebalanced(t, u, p, b)
    PROVE  AVL(u, D, [H EXCEPT ![n] = v], M, d, {p})
<1> DEFINE G == [H EXCEPT ![n] = v]
<1>1. t \in Shapes /\ n \in Items /\ M \subseteq Items /\ H \in [Nodes -> Nat] /\ H[NULL] = 0 /\ n # NULL
  BY TreeAssumption DEF AVL, Linked, Fits
<1>2. /\ p \in M /\ p # n /\ r \in Sides /\ t.child[p][r] = n /\ t.child[p][-r] # n
      /\ \A m \in M, q \in Sides : t.child[m][q] = n => m = p /\ q = r
  BY DEF Hangs
<1>3. G \in [Nodes -> Nat] /\ G[n] = v /\ \A m \in Nodes \ {n} : G[m] = H[m]
  BY <1>1 DEF Nodes
<1>4. /\ u \in Shapes /\ u.child = t.child /\ u.balance[p] = b
      /\ \A m \in Items \ {p} : u.balance[m] = t.balance[m]
  BY <1>1, <1>2 DEF Rebalanced, Shapes
<1>5. \A m \in M, q \in Sides : t.child[m][q] \in Nodes
  BY <1>1 DEF Shapes
<1> HIDE DEF G
<1>6. \A m \in M \ {p}, q \in Sides : G[t.child[m][q]] = H[t.child[m][q]]
  BY <1>2, <1>3, <1>5
<1>7. \A m \in M : Tilts(t, H, m) /\ (m # n => Level(t, H, m))
  BY DEF AVL, Fits
<1>8. Tilts(u, G, p)
  <2>1. -r \in Sides
    BY <1>2 DEF Sides
  <2>2. G[u.child[p][-r]] = H[t.child[p][-r]] /\ G[u.child[p][r]] = v
    BY <1>2, <1>3, <1>4, <1>5, <2>1
  <2>3. u.balance[p] = Lean(r, G[u.child[p][r]], G[u.child[p][-r]])
    BY <1>4, <2>2
  <2> QED BY <1>1, <1>2, <1>3, <1>4, <2>3, TiltsLean
<1>9. ASSUME NEW m \in M, m # p PROVE Tilts(u, G, m) /\ Level(u, G, m)
  <2>1. u.balance[m] = t.balance[m] /\ \A q \in Sides : G[u.child[m][q]] = H[t.child[m][q]]
    <3>1. m \in Items \ {p} /\ m \in M \ {p}
      BY <1>1, <1>9
    <3> QED BY <1>4, <1>6, <3>1
  <2>2. Tilts(u, G, m)
    BY <1>7, <1>9, <2>1 DEF Tilts, Sides
  <2>3. CASE m = n
    BY <1>3, <1>9, <2>1, <2>2, <2>3 DEF Level, Stands
  <2>4. CASE m # n
    <3>1. G[m] = H[m]
      BY <1>1, <1>3, <2>4 DEF Nodes
    <3> QED BY <1>7, <1>9, <2>1, <2>2, <2>4, <3>1 DEF Level, Stands
  <2> QED BY <2>3, <2>4
<1>10. G[NULL] = 0
  BY <1>1, <1>3 DEF Nodes
<1>11. Fits(u, G, M, {p})
  BY <1>3, <1>8, <1>9, <1>10 DEF Fits
<1>12. Linked(u, D, M) /\ Ordered(u, D, M, d)
  BY RebalancedLinks DEF AVL
<1> QED BY <1>11, <1>12 DEF AVL, G

\* ... and if it is right already, all nodes are level.
LEMMA SameHeight ==
    ASSUME NEW t, NEW D, NEW H, NEW M, NEW d, NEW n \in M, AVL(t, D, H, M, d, {n}),
           Stands(t, H, n, H[n]), t.balance[n] \in {-1, 0, 1}
    PROVE  AVL(t, D, H, M, d, {})
BY DEF AVL, Fits, Level

\* The argument of upInsert(): its subtree is by one higher than the parent sees,
\* unless its balance is 0.
Grown(t, D, H, M, d, n) ==
    /\ n \in M /\ AVL(t, D, H, M, d, {n}) /\ t.balance[n] \in -2..2
    /\ t.balance[n] = 0 => Stands(t, H, n, H[n])
    /\ t.balance[n] # 0 => Stands(t, H, n, 1 + H[n])
    /\ t.balance[n] \in {-2, 2} => t.balance[Heavy(t, n)] # 0

\* After j calls of upInsert().
InsertInv(x, M, d, N, j) ==
    /\ x.node \in Nodes /\ Rest(x.tree, M) = N
    /\ \E D, H : IF x.node = NULL THEN AVL(x.tree, D, H, M, d, {})
                 ELSE Grown(x.tree, D, H, M, d, x.node) /\ Cardinality(D[x.node]) > j

\* A node that has grown makes its parent grow.
LEMMA GrownUp ==
    ASSUME NEW t, NEW D, NEW H, NEW M, NEW d, NEW n, Grown(t, D, H, M, d, n),
           t.balance[n] \in {-1, 1}, NEW p, NEW r, Hangs(t, D, M, n, p, r),
           NEW u, Rebalanced(t, u, p, t.balance[p] + r)
    PROVE  Grown(u, D, [H EXCEPT ![n] = 1 + H[n]], M, d, p)
<1> DEFINE G == [H EXCEPT ![n] = 1 + H[n]]
           b == t.balance[p]
           m == t.child[p][-r]
<1>1. n \in M /\ AVL(t, D, H, M, d, {n}) /\ Stands(t, H, n, 1 + H[n])
  BY DEF Grown
<1>2. p \in M /\ p # n /\ r \in Sides /\ t.child[p][r] = n /\ t.child[p][-r] # n /\ -r \in Sides
  BY DEF Hangs, Sides
<1>3. /\ H[n] \in Nat /\ H[m] \in Nat /\ H[p] \in Nat /\ b \in Int /\ b = Lean(r, H[n], H[m])
      /\ Level(t, H, p) /\ p \in Items /\ n \in Items /\ m \in M \cup {NULL}
      /\ H[p] > H[n] /\ H[p] > H[m] /\ (H[p] = 1 + H[n] \/ H[p] = 1 + H[m])
  <2>1. /\ H[n] \in Nat /\ H[m] \in Nat /\ H[p] \in Nat /\ b \in Int /\ b = Lean(r, H[n], H[m])
        /\ Level(t, H, p) /\ p \in Items /\ m \in M \cup {NULL}
        /\ Stands(t, H, p, H[p]) =>
              /\ H[p] > H[n] /\ H[p] > H[m]
              /\ H[p] = 1 + H[n] \/ H[p] = 1 + H[m]
    BY <1>1, <1>2, NodeFacts
  <2>2. n \in Items
    BY <1>1 DEF AVL, Linked
  <2> QED BY <2>1, <2>2 DEF Level
<1>4. b + r = Lean(r, 1 + H[n], H[m]) /\ b + r \in Int
  BY <1>2, <1>3 DEF Lean, Sides
<1>5. AVL(u, D, G, M, d, {p})
  <2>1. n # t.root
    BY <1>1, <1>2, TreeAssumption DEF AVL, Linked, Hangs
  <2>2. 1 + H[n] \in Nat
    BY <1>3
  <2> HIDE DEF G, b
  <2> QED BY <1>1, <1>4, <2>1, <2>2, ParentHeight DEF G, b
<1>6. u.balance[p] = b + r /\ u.balance[n] = t.balance[n] /\ u.child = t.child
  BY <1>1, <1>2, <1>3 DEF Rebalanced, AVL, Linked, Shapes
<1>7. H \in [Nodes -> Nat] /\ M \subseteq Nodes /\ NULL \in Nodes
  BY DEF Grown, AVL, Linked, Fits, Nodes
<1>8. G[n] = 1 + H[n] /\ G[p] = H[p] /\ G[m] = H[m]
  BY <1>1, <1>2, <1>3, <1>7 DEF Nodes
<1> HIDE DEF G
<1>9. \A x : Stands(u, G, p, x) <=>
            /\ x > 1 + H[n] /\ x > H[m]
            /\ x = 1 + (1 + H[n]) \/ x = 1 + H[m]
  <2>1. \A x : Stands(u, G, p, x) <=>
            /\ x > G[u.child[p][r]] /\ x > G[u.child[p][-r]]
            /\ x = 1 + G[u.child[p][r]] \/ x = 1 + G[u.child[p][-r]]
    BY <1>2, <1>5, NodeFacts
  <2> QED BY <1>2, <1>6, <1>8, <2>1
<1> HIDE DEF b, m
<1>10. b \in {-1, 0, 1}
  BY <1>3 DEF Level, b
<1>11. r = 1 \/ r = -1
  BY <1>2 DEF Sides
<1>12. /\ u.balance[p] \in -2..2
       /\ u.balance[p] = 0 => H[m] = 1 + H[n] /\ H[p] = 1 + H[m]
       /\ u.balance[p] # 0 => H[m] <= H[n] /\ H[p] = 1 + H[n]
       /\ u.balance[p] \in {-2, 2} => u.balance[p] = 2 * r
  <2>1. CASE r = 1
    BY <1>3, <1>6, <1>10, <2>1 DEF Lean
  <2>2. CASE r = -1
    BY <1>3, <1>6, <1>10, <2>2 DEF Lean
  <2> QED BY <1>11, <2>1, <2>2
<1>13. u.balance[p] = 0 => Stands(u, G, p, G[p])
  BY <1>3, <1>8, <1>9, <1>12
<1>14. u.balance[p] # 0 => Stands(u, G, p, 1 + G[p])
  BY <1>3, <1>8, <1>9, <1>12
<1>15. u.balance[p] \in {-2, 2} => u.balance[Heavy(u, p)] # 0
  <2> SUFFICES ASSUME u.balance[p] \in {-2, 2} PROVE u.balance[Heavy(u, p)] # 0
    OBVIOUS
  <2>1. HeavySide(u, p) = r
    BY <1>11, <1>12 DEF HeavySide
  <2>2. Heavy(u, p) = n
    BY <1>2, <1>6, <2>1 DEF Heavy
  <2> QED BY <1>6, <2>2
<1> QED BY <1>2, <1>5, <1>12, <1>13, <1>14, <1>15 DEF Grown, G

\* The rotations at the end of upInsert() give the node its old height back.
LEMMA InsertRestores ==
    ASSUME NEW t, NEW D, NEW H, NEW M, NEW d, NEW n, Grown(t, D, H, M, d, n), t.balance[n] \in {-2, 2}
    PROVE  LET u == IF 2 * t.balance[Heavy(t, n)] = t.balance[n] THEN rotate(t, n) ELSE rotateTwice(t, n)
           IN  Rest(u, M) = Rest(t, M) /\ \E E, G : AVL(u, E, G, M, d, {})
<1> DEFINE s == HeavySide(t, n)
           c == Heavy(t, n)
           b == t.balance[n]
           u == IF 2 * t.balance[c] = b THEN rotate(t, n) ELSE rotateTwice(t, n)
<1>0. s = HeavySide(t, n) /\ c = Heavy(t, n)
  OBVIOUS
<1> HIDE DEF s, c
<1>1. n \in M /\ AVL(t, D, H, M, d, {n}) /\ Stands(t, H, n, 1 + H[n]) /\ t.balance[c] # 0
  BY <1>0 DEF Grown
<1>11. n \in M /\ AVL(t, D, H, M, d, {n}) /\ t.balance[n] \in {-2, 2}
  BY <1>1
<1>2. /\ s \in Sides /\ HeavyChild(t, n, s, c) /\ b = 2 * s /\ c \in M
      /\ H[c] = 2 + H[t.child[n][-s]] /\ t.balance[c] \in {-s, 0, s}
  <2> HIDE DEF u, b
  <2>1. /\ s \in Sides /\ HeavyChild(t, n, s, c) /\ t.balance[n] = 2 * s /\ c \in M
        /\ H[c] = 2 + H[t.child[n][-s]] /\ t.balance[c] \in {-s, 0, s}
    BY <1>0, <1>11, HeavyBy2
  <2> QED BY <2>1 DEF b
<1>3. c = t.child[n][s]
  BY <1>2 DEF HeavyChild
<1>4. /\ H[n] \in Nat /\ H[c] \in Nat /\ H[t.child[n][-s]] \in Nat
      /\ 1 + H[n] > H[c] /\ (1 + H[n] = 1 + H[c] \/ 1 + H[n] = 1 + H[t.child[n][-s]])
  BY SMTT(30), <1>1, <1>2, <1>3, NodeFacts
<1>5. H[n] = H[c]
  BY <1>2, <1>4
<1>6. \E k : Restores(t, D, H, M, d, n, u, k)
  <2>1. CASE 2 * t.balance[c] = b
    <3>1. t.balance[c] # -s
      BY <1>2, <2>1 DEF Sides
    <3>2. Restores(t, D, H, M, d, n, rotate(t, n), Heavy(t, n))
      BY <1>1, <3>1, RestoreOnce DEF s, c
    <3>3. u = rotate(t, n)
      BY <2>1
    <3> QED BY <3>2, <3>3
  <2>2. CASE 2 * t.balance[c] # b
    <3>1. t.balance[c] = -s
      BY <1>1, <1>2, <2>2 DEF Sides
    <3>2. Restores(t, D, H, M, d, n, rotate(rotate(t, c), n), Heavy(rotate(t, c), n))
      BY <1>1, <3>1, RestoreTwice DEF s, c
    <3>3. u = rotate(rotate(t, c), n)
      BY <2>2 DEF rotateTwice, c
    <3> QED BY <3>2, <3>3
  <2> QED BY <2>1, <2>2
<1> HIDE DEF u
<1>7. PICK k, E, G : /\ AVL(u, E, G, M, d, {k}) /\ k \in M /\ G[k] = H[n]
                     /\ Stands(u, G, k, H[c]) /\ u.balance[k] = 0
                     /\ Rest(u, M) = Rest(t, M)
  BY <1>1, <1>6 DEF Restores, s, c
<1>8. AVL(u, E, G, M, d, {})
  BY <1>5, <1>7, SameHeight
<1> QED BY <1>7, <1>8 DEF u, c

\* A call of upInsert() keeps its promise.
LEMMA InsertStep ==
    ASSUME NEW M, NEW d, NEW N, NEW j \in Nat, NEW x, InsertInv(x, M, d, N, j)
    PROVE  InsertInv(upInsertCall(x), M, d, N, j + 1)
<1> DEFINE t == x.tree
           n == x.node
           b == t.balance[n]
           y == upInsertCall(x)
<1>0. NULL \in Nodes /\ n \in Nodes /\ Rest(t, M) = N
  BY DEF InsertInv, Nodes
<1>1. CASE n = NULL
  <2>1. y = x
    BY <1>1 DEF upInsertCall
  <2> QED BY <1>1, <2>1 DEF InsertInv
<1>2. CASE n # NULL
  <2>1. PICK D, H : Grown(t, D, H, M, d, n) /\ Cardinality(D[n]) > j
    BY <1>2 DEF InsertInv
  <2>2. n \in M /\ AVL(t, D, H, M, d, {n}) /\ b \in -2..2 /\ b \in Int /\ t \in Shapes
    BY SMTT(30), <2>1 DEF Grown, AVL, Linked
  <2>3. CASE b \in {-1, 1} /\ n # t.root
    <3> DEFINE p == t.parent[n]
               r == SideOf(t, n)
               u == [t EXCEPT !.balance[p] = @ + r]
    <3>1. y.tree = u /\ y.node = p
      BY <1>2, <2>3 DEF upInsertCall
    <3>2. Hangs(t, D, M, n, p, r)
      BY <2>2, <2>3, ParentFacts DEF AVL
    <3>3. p \in M /\ r \in Int /\ D[n] \subseteq D[p] /\ p \in D[p] /\ p \notin D[n]
      <4> HIDE DEF p, r, t, n
      <4> QED BY <3>2 DEF Hangs, Sides
    <3>4. p \in Items /\ p \in Nodes /\ p # NULL /\ t.balance[p] \in Int
          /\ D[p] \subseteq Items /\ D[n] \subseteq Items
      BY SMTT(30), <2>2, <3>3, TreeAssumption DEF AVL, Linked, Shapes, Nodes
    <3>5. Rebalanced(t, u, p, t.balance[p] + r)
      <4>1. u = [t EXCEPT !.balance[p] = t.balance[p] + r]
        BY <2>2 DEF Shapes
      <4>2. t.balance[p] + r \in Int
        BY <3>3, <3>4
      <4> HIDE DEF u, p, r
      <4> QED BY <2>2, <3>4, <4>1, <4>2, SetBalance
    <3> HIDE DEF u, p, r, y
    <3>6. Grown(u, D, [H EXCEPT ![n] = 1 + H[n]], M, d, p)
      BY <2>1, <2>3, <3>2, <3>5, GrownUp
    <3>7. Cardinality(D[p]) > j + 1
      <4>1. IsFiniteSet(D[p]) /\ IsFiniteSet(D[n])
        BY <3>4, TreeAssumption, FS_Subset
      <4>2. Cardinality(D[n]) < Cardinality(D[p])
        <5> DEFINE A == D[n]
                   B == D[p]
        <5>1. A \subseteq B /\ A # B /\ IsFiniteSet(B)
          BY <3>3, <4>1
        <5> HIDE DEF A, B
        <5>2. Cardinality(A) < Cardinality(B)
          BY <5>1, FS_Subset, FS_CardinalityType
        <5> QED BY <5>2 DEF A, B
      <4>3. Cardinality(D[n]) \in Nat /\ Cardinality(D[p]) \in Nat
        BY <4>1, FS_CardinalityType
      <4> QED BY <2>1, <4>2, <4>3
    <3>8. Rest(u, M) = N
      BY <1>0, <3>5, RebalancedRest
    <3>9. InsertInv(y, M, d, N, j + 1)
      BY <3>1, <3>4, <3>6, <3>7, <3>8 DEF InsertInv
    <3> QED BY <3>9 DEF y
  <2>4. CASE ~(b \in {-1, 1} /\ n # t.root)
    <3> DEFINE u == IF b \notin {-2, 2} THEN t
                    ELSE IF 2 * t.balance[Heavy(t, n)] = b THEN rotate(t, n)
                    ELSE rotateTwice(t, n)
    <3>1. y.tree = u /\ y.node = NULL
      BY <1>2, <2>4 DEF upInsertCall
    <3>2. Rest(u, M) = N /\ \E E, G : AVL(u, E, G, M, d, {})
      <4>1. CASE b \in {-2, 2}
        BY <1>0, <2>1, <4>1, InsertRestores
      <4>2. CASE b = 0
        <5>1. u = t
          BY <4>2
        <5>2. AVL(t, D, H, M, d, {})
          BY <2>1, <2>2, <4>2, SameHeight DEF Grown
        <5> QED BY <1>0, <5>1, <5>2
      <4>3. CASE b \in {-1, 1} /\ n = t.root
        <5>1. u = t
          BY <4>3
        <5>2. Stands(t, H, n, 1 + H[n]) /\ 1 + H[n] \in Nat
          <6>1. H[n] \in Nat
            BY <1>0, <2>2 DEF AVL, Fits
          <6> QED BY <2>1, <4>3, <6>1 DEF Grown
        <5>3. AVL(t, D, [H EXCEPT ![n] = 1 + H[n]], M, d, {})
          BY <2>2, <4>3, <5>2, RootHeight
        <5> QED BY <1>0, <5>1, <5>3
      <4> QED BY SMTT(30), <2>2, <2>4, <4>1, <4>2, <4>3
    <3> HIDE DEF u, y
    <3>3. InsertInv(y, M, d, N, j + 1)
      BY <1>0, <3>1, <3>2 DEF InsertInv
    <3> QED BY <3>3 DEF y
  <2> QED BY <2>3, <2>4
<1> QED BY <1>1, <1>2

\* upInsert() restores the tree.
LEMMA upInsertRestores ==
    ASSUME NEW t, NEW D, NEW H, NEW M, NEW d, NEW n, Grown(t, D, H, M, d, n)
    PROVE  LET u == upInsert(t, n)
           IN  Rest(u, M) = Rest(t, M) /\ \E E, G : AVL(u, E, G, M, d, {})
<1> DEFINE N == Rest(t, M)
           C == Cardinality(Items)
           a == [tree |-> t, node |-> n]
           All == [tree : Shapes, node : Nodes]
           S == [j \in 0..C |-> {x \in All : InsertInv(x, M, d, N, j)}]
           g == [p \in (1..C) \X All |-> upInsertCall(p[2])]
<1>1. C \in Nat
  BY ItemsFinite
<1>2. n \in M /\ t \in Shapes /\ n \in Nodes /\ n \in D[n] /\ D[n] \subseteq Items /\ M \subseteq Items
  BY SMTT(30), -1 \in Sides, Parts DEF Grown, AVL, Linked, Nodes, Sides
<1>3. a \in S[0]
  <2>1. a \in All
    BY <1>2
  <2>2. Cardinality(D[n]) > 0
    <3>1. IsFiniteSet(D[n])
      BY <1>2, TreeAssumption, FS_Subset
    <3> QED BY <1>2, <3>1, FS_EmptySet, FS_CardinalityType
  <2>3. InsertInv(a, M, d, N, 0)
    <3>1. n # NULL
      BY <1>2, TreeAssumption
    <3> QED BY <1>2, <2>2, <3>1 DEF InsertInv
  <2> HIDE DEF a, All
  <2> QED BY <1>1, <2>1, <2>3
<1>5. \A k \in 1..C : \A x \in S[k - 1] : g[<<k, x>>] \in S[k]
  <2> TAKE k \in 1..C
  <2> TAKE x \in S[k - 1]
  <2>1. x \in All /\ InsertInv(x, M, d, N, k - 1) /\ k - 1 \in Nat
    BY <1>1
  <2>2. g[<<k, x>>] = upInsertCall(x)
    <3> HIDE DEF All
    <3> QED BY <2>1
  <2>3. InsertInv(upInsertCall(x), M, d, N, k)
    <3>1. InsertInv(upInsertCall(x), M, d, N, (k - 1) + 1)
      BY <2>1, InsertStep
    <3> QED BY <1>1, <3>1
  <2>4. upInsertCall(x) \in All
    <3>1. upInsertCall(x).tree \in Shapes /\ upInsertCall(x).node \in Nodes
      BY <2>3 DEF InsertInv, Grown, AVL, Linked
    <3>2. upInsertCall(x) = [tree |-> upInsertCall(x).tree, node |-> upInsertCall(x).node]
      <4>1. x = [tree |-> x.tree, node |-> x.node]
        BY <2>1
      <4> QED BY <4>1 DEF upInsertCall
    <3> HIDE DEF S, g
    <3> QED BY <3>1, <3>2
  <2> HIDE DEF All, g
  <2> QED BY <2>2, <2>3, <2>4
<1>6. PICK call : IsRun(call, C, a, g) /\ \A k \in 0..C : call[k] \in S[k]
  <2> HIDE DEF S, g, a, C
  <2> QED BY <1>1, <1>3, <1>5, LoopRuns
<1>7. call = [k \in 0..C |-> IF k = 0 THEN [tree |-> t, node |-> n] ELSE upInsertCall(call[k - 1])]
  <2>1. \A k \in 0..C : call[k] = IF k = 0 THEN a ELSE g[<<k, call[k - 1]>>]
    <3> HIDE DEF S, g, a, C
    <3> QED BY <1>6 DEF IsRun
  <2>2. \A k \in 0..C : k # 0 => k - 1 \in 0..C /\ k \in 1..C
    BY <1>1
  <2>3. \A k \in 0..C : call[k] \in All
    BY <1>6
  <2>4. \A k \in 1..C : g[<<k, call[k - 1]>>] = upInsertCall(call[k - 1])
    <3> HIDE DEF All, S, C
    <3> QED BY <1>1, <2>2, <2>3
  <2>5. call = [k \in 0..C |-> call[k]]
    <3> HIDE DEF S, g, a, C
    <3> QED BY <1>6 DEF IsRun
  <2> HIDE DEF S, g, C, All
  <2> QED BY <2>1, <2>2, <2>4, <2>5
<1>8. upInsert(t, n) = call[C].tree
  <2> DEFINE IsCall(f) == f = [k \in 0..C |-> IF k = 0 THEN [tree |-> t, node |-> n] ELSE upInsertCall(f[k - 1])]
             f == CHOOSE f : IsCall(f)
  <2>1. IsCall(call)
    BY <1>7
  <2>2. IsCall(f)
    <3> HIDE DEF IsCall
    <3> QED BY <2>1
  <2>3. upInsert(t, n) = f[C].tree
    BY DEF upInsert
  <2>4. f = call
    <3> HIDE DEF f, C
    <3>1. \A k \in 0..C : f[k] = call[k]
      <4> DEFINE Q == [k \in 0..C |-> {call[k]}]
      <4>1. f[0] = call[0]
        BY <1>1, <2>1, <2>2
      <4>2. ASSUME NEW k \in 1..C, f[k - 1] = call[k - 1] PROVE f[k] = call[k]
        <5>1. k \in 0..C /\ k # 0
          BY <1>1
        <5> QED BY <2>1, <2>2, <4>2, <5>1
      <4>3. f[0] \in Q[0] /\ \A k \in 1..C : f[k - 1] \in Q[k - 1] => f[k] \in Q[k]
        <5>1. \A k \in 1..C : k \in 0..C /\ k - 1 \in 0..C
          BY <1>1
        <5> HIDE DEF IsCall
        <5> QED BY <1>1, <4>1, <4>2, <5>1
      <4> HIDE DEF Q
      <4>4. \A k \in 0..C : f[k] \in Q[k]
        BY <1>1, <4>3, LoopKeeps
      <4> QED BY <4>4 DEF Q
    <3>2. f = [k \in 0..C |-> f[k]] /\ call = [k \in 0..C |-> call[k]]
      BY <2>1, <2>2
    <3> HIDE DEF IsCall
    <3> QED BY <3>1, <3>2
  <2> QED BY <2>3, <2>4
<1>9. InsertInv(call[C], M, d, N, C)
  BY <1>1, <1>6
<1>10. call[C].node = NULL
  <2> SUFFICES ASSUME call[C].node # NULL PROVE FALSE
    OBVIOUS
  <2>1. PICK E, G : Grown(call[C].tree, E, G, M, d, call[C].node) /\ Cardinality(E[call[C].node]) > C
    BY <1>9 DEF InsertInv
  <2>2. E[call[C].node] \subseteq Items
    <3>1. call[C].node \in Nodes /\ E \in [Nodes -> SUBSET Items]
      BY <1>9, <2>1 DEF InsertInv, Grown, AVL, Linked
    <3> QED BY <3>1
  <2>3. Cardinality(E[call[C].node]) <= C /\ Cardinality(E[call[C].node]) \in Nat
    BY <2>2, TreeAssumption, FS_Subset, FS_CardinalityType
  <2> QED BY <1>1, <2>1, <2>3
<1> HIDE DEF C
<1> QED BY <1>8, <1>9, <1>10 DEF InsertInv

\* The argument of upDelete(): its subtree is by one lower than the parent sees,
\* if its balance is 0.
Shrunk(t, D, H, M, d, n) ==
    /\ n \in M /\ AVL(t, D, H, M, d, {n}) /\ t.balance[n] \in -2..2
    /\ t.balance[n] = 0 => Stands(t, H, n, H[n] - 1)
    /\ t.balance[n] # 0 => Stands(t, H, n, H[n])

\* After j calls of upDelete().
DeleteInv(x, M, d, N, j) ==
    /\ x.node \in Nodes /\ Rest(x.tree, M) = N
    /\ \E D, H : IF x.node = NULL THEN AVL(x.tree, D, H, M, d, {})
                 ELSE /\ Shrunk(x.tree, D, H, M, d, x.node)
                      /\ 2 * Cardinality(D[x.node]) >= j + (IF x.tree.balance[x.node] = 0 THEN 1 ELSE 2)

\* What the rotations in upDelete() leave: k is the one at which to go on, if any.
Undone(t, D, H, M, d, n, y) ==
    /\ Rest(y.tree, M) = Rest(t, M)
    /\ \E E, G : IF y.node = NULL THEN AVL(y.tree, E, G, M, d, {})
                 ELSE /\ Shrunk(y.tree, E, G, M, d, y.node) /\ y.tree.balance[y.node] = 0
                      /\ E[y.node] = D[n]

LEMMA restoredRestores ==
    ASSUME NEW t, NEW D, NEW H, NEW M, NEW d, NEW n, Shrunk(t, D, H, M, d, n), t.balance[n] \in {-2, 2}
    PROVE  Undone(t, D, H, M, d, n, restored(t, n))
<1> DEFINE s == HeavySide(t, n)
           c == Heavy(t, n)
           y == restored(t, n)
<1>0. s = HeavySide(t, n) /\ c = Heavy(t, n)
  OBVIOUS
<1> HIDE DEF s, c
<1>1. n \in M /\ AVL(t, D, H, M, d, {n}) /\ Stands(t, H, n, H[n]) /\ t.balance[n] \in {-2, 2}
  BY DEF Shrunk
<1>2. /\ s \in Sides /\ HeavyChild(t, n, s, c) /\ t.balance[n] = 2 * s /\ c \in M
      /\ H[c] = 2 + H[t.child[n][-s]] /\ t.balance[c] \in {-s, 0, s}
  BY <1>0, <1>1, HeavyBy2
<1>3. c = t.child[n][s] /\ s # 0 /\ s # -s
  BY <1>2 DEF HeavyChild, Sides
<1>4. /\ H[n] \in Nat /\ H[c] \in Nat /\ H[t.child[n][-s]] \in Nat
      /\ H[n] > H[c] /\ (H[n] = 1 + H[c] \/ H[n] = 1 + H[t.child[n][-s]])
  BY SMTT(30), <1>1, <1>2, <1>3, NodeFacts
<1>5. H[n] = 1 + H[c]
  BY <1>2, <1>4
<1> DEFINE Goes(u, k) == Restores(t, D, H, M, d, n, u, k)
<1>6. ASSUME NEW u, NEW k, Goes(u, k)
      PROVE  \E E, G : /\ AVL(u, E, G, M, d, {k}) /\ k \in M /\ E[k] = D[n] /\ G[k] = H[n]
                       /\ Stands(u, G, k, IF t.balance[c] = 0 THEN 1 + H[c] ELSE H[c])
                       /\ u.balance[k] = IF t.balance[c] = 0 THEN -s ELSE 0
                       /\ Rest(u, M) = Rest(t, M)
  BY <1>6 DEF Restores, s, c
<1> HIDE DEF Goes
<1>7. CASE t.balance[c] = 0
  <2>1. y = [tree |-> rotate(t, n), node |-> NULL]
    <3>1. t.balance[c] # s /\ t.balance[c] # -s
      BY <1>2, <1>7 DEF Sides
    <3> QED BY <1>0, <1>7, <3>1 DEF restored
  <2>2. Goes(rotate(t, n), c)
    <3>1. t.balance[c] # -s
      BY <1>2, <1>7 DEF Sides
    <3> QED BY <1>0, <1>1, <3>1, RestoreOnce DEF Goes
  <2> DEFINE u == rotate(t, n)
  <2> HIDE DEF u
  <2>3. PICK E, G : /\ AVL(u, E, G, M, d, {c}) /\ G[c] = H[n] /\ Stands(u, G, c, 1 + H[c])
                    /\ u.balance[c] = -s /\ Rest(u, M) = Rest(t, M)
    BY <1>6, <1>7, <2>2 DEF u
  <2>4. AVL(u, E, G, M, d, {})
    <3>1. u.balance[c] \in {-1, 0, 1}
      BY <1>2, <2>3 DEF Sides
    <3> QED BY <1>2, <1>5, <2>3, <3>1, SameHeight
  <2>5. y.tree = u /\ y.node = NULL
    BY <2>1 DEF u
  <2> HIDE DEF y
  <2>6. Undone(t, D, H, M, d, n, y)
    BY <2>3, <2>4, <2>5 DEF Undone
  <2> QED BY <2>6 DEF y
<1>8. CASE t.balance[c] # 0
  <2>1. \E u, k : Goes(u, k) /\ y = [tree |-> u, node |-> k]
    <3>1. CASE t.balance[c] = s
      <4>1. y = [tree |-> rotate(t, n), node |-> c]
        BY <1>0, <1>3, <1>8, <3>1 DEF restored
      <4>2. Goes(rotate(t, n), c)
        <5>1. t.balance[c] # -s
          BY <1>3, <3>1
        <5> QED BY <1>0, <1>1, <5>1, RestoreOnce DEF Goes
      <4> QED BY <4>1, <4>2
    <3>2. CASE t.balance[c] = -s
      <4>1. y = [tree |-> rotate(rotate(t, c), n), node |-> Heavy(rotate(t, c), n)]
        <5>1. t.balance[c] # 0 /\ t.balance[c] # s
          BY <1>3, <1>8, <3>2
        <5> QED BY <1>0, <3>2, <5>1 DEF restored
      <4>2. Goes(rotate(rotate(t, c), n), Heavy(rotate(t, c), n))
        BY <1>0, <1>1, <3>2, RestoreTwice DEF Goes
      <4> QED BY <4>1, <4>2
    <3> QED BY <1>2, <1>8, <3>1, <3>2
  <2>2. PICK u, k : Goes(u, k) /\ y = [tree |-> u, node |-> k]
    BY <2>1
  <2>3. PICK E, G : /\ AVL(u, E, G, M, d, {k}) /\ k \in M /\ E[k] = D[n] /\ G[k] = H[n]
                    /\ Stands(u, G, k, H[c]) /\ u.balance[k] = 0 /\ Rest(u, M) = Rest(t, M)
    BY <1>6, <1>8, <2>2
  <2>4. Shrunk(u, E, G, M, d, k)
    <3>1. G[k] - 1 = H[c] /\ u.balance[k] \in -2..2
      BY <1>4, <1>5, <2>3
    <3> QED BY <2>3, <3>1 DEF Shrunk
  <2>5. y.tree = u /\ y.node = k /\ k # NULL
    <3>1. k # NULL
      BY <2>3, TreeAssumption DEF AVL, Linked
    <3> QED BY <2>2, <3>1
  <2> HIDE DEF y
  <2>6. Undone(t, D, H, M, d, n, y)
    BY <2>3, <2>4, <2>5 DEF Undone
  <2> QED BY <2>6 DEF y
<1> QED BY <1>7, <1>8

\* At the root the rotations end it.
LEMMA DeleteAtRoot ==
    ASSUME NEW t, NEW D, NEW H, NEW M, NEW d, NEW n, Shrunk(t, D, H, M, d, n), t.balance[n] \in {-2, 2},
           n = t.root
    PROVE  LET u == IF HeavySide(t, n) * t.balance[Heavy(t, n)] >= 0 THEN rotate(t, n) ELSE rotateTwice(t, n)
           IN  Rest(u, M) = Rest(t, M) /\ \E E, G : AVL(u, E, G, M, d, {})
<1> DEFINE s == HeavySide(t, n)
           c == Heavy(t, n)
           u == IF s * t.balance[c] >= 0 THEN rotate(t, n) ELSE rotateTwice(t, n)
<1>0. s = HeavySide(t, n) /\ c = Heavy(t, n)
  OBVIOUS
<1> HIDE DEF s, c
<1>1. n \in M /\ AVL(t, D, H, M, d, {n}) /\ t.balance[n] \in {-2, 2}
  BY DEF Shrunk
<1>2. s \in Sides /\ c \in M /\ t.balance[c] \in {-s, 0, s}
  <2>1. /\ s \in Sides /\ HeavyChild(t, n, s, c) /\ t.balance[n] = 2 * s /\ c \in M
        /\ H[c] = 2 + H[t.child[n][-s]] /\ t.balance[c] \in {-s, 0, s}
    <3> HIDE DEF u
    <3> QED BY <1>0, <1>1, HeavyBy2
  <2> QED BY <2>1
<1>3. s * t.balance[c] >= 0 <=> t.balance[c] # -s
  <2>1. CASE s = 1
    BY <1>2, <2>1
  <2>2. CASE s = -1
    BY <1>2, <2>2
  <2> QED BY <1>2, <2>1, <2>2 DEF Sides
<1>4. \E k : Restores(t, D, H, M, d, n, u, k)
  <2>1. CASE s * t.balance[c] >= 0
    <3>1. Restores(t, D, H, M, d, n, rotate(t, n), Heavy(t, n))
      BY <1>0, <1>1, <1>3, <2>1, RestoreOnce
    <3>2. u = rotate(t, n)
      BY <2>1
    <3> QED BY <3>1, <3>2
  <2>2. CASE ~(s * t.balance[c] >= 0)
    <3>1. t.balance[c] = -s
      BY <1>3, <2>2
    <3>2. Restores(t, D, H, M, d, n, rotate(rotate(t, c), n), Heavy(rotate(t, c), n))
      BY <1>0, <1>1, <3>1, RestoreTwice
    <3>3. u = rotate(rotate(t, c), n)
      BY <1>0, <2>2 DEF rotateTwice
    <3> QED BY <3>2, <3>3
  <2> QED BY <2>1, <2>2
<1> HIDE DEF u
<1> DEFINE v == IF t.balance[c] = 0 THEN 1 + H[c] ELSE H[c]
<1>5. PICK k, E, G : /\ AVL(u, E, G, M, d, {k}) /\ k \in M /\ E[k] = D[n] /\ Stands(u, G, k, v)
                     /\ u.balance[k] = (IF t.balance[c] = 0 THEN -s ELSE 0)
                     /\ Rest(u, M) = Rest(t, M)
  BY <1>4 DEF Restores, s, c
<1>6. v \in Nat
  <2>1. H[c] \in Nat
    BY <1>1, <1>2 DEF AVL, Fits, Linked, Nodes
  <2> QED BY <2>1
<1>7. k = u.root
  <2>1. E[k] = M
    BY <1>1, <1>5 DEF AVL, Linked
  <2> QED BY <1>5, <2>1, RootHolds DEF AVL
<1>8. u.balance[k] \in {-1, 0, 1}
  BY <1>2, <1>5 DEF Sides
<1> HIDE DEF v
<1>9. AVL(u, E, [G EXCEPT ![k] = v], M, d, {})
  BY <1>5, <1>6, <1>7, <1>8, RootHeight
<1> QED BY <1>5, <1>9 DEF u, s, c

\* A node that has shrunk makes its parent shrink, as far as that sees it.
LEMMA ShrunkUp ==
    ASSUME NEW t, NEW D, NEW H, NEW M, NEW d, NEW n, Shrunk(t, D, H, M, d, n),
           t.balance[n] = 0, NEW p, NEW r, Hangs(t, D, M, n, p, r),
           NEW u, Rebalanced(t, u, p, t.balance[p] - r)
    PROVE  Shrunk(u, D, [H EXCEPT ![n] = H[n] - 1], M, d, p)
<1> DEFINE G == [H EXCEPT ![n] = H[n] - 1]
           b == t.balance[p]
           m == t.child[p][-r]
<1>1. n \in M /\ AVL(t, D, H, M, d, {n}) /\ Stands(t, H, n, H[n] - 1)
  BY DEF Shrunk
<1>2. p \in M /\ p # n /\ r \in Sides /\ t.child[p][r] = n /\ t.child[p][-r] # n /\ -r \in Sides
  BY DEF Hangs, Sides
<1>3. /\ H[n] \in Nat /\ H[m] \in Nat /\ H[p] \in Nat /\ b \in Int /\ b = Lean(r, H[n], H[m])
      /\ Level(t, H, p) /\ p \in Items /\ n \in Items /\ m \in M \cup {NULL}
      /\ H[p] > H[n] /\ H[p] > H[m] /\ (H[p] = 1 + H[n] \/ H[p] = 1 + H[m])
  <2>1. /\ H[n] \in Nat /\ H[m] \in Nat /\ H[p] \in Nat /\ b \in Int /\ b = Lean(r, H[n], H[m])
        /\ Level(t, H, p) /\ p \in Items /\ m \in M \cup {NULL}
        /\ Stands(t, H, p, H[p]) =>
              /\ H[p] > H[n] /\ H[p] > H[m]
              /\ H[p] = 1 + H[n] \/ H[p] = 1 + H[m]
    BY <1>1, <1>2, NodeFacts
  <2>2. n \in Items
    BY <1>1 DEF AVL, Linked
  <2> QED BY <2>1, <2>2 DEF Level
<1>31. H[n] - 1 \in Nat
  <2>1. H[n] - 1 > H[t.child[n][r]] /\ H[t.child[n][r]] \in Nat
    BY <1>1, <1>2, NodeFacts
  <2> QED BY <1>3, <2>1
<1>4. b - r = Lean(r, H[n] - 1, H[m]) /\ b - r \in Int
  BY <1>2, <1>3 DEF Lean, Sides
<1>5. AVL(u, D, G, M, d, {p})
  <2>1. n # t.root
    BY <1>1, <1>2, TreeAssumption DEF AVL, Linked, Hangs
  <2>2. t.balance[n] \in {-1, 0, 1}
    OBVIOUS
  <2> HIDE DEF G, b
  <2> QED BY <1>1, <1>31, <1>4, <2>1, <2>2, ParentHeight DEF G, b
<1>6. u.balance[p] = b - r /\ u.child = t.child
  BY <1>1, <1>2, <1>3 DEF Rebalanced, AVL, Linked, Shapes
<1>7. H \in [Nodes -> Nat] /\ M \subseteq Nodes /\ NULL \in Nodes
  BY DEF Shrunk, AVL, Linked, Fits, Nodes
<1>8. G[n] = H[n] - 1 /\ G[p] = H[p] /\ G[m] = H[m]
  BY <1>1, <1>2, <1>3, <1>7 DEF Nodes
<1> HIDE DEF G
<1>9. \A x : Stands(u, G, p, x) <=>
            /\ x > H[n] - 1 /\ x > H[m]
            /\ x = 1 + (H[n] - 1) \/ x = 1 + H[m]
  <2>1. \A x : Stands(u, G, p, x) <=>
            /\ x > G[u.child[p][r]] /\ x > G[u.child[p][-r]]
            /\ x = 1 + G[u.child[p][r]] \/ x = 1 + G[u.child[p][-r]]
    BY <1>2, <1>5, NodeFacts
  <2> QED BY <1>2, <1>6, <1>8, <2>1
<1> HIDE DEF b, m
<1>10. b \in {-1, 0, 1}
  BY <1>3 DEF Level, b
<1>11. r = 1 \/ r = -1
  BY <1>2 DEF Sides
<1>12. /\ u.balance[p] \in -2..2
       /\ u.balance[p] = 0 => H[m] = H[n] - 1 /\ H[p] - 1 = 1 + H[m]
       /\ u.balance[p] # 0 => H[m] >= H[n] /\ H[p] = 1 + H[m]
  <2>1. CASE r = 1
    <3>1. b = H[n] - H[m] /\ u.balance[p] = b - 1
      BY <1>3, <1>6, <2>1 DEF Lean
    <3> QED BY <1>3, <1>10, <3>1
  <2>2. CASE r = -1
    <3>1. b = H[m] - H[n] /\ u.balance[p] = b + 1
      BY <1>3, <1>6, <2>2 DEF Lean
    <3> QED BY <1>3, <1>10, <3>1
  <2> QED BY <1>11, <2>1, <2>2
<1>13. u.balance[p] = 0 => Stands(u, G, p, G[p] - 1)
  BY <1>3, <1>8, <1>9, <1>12
<1>14. u.balance[p] # 0 => Stands(u, G, p, G[p])
  BY <1>3, <1>8, <1>9, <1>12
<1> QED BY <1>2, <1>5, <1>12, <1>13, <1>14 DEF Shrunk, G

LEMMA RestoredRecord ==
    ASSUME NEW t, NEW D, NEW H, NEW M, NEW d, NEW n, Shrunk(t, D, H, M, d, n), t.balance[n] \in {-2, 2}
    PROVE  restored(t, n) = [tree |-> restored(t, n).tree, node |-> restored(t, n).node]
<1> DEFINE s == HeavySide(t, n)
           c == Heavy(t, n)
<1>0. s = HeavySide(t, n) /\ c = Heavy(t, n)
  OBVIOUS
<1> HIDE DEF s, c
<1>1. n \in M /\ AVL(t, D, H, M, d, {n}) /\ t.balance[n] \in {-2, 2}
  BY DEF Shrunk
<1>2. /\ s \in Sides /\ HeavyChild(t, n, s, c) /\ t.balance[n] = 2 * s /\ c \in M
      /\ H[c] = 2 + H[t.child[n][-s]] /\ t.balance[c] \in {-s, 0, s}
  BY <1>0, <1>1, HeavyBy2
<1>3. t.balance[Heavy(t, n)] \in {-HeavySide(t, n), 0, HeavySide(t, n)}
  BY <1>0, <1>2
<1> QED BY <1>3 DEF restored

\* A call of upDelete() keeps its promise.
LEMMA DeleteStep ==
    ASSUME NEW M, NEW d, NEW N, NEW j \in Nat, NEW x, DeleteInv(x, M, d, N, j),
           x = [tree |-> x.tree, node |-> x.node]
    PROVE  LET y == upDeleteCall(x)
           IN  DeleteInv(y, M, d, N, j + 1) /\ y.tree \in Shapes /\ y = [tree |-> y.tree, node |-> y.node]
<1> DEFINE t == x.tree
           n == x.node
           b == t.balance[n]
           y == upDeleteCall(x)
           Done(u, v) == DeleteInv([tree |-> u, node |-> v], M, d, N, j + 1) /\ u \in Shapes
<1>0. NULL \in Nodes /\ n \in Nodes /\ Rest(t, M) = N
  BY DEF DeleteInv, Nodes
<1> SUFFICES \E u, v : y = [tree |-> u, node |-> v] /\ Done(u, v)
  <2> HIDE DEF y
  <2> QED BY DEF y
<1>1. CASE n = NULL
  <2>1. y = x
    BY <1>1 DEF upDeleteCall
  <2>2. Done(t, n)
    <3>1. \E D, H : AVL(t, D, H, M, d, {})
      BY <1>1 DEF DeleteInv
    <3>2. t \in Shapes
      BY <3>1 DEF AVL, Linked
    <3> QED BY <1>0, <1>1, <3>1, <3>2 DEF DeleteInv
  <2> HIDE DEF y, Done
  <2> QED BY <2>1, <2>2
<1>2. CASE n # NULL
  <2>1. PICK D, H : /\ Shrunk(t, D, H, M, d, n)
                    /\ 2 * Cardinality(D[n]) >= j + (IF b = 0 THEN 1 ELSE 2)
    BY <1>2 DEF DeleteInv
  <2>2. /\ n \in M /\ AVL(t, D, H, M, d, {n}) /\ b \in -2..2 /\ b \in Int /\ t \in Shapes
        /\ D[n] \subseteq Items /\ M \subseteq Items /\ n \in Items
    <3>1. n \in M /\ AVL(t, D, H, M, d, {n}) /\ b \in -2..2
      BY <2>1 DEF Shrunk
    <3>2. D \in [Nodes -> SUBSET Items] /\ t \in Shapes /\ M \subseteq Items
      BY <3>1 DEF AVL, Linked
    <3> QED BY <1>0, <3>1, <3>2
  <2>3. IsFiniteSet(D[n]) /\ Cardinality(D[n]) \in Nat
    BY <2>2, TreeAssumption, FS_Subset, FS_CardinalityType
  <2>4. ASSUME NEW u, Rest(u, M) = N, \E E, G : AVL(u, E, G, M, d, {}) PROVE Done(u, NULL)
    <3>1. u \in Shapes
      BY <2>4 DEF AVL, Linked
    <3>2. DeleteInv([tree |-> u, node |-> NULL], M, d, N, j + 1)
      BY <1>0, <2>4 DEF DeleteInv
    <3> QED BY <3>1, <3>2
  <2>5. ASSUME NEW u, NEW E, NEW G, NEW v, Rest(u, M) = N, Shrunk(u, E, G, M, d, v),
               2 * Cardinality(E[v]) >= j + 1 + (IF u.balance[v] = 0 THEN 1 ELSE 2)
        PROVE  Done(u, v)
    <3>1. v \in M /\ u \in Shapes
      BY <2>5 DEF Shrunk, AVL, Linked
    <3>2. v \in Nodes /\ v # NULL
      BY <2>2, <3>1, TreeAssumption DEF Nodes
    <3>3. DeleteInv([tree |-> u, node |-> v], M, d, N, j + 1)
      BY <2>5, <3>2 DEF DeleteInv
    <3> QED BY <3>1, <3>3
  <2>6. ASSUME NEW w, NEW E, NEW G, NEW v, Rest(w, M) = N, Undone(w, E, G, M, d, v, restored(w, v)),
               2 * Cardinality(E[v]) >= j + 2
        PROVE  LET z == restored(w, v) IN Done(z.tree, z.node)
    <3> DEFINE z == restored(w, v)
    <3> HIDE DEF z
    <3>1. Rest(z.tree, M) = N
      BY <2>6 DEF Undone, z
    <3>2. PICK A, B : IF z.node = NULL THEN AVL(z.tree, A, B, M, d, {})
                      ELSE /\ Shrunk(z.tree, A, B, M, d, z.node) /\ z.tree.balance[z.node] = 0
                           /\ A[z.node] = E[v]
      BY <2>6 DEF Undone, z
    <3>3. CASE z.node = NULL
      <4>1. Done(z.tree, NULL)
        <5> HIDE DEF Done
        <5> QED BY <2>4, <3>1, <3>2, <3>3
      <4> QED BY <3>3, <4>1 DEF z
    <3>4. CASE z.node # NULL
      <4>1. 2 * Cardinality(A[z.node]) >= j + 1 + (IF z.tree.balance[z.node] = 0 THEN 1 ELSE 2)
        BY <2>6, <3>2, <3>4
      <4>2. Done(z.tree, z.node)
        <5> HIDE DEF Done
        <5> QED BY <2>5, <3>1, <3>2, <3>4, <4>1
      <4> QED BY <4>2 DEF z
    <3> QED BY <3>3, <3>4
  <2>61. ASSUME NEW w, NEW E, NEW G, NEW v, Shrunk(w, E, G, M, d, v), w.balance[v] \in {-2, 2}
         PROVE  restored(w, v) = [tree |-> restored(w, v).tree, node |-> restored(w, v).node]
    BY <2>61, RestoredRecord
  <2> HIDE DEF Done
  <2>7. CASE b \in {-1, 1}
    <3>1. y = [x EXCEPT !.node = NULL]
      BY <1>2, <2>7 DEF upDeleteCall
    <3>2. y = [tree |-> t, node |-> NULL]
      <4> HIDE DEF y
      <4>1. [x EXCEPT !.node = NULL] = [tree |-> x.tree, node |-> NULL]
        OBVIOUS
      <4> QED BY <3>1, <4>1
    <3>3. AVL(t, D, H, M, d, {})
      BY <2>1, <2>2, <2>7, SameHeight DEF Shrunk
    <3> HIDE DEF y
    <3> QED BY <1>0, <2>4, <3>2, <3>3
  <2>8. CASE n = t.root /\ b = 0
    <3>1. y = [x EXCEPT !.node = NULL]
      BY <1>2, <2>8 DEF upDeleteCall
    <3>2. y = [tree |-> t, node |-> NULL]
      <4> HIDE DEF y
      <4>1. [x EXCEPT !.node = NULL] = [tree |-> x.tree, node |-> NULL]
        OBVIOUS
      <4> QED BY <3>1, <4>1
    <3>3. Stands(t, H, n, H[n] - 1) /\ H[n] - 1 \in Nat
      <4>1. Stands(t, H, n, H[n] - 1)
        BY <2>1, <2>8 DEF Shrunk
      <4>2. H[n] \in Nat /\ H[t.child[n][1]] \in Nat /\ H[n] - 1 > H[t.child[n][1]]
        BY SMTT(30), <2>2, <4>1, NodeFacts, 1 \in Sides DEF Sides
      <4> QED BY <4>1, <4>2
    <3>4. AVL(t, D, [H EXCEPT ![n] = H[n] - 1], M, d, {})
      BY <2>2, <2>8, <3>3, RootHeight
    <3> HIDE DEF y
    <3> QED BY <1>0, <2>4, <3>2, <3>4
  <2>9. CASE n = t.root /\ b \in {-2, 2}
    <3> DEFINE u == IF HeavySide(t, n) * t.balance[Heavy(t, n)] >= 0
                    THEN rotate(t, n) ELSE rotateTwice(t, n)
    <3>1. y = [tree |-> u, node |-> NULL]
      BY <1>2, <2>9 DEF upDeleteCall
    <3>2. Rest(u, M) = N /\ \E E, G : AVL(u, E, G, M, d, {})
      BY <1>0, <2>1, <2>9, DeleteAtRoot
    <3> HIDE DEF y, u
    <3> QED BY <2>4, <3>1, <3>2
  <2>10. CASE n # t.root /\ b \in {-2, 2}
    <3>1. y = restored(t, n)
      BY <1>2, <2>10 DEF upDeleteCall
    <3>2. Undone(t, D, H, M, d, n, restored(t, n))
      BY <2>1, <2>10, restoredRestores
    <3>3. 2 * Cardinality(D[n]) >= j + 2
      BY <2>1, <2>10
    <3> DEFINE z == restored(t, n)
    <3>4. Done(z.tree, z.node)
      BY <1>0, <2>6, <3>2, <3>3
    <3>5. z = [tree |-> z.tree, node |-> z.node]
      BY <2>1, <2>10, <2>61
    <3> HIDE DEF y, z
    <3> QED BY <3>1, <3>4, <3>5 DEF z
  <2>11. CASE n # t.root /\ b = 0
    <3> DEFINE p == t.parent[n]
               r == SideOf(t, n)
               u == [t EXCEPT !.balance[p] = @ - r]
    <3>1. y = IF u.balance[p] \in {-2, 2} THEN restored(u, p) ELSE [tree |-> u, node |-> p]
      BY <1>2, <2>11 DEF upDeleteCall
    <3>2. Hangs(t, D, M, n, p, r)
      BY <2>2, <2>11, ParentFacts DEF AVL
    <3> DEFINE G == [H EXCEPT ![n] = H[n] - 1]
    <3> HIDE DEF p, r
    <3>3. p \in M /\ r \in Int /\ D[n] \subseteq D[p] /\ p \in D[p] /\ p \notin D[n]
      <4> HIDE DEF t, n
      <4> QED BY <3>2 DEF Hangs, Sides
    <3>4. p \in Items /\ p \in Nodes /\ p # NULL /\ t.balance[p] \in Int
          /\ D[p] \subseteq Items
      BY <2>2, <3>3, TreeAssumption DEF AVL, Linked, Shapes, Nodes
    <3>5. Rebalanced(t, u, p, t.balance[p] - r)
      <4>1. u = [t EXCEPT !.balance[p] = t.balance[p] - r]
        BY <2>2 DEF Shapes
      <4>2. t.balance[p] - r \in Int
        BY <3>3, <3>4
      <4> HIDE DEF u
      <4> QED BY <2>2, <3>4, <4>1, <4>2, SetBalance
    <3> HIDE DEF u, y
    <3>6. Shrunk(u, D, G, M, d, p)
      BY <2>1, <2>11, <3>2, <3>5, ShrunkUp
    <3> HIDE DEF G
    <3>7. 2 * Cardinality(D[p]) >= j + 3
      <4> DEFINE A == D[n]
                 B == D[p]
      <4>1. A \subseteq B /\ A # B /\ IsFiniteSet(B)
        BY <2>3, <3>3, <3>4, TreeAssumption, FS_Subset
      <4>2. 2 * Cardinality(A) >= j + 1 /\ Cardinality(A) \in Nat
        BY <2>1, <2>3, <2>11
      <4> HIDE DEF A, B
      <4>3. Cardinality(A) < Cardinality(B) /\ Cardinality(B) \in Nat
        BY <4>1, FS_Subset, FS_CardinalityType
      <4>4. 2 * Cardinality(B) >= j + 3
        BY <4>2, <4>3
      <4> QED BY <4>4 DEF B
    <3>8. Rest(u, M) = N
      BY <1>0, <3>5, RebalancedRest
    <3>9. CASE u.balance[p] \in {-2, 2}
      <4> DEFINE z == restored(u, p)
      <4>1. Undone(u, D, G, M, d, p, z)
        BY <3>6, <3>9, restoredRestores
      <4>2. 2 * Cardinality(D[p]) >= j + 2
        <5>1. Cardinality(D[p]) \in Nat
          BY <3>4, TreeAssumption, FS_Subset, FS_CardinalityType
        <5> QED BY <3>7, <5>1
      <4>3. Done(z.tree, z.node)
        BY <2>6, <3>8, <4>1, <4>2
      <4>4. z = [tree |-> z.tree, node |-> z.node]
        BY <2>61, <3>6, <3>9
      <4> HIDE DEF z
      <4> QED BY <3>1, <3>9, <4>3, <4>4 DEF z
    <3>10. CASE u.balance[p] \notin {-2, 2}
      <4>1. y = [tree |-> u, node |-> p]
        BY <3>1, <3>10
      <4>2. 2 * Cardinality(D[p]) >= j + 1 + (IF u.balance[p] = 0 THEN 1 ELSE 2)
        <5>1. Cardinality(D[p]) \in Nat
          BY <3>4, TreeAssumption, FS_Subset, FS_CardinalityType
        <5> QED BY <3>7, <5>1
      <4>3. Done(u, p)
        BY <2>5, <3>6, <3>8, <4>2
      <4> QED BY <4>1, <4>3
    <3> QED BY <3>9, <3>10
  <2>12. b \in {-1, 1} \/ b = 0 \/ b \in {-2, 2}
    BY <2>2
  <2> HIDE DEF y
  <2> QED BY <2>7, <2>8, <2>9, <2>10, <2>11, <2>12
<1> HIDE DEF y, Done
<1> QED BY <1>1, <1>2

\* upDelete() restores the tree.
LEMMA upDeleteRestores ==
    ASSUME NEW t, NEW D, NEW H, NEW M, NEW d, NEW n, Shrunk(t, D, H, M, d, n)
    PROVE  LET u == upDelete(t, n)
           IN  Rest(u, M) = Rest(t, M) /\ \E E, G : AVL(u, E, G, M, d, {})
<1> DEFINE N == Rest(t, M)
           C == 2 * Cardinality(Items)
           a == [tree |-> t, node |-> n]
           All == [tree : Shapes, node : Nodes]
           S == [j \in 0..C |-> {x \in All : DeleteInv(x, M, d, N, j)}]
           g == [p \in (1..C) \X All |-> upDeleteCall(p[2])]
<1>1. C \in Nat
  BY ItemsFinite
<1>2. n \in M /\ t \in Shapes /\ n \in Nodes /\ n \in D[n] /\ D[n] \subseteq Items /\ M \subseteq Items
  BY SMTT(30), -1 \in Sides, Parts DEF Shrunk, AVL, Linked, Nodes, Sides
<1>3. a \in S[0]
  <2>1. a \in All
    BY <1>2
  <2>2. Cardinality(D[n]) \in Nat /\ Cardinality(D[n]) > 0
    <3>1. IsFiniteSet(D[n])
      BY <1>2, TreeAssumption, FS_Subset
    <3> QED BY <1>2, <3>1, FS_EmptySet, FS_CardinalityType
  <2>3. DeleteInv(a, M, d, N, 0)
    <3>1. n # NULL
      BY <1>2, TreeAssumption
    <3>2. 2 * Cardinality(D[n]) >= 0 + (IF t.balance[n] = 0 THEN 1 ELSE 2)
      BY <2>2
    <3> QED BY <1>2, <3>1, <3>2 DEF DeleteInv
  <2> HIDE DEF a, All
  <2> QED BY <1>1, <2>1, <2>3
<1>5. \A k \in 1..C : \A x \in S[k - 1] : g[<<k, x>>] \in S[k]
  <2> TAKE k \in 1..C
  <2> TAKE x \in S[k - 1]
  <2>1. x \in All /\ DeleteInv(x, M, d, N, k - 1) /\ k - 1 \in Nat
    BY <1>1
  <2>2. g[<<k, x>>] = upDeleteCall(x)
    <3> HIDE DEF All
    <3> QED BY <2>1
  <2> DEFINE y == upDeleteCall(x)
  <2>3. DeleteInv(y, M, d, N, (k - 1) + 1) /\ y.tree \in Shapes /\ y = [tree |-> y.tree, node |-> y.node]
    <3>1. x = [tree |-> x.tree, node |-> x.node]
      BY <2>1
    <3> QED BY <2>1, <3>1, DeleteStep
  <2> HIDE DEF y
  <2>4. DeleteInv(y, M, d, N, k)
    BY <1>1, <2>3
  <2>5. y \in All
    <3>1. y.node \in Nodes
      BY <2>3 DEF DeleteInv
    <3> QED BY <2>3, <3>1
  <2> HIDE DEF All, g
  <2> QED BY <2>2, <2>4, <2>5 DEF y
<1>6. PICK call : IsRun(call, C, a, g) /\ \A k \in 0..C : call[k] \in S[k]
  <2> HIDE DEF S, g, a, C
  <2> QED BY <1>1, <1>3, <1>5, LoopRuns
<1>7. call = [k \in 0..C |-> IF k = 0 THEN [tree |-> t, node |-> n] ELSE upDeleteCall(call[k - 1])]
  <2>1. \A k \in 0..C : call[k] = IF k = 0 THEN a ELSE g[<<k, call[k - 1]>>]
    <3> HIDE DEF S, g, a, C
    <3> QED BY <1>6 DEF IsRun
  <2>2. \A k \in 0..C : k # 0 => k - 1 \in 0..C /\ k \in 1..C
    BY <1>1
  <2>3. \A k \in 0..C : call[k] \in All
    BY <1>6
  <2>4. \A k \in 1..C : g[<<k, call[k - 1]>>] = upDeleteCall(call[k - 1])
    <3> HIDE DEF All, S, C
    <3> QED BY <1>1, <2>2, <2>3
  <2>5. call = [k \in 0..C |-> call[k]]
    <3> HIDE DEF S, g, a, C
    <3> QED BY <1>6 DEF IsRun
  <2> HIDE DEF S, g, C, All
  <2> QED BY <2>1, <2>2, <2>4, <2>5
<1>8. upDelete(t, n) = call[C].tree
  <2> DEFINE IsCall(f) == f = [k \in 0..C |-> IF k = 0 THEN [tree |-> t, node |-> n] ELSE upDeleteCall(f[k - 1])]
             f == CHOOSE f : IsCall(f)
  <2>1. IsCall(call)
    BY <1>7
  <2>2. IsCall(f)
    <3> HIDE DEF IsCall
    <3> QED BY <2>1
  <2>3. upDelete(t, n) = f[C].tree
    BY DEF upDelete
  <2>4. f = call
    <3> HIDE DEF f, C
    <3>1. \A k \in 0..C : f[k] = call[k]
      <4> DEFINE Q == [k \in 0..C |-> {call[k]}]
      <4>1. f[0] = call[0]
        BY <1>1, <2>1, <2>2
      <4>2. ASSUME NEW k \in 1..C, f[k - 1] = call[k - 1] PROVE f[k] = call[k]
        <5>1. k \in 0..C /\ k # 0
          BY <1>1
        <5> QED BY <2>1, <2>2, <4>2, <5>1
      <4>3. f[0] \in Q[0] /\ \A k \in 1..C : f[k - 1] \in Q[k - 1] => f[k] \in Q[k]
        <5>1. \A k \in 1..C : k \in 0..C /\ k - 1 \in 0..C
          BY <1>1
        <5> HIDE DEF IsCall
        <5> QED BY <1>1, <4>1, <4>2, <5>1
      <4> HIDE DEF Q
      <4>4. \A k \in 0..C : f[k] \in Q[k]
        BY <1>1, <4>3, LoopKeeps
      <4> QED BY <4>4 DEF Q
    <3>2. f = [k \in 0..C |-> f[k]] /\ call = [k \in 0..C |-> call[k]]
      BY <2>1, <2>2
    <3> HIDE DEF IsCall
    <3> QED BY <3>1, <3>2
  <2> QED BY <2>3, <2>4
<1>9. DeleteInv(call[C], M, d, N, C)
  BY <1>1, <1>6
<1>10. call[C].node = NULL
  <2> SUFFICES ASSUME call[C].node # NULL PROVE FALSE
    OBVIOUS
  <2> DEFINE m == call[C].node
  <2>1. PICK E, G : /\ Shrunk(call[C].tree, E, G, M, d, m)
                    /\ 2 * Cardinality(E[m]) >= C + (IF call[C].tree.balance[m] = 0 THEN 1 ELSE 2)
    BY <1>9 DEF DeleteInv
  <2>2. E[m] \subseteq Items
    <3>1. m \in Nodes /\ E \in [Nodes -> SUBSET Items]
      BY <1>9, <2>1 DEF DeleteInv, Shrunk, AVL, Linked
    <3> QED BY <3>1
  <2>3. Cardinality(E[m]) <= Cardinality(Items) /\ Cardinality(E[m]) \in Nat
    BY <2>2, TreeAssumption, FS_Subset, FS_CardinalityType
  <2> HIDE DEF m
  <2> QED BY ItemsFinite, <2>1, <2>3
<1> HIDE DEF C
<1> QED BY <1>8, <1>9, <1>10 DEF DeleteInv

-----------------------------------------------------------------------------
(* The ways down                                                           *)

\* Nodes that are not in the tree have no children.
Idle(t, M) == \A n \in Items \ M, s \in Sides : t.child[n][s] = NULL

LEMMA TreeRanked ==
    ASSUME NEW t, NEW D, NEW M, Linked(t, D, M), Idle(t, M)
    PROVE  \E R : Ranked(t.child, R)
<1> DEFINE child == [n \in Items |-> IF n \in M THEN t.child[n] ELSE [s \in Sides |-> NULL]]
<1> DEFINE R == [n \in Nodes |-> IF n \in M THEN Cardinality(D[n]) ELSE IF n = NULL THEN 0 ELSE 1]
<1>1. Ranked(child, R)
  BY LinkedRanked
<1> HIDE DEF R
<1>2. t.child \in [Items -> [Sides -> Nodes]]
  BY DEF Linked, Shapes
<1>3. child = t.child
  <2>1. ASSUME NEW n \in Items PROVE child[n] = t.child[n]
    <3>1. t.child[n] = [s \in Sides |-> t.child[n][s]]
      BY <1>2
    <3>2. CASE n \in M
      BY <3>2
    <3>3. CASE n \notin M
      BY <3>1, <3>3 DEF Idle
    <3> QED BY <3>2, <3>3
  <2> QED BY <1>2, <2>1
<1> HIDE DEF child
<1> QED BY <1>1, <1>3

LEMMA WayIsSide == ASSUME NEW n, NEW key PROVE Way(n, key) \in Sides
BY DEF Way, Sides

\* A node p where there is room for a key: the way down from every node above p
\* leads to p.
Place(t, D, M, key, p) ==
    /\ p \in M /\ t.child[p][Way(p, key)] = NULL
    /\ \A m \in M : p \in D[m] /\ m # p => p \in D[t.child[m][Way(m, key)]]

LEMMA PlaceBelowRight ==
    ASSUME NEW t, NEW D, NEW M, Linked(t, D, M), Idle(t, M), t.root # NULL, NEW key
    PROVE  Place(t, D, M, key, PlaceBelow(t, key))
<1> DEFINE IsBelow(f) == f = [n \in Items |-> LET c == t.child[n][Way(n, key)] IN IF c = NULL THEN n ELSE f[c]]
           below == CHOOSE f : IsBelow(f)
<1>1. PICK R : Ranked(t.child, R)
  BY TreeRanked
<1>2. \E f : IsBelow(f)
  <2> DEFINE g == [q \in Items \X Nodes \X Nodes |->
                     IF t.child[q[1]][Way(q[1], key)] = NULL THEN q[1]
                     ELSE IF Way(q[1], key) = 1 THEN q[3] ELSE q[2]]
  <2>1. \A n \in Items, x, y \in Nodes :
           g[<<n, x, y>>] = IF t.child[n][Way(n, key)] = NULL THEN n ELSE IF Way(n, key) = 1 THEN y ELSE x
    OBVIOUS
  <2>2. Combines(g, Nodes)
    <3> HIDE DEF g
    <3> SUFFICES ASSUME NEW n \in Items, NEW x \in Nodes, NEW y \in Nodes
                 PROVE  g[<<n, x, y>>] \in Nodes
      BY DEF Combines
    <3> QED BY <2>1 DEF Nodes
  <2>3. NULL \in Nodes /\ NULL \notin Items
    BY TreeAssumption DEF Nodes
  <2> HIDE DEF g
  <2>40. PICK f : Unfolds(f, t.child, Nodes, NULL, g)
    BY <1>1, <2>2, <2>3, TreeFunction
  <2>4. /\ f \in [Nodes -> Nodes]
        /\ f[NULL] = NULL /\ \A n \in Items : f[n] = g[<<n, f[t.child[n][-1]], f[t.child[n][1]]>>]
    BY <2>40 DEF Unfolds
  <2> DEFINE h == [n \in Items |-> f[n]]
  <2>5. ASSUME NEW n \in Items
        PROVE  h[n] = IF t.child[n][Way(n, key)] = NULL THEN n ELSE h[t.child[n][Way(n, key)]]
    <3>1. t.child[n][-1] \in Nodes /\ t.child[n][1] \in Nodes
      BY <1>1 DEF Ranked, Sides
    <3>2. h[n] = g[<<n, f[t.child[n][-1]], f[t.child[n][1]]>>]
      BY <2>4
    <3>3. f[t.child[n][-1]] \in Nodes /\ f[t.child[n][1]] \in Nodes
      BY <2>4, <3>1
    <3>4. Way(n, key) = 1 \/ Way(n, key) = -1
      BY DEF Way
    <3>5. \A c \in Nodes : c # NULL => h[c] = f[c]
      BY DEF Nodes
    <3> HIDE DEF h
    <3> QED BY <2>1, <3>1, <3>2, <3>3, <3>4, <3>5
  <2>6. h = [n \in Items |-> h[n]]
    OBVIOUS
  <2>7. IsBelow(h)
    <3> HIDE DEF h
    <3> QED BY <2>5, <2>6
  <2> HIDE DEF IsBelow, h
  <2> QED BY <2>7
<1>3. IsBelow(below)
  <2> HIDE DEF IsBelow
  <2> QED BY <1>2
<1>4. PlaceBelow(t, key) = below[t.root]
  BY DEF PlaceBelow
<1>5. \A n \in Items : below[n] = IF t.child[n][Way(n, key)] = NULL THEN n ELSE below[t.child[n][Way(n, key)]]
  <2> HIDE DEF below
  <2> QED BY <1>3
<1> HIDE DEF below, IsBelow
<1> DEFINE Good(n, p) == /\ p \in D[n] /\ t.child[p][Way(p, key)] = NULL
                         /\ \A m \in D[n] : p \in D[m] /\ m # p => p \in D[t.child[m][Way(m, key)]]
           S == {n \in Nodes : n # NULL => Good(n, below[n])}
<1>6. ASSUME NEW n \in M, t.child[n][-1] \in S, t.child[n][1] \in S PROVE n \in S
  <2> DEFINE s == Way(n, key)
             c == t.child[n][s]
             e == t.child[n][-s]
  <2>1. s \in Sides
    BY WayIsSide
  <2> HIDE DEF s
  <2>2. /\ n \in Items /\ n \in D[n] /\ n # NULL /\ c \in M \cup {NULL} /\ e \in M \cup {NULL}
        /\ D[n] = {n} \cup D[c] \cup D[e] /\ n \notin D[c] /\ n \notin D[e] /\ D[c] \cap D[e] = {}
    BY <2>1, Parts
  <2>20. D[NULL] = {}
    BY DEF Linked
  <2>3. (\A m \in D[c] : D[m] \subseteq D[c]) /\ (\A m \in D[e] : D[m] \subseteq D[e])
    <3> HIDE DEF c, e
    <3> QED BY <2>2, <2>20, Inside
  <2>4. n \in Nodes
    BY <2>2 DEF Nodes
  <2>5. CASE c = NULL
    <3>1. below[n] = n
      BY <1>5, <2>2, <2>5 DEF s
    <3>2. \A m \in D[n] : n \in D[m] => m = n
      <4> HIDE DEF c, e
      <4> QED BY <2>2, <2>3
    <3>3. Good(n, n)
      BY <2>2, <2>5, <3>2 DEF s
    <3> HIDE DEF Good
    <3> QED BY <2>4, <3>1, <3>3
  <2>6. CASE c # NULL
    <3> DEFINE p == below[c]
    <3>1. below[n] = p
      BY <1>5, <2>2, <2>6 DEF s
    <3>2. c \in S
      BY <1>6, <2>1 DEF Sides
    <3>3. Good(c, p)
      <4> HIDE DEF Good, c
      <4> QED BY <2>6, <3>2
    <3>4. ASSUME NEW m \in D[n], p \in D[m], m # p PROVE p \in D[t.child[m][Way(m, key)]]
      <4>1. CASE m = n
        BY <3>3, <4>1 DEF s
      <4>2. CASE m \in D[c]
        BY <3>3, <3>4, <4>2
      <4>3. CASE m \in D[e]
        <5> HIDE DEF c, e, p
        <5>1. p \in D[c]
          BY <3>3
        <5> QED BY <2>2, <2>3, <3>4, <4>3, <5>1
      <4> HIDE DEF c, e, p
      <4> QED BY <2>2, <4>1, <4>2, <4>3
    <3>5. Good(n, p)
      <4> HIDE DEF c, e, p
      <4> QED BY <2>2, <3>3, <3>4
    <3> HIDE DEF Good, p
    <3> QED BY <2>4, <3>1, <3>5
  <2> QED BY <2>5, <2>6
<1>7. NULL \in S
  BY DEF Nodes
<1> HIDE DEF S
<1>8. M \subseteq S
  BY <1>6, <1>7, TreeInduction
<1>9. t.root \in M /\ D[t.root] = M /\ D[t.root] \subseteq M
  BY DEF Linked
<1>10. Good(t.root, below[t.root])
  BY <1>8, <1>9 DEF S
<1> QED BY <1>4, <1>9, <1>10 DEF Place

-----------------------------------------------------------------------------
(* Insertion                                                               *)

\* The item is hung below p on side r.
Hung(t, v, item, p, r) ==
    /\ v \in Shapes /\ v.root = t.root /\ v.numElements = t.numElements + 1
    /\ v.parent = [t.parent EXCEPT ![item] = p]
    /\ v.balance = [t.balance EXCEPT ![item] = 0, ![p] = t.balance[p] + r]
    /\ \A n \in Items, q \in Sides :
          v.child[n][q] = IF n = item THEN NULL ELSE IF n = p /\ q = r THEN item ELSE t.child[n][q]

HungBelow(D, item, p) ==
    [n \in Nodes |-> IF n = item THEN {item} ELSE IF p \in D[n] THEN D[n] \cup {item} ELSE D[n]]

\* The setting of the next lemmas.
Hangable(t, D, M, item, p, r) ==
    /\ Linked(t, D, M) /\ item \in Items \ M /\ Place(t, D, M, item.key, p) /\ r = Way(p, item.key)

LEMMA HangFacts ==
    ASSUME NEW t, NEW D, NEW M, NEW item, NEW p, NEW r, Hangable(t, D, M, item, p, r)
    PROVE  /\ t \in Shapes /\ M \subseteq Items /\ item \in Items /\ item \notin M /\ item # NULL
           /\ p \in M /\ p # item /\ r \in Sides /\ t.child[p][r] = NULL /\ -r \in Sides /\ r # -r
           /\ D \in [Nodes -> SUBSET Items] /\ D[NULL] = {}
           /\ \A n \in M : p \in D[n] /\ n # p => p \in D[t.child[n][Way(n, item.key)]]
           /\ \A n \in M, s \in Sides :
                 /\ n \in D[n] /\ D[n] \subseteq M /\ n # NULL /\ n # item
                 /\ D[n] = {n} \cup D[t.child[n][s]] \cup D[t.child[n][-s]]
                 /\ n \notin D[t.child[n][s]]
                 /\ D[t.child[n][s]] \cap D[t.child[n][-s]] = {}
                 /\ t.child[n][s] \in M \cup {NULL} /\ -s \in Sides
                 /\ t.child[n][s] # NULL => t.parent[t.child[n][s]] = n
           /\ \A n \in M \cup {NULL} : item \notin D[n]
<1>1. /\ t \in Shapes /\ M \subseteq Items /\ item \in Items /\ item \notin M /\ item # NULL
      /\ D \in [Nodes -> SUBSET Items] /\ D[NULL] = {}
  BY TreeAssumption DEF Hangable, Linked
<1>2. p \in M /\ p # item /\ t.child[p][r] = NULL
      /\ \A n \in M : p \in D[n] /\ n # p => p \in D[t.child[n][Way(n, item.key)]]
  BY <1>1 DEF Hangable, Place
<1>3. r \in Sides /\ -r \in Sides /\ r # -r
  BY WayIsSide DEF Hangable, Sides
<1>4. ASSUME NEW n \in M, NEW s \in Sides
      PROVE  /\ n \in D[n] /\ D[n] \subseteq M /\ n # NULL /\ n # item
             /\ D[n] = {n} \cup D[t.child[n][s]] \cup D[t.child[n][-s]]
             /\ n \notin D[t.child[n][s]]
             /\ D[t.child[n][s]] \cap D[t.child[n][-s]] = {}
             /\ t.child[n][s] \in M \cup {NULL} /\ -s \in Sides
             /\ t.child[n][s] # NULL => t.parent[t.child[n][s]] = n
  <2>1. Linked(t, D, M)
    BY DEF Hangable
  <2>2. -s \in Sides
    BY DEF Sides
  <2> QED BY <1>1, <2>1, <2>2, Parts
<1>5. \A n \in M \cup {NULL} : item \notin D[n]
  BY <1>1, <1>3, <1>4
<1> HIDE DEF Hangable
<1> QED BY <1>1, <1>2, <1>3, <1>4, <1>5

\* The nodes below each node afterwards.
HungShape(t, D, M, item, p, r, v, E) ==
           /\ E \in [Nodes -> SUBSET Items] /\ E[NULL] = {} /\ E[item] = {item}
           /\ \A n \in M \cup {NULL} : E[n] = IF p \in D[n] THEN D[n] \cup {item} ELSE D[n]
           /\ \A n \in M, s \in Sides :
                 /\ v.child[n][s] = IF n = p /\ s = r THEN item ELSE t.child[n][s]
                 /\ E[v.child[n][s]] = IF n = p /\ s = r THEN {item}
                                       ELSE IF p \in D[t.child[n][s]] THEN D[t.child[n][s]] \cup {item}
                                       ELSE D[t.child[n][s]]
           /\ \A s \in Sides : v.child[item][s] = NULL

LEMMA HungBelowFacts ==
    ASSUME NEW t, NEW D, NEW M, NEW item, NEW p, NEW r, Hangable(t, D, M, item, p, r),
           NEW v, Hung(t, v, item, p, r)
    PROVE  HungShape(t, D, M, item, p, r, v, HungBelow(D, item, p))
<1> DEFINE E == HungBelow(D, item, p)
<1>1. /\ t \in Shapes /\ M \subseteq Items /\ item \in Items /\ item \notin M /\ item # NULL
      /\ p \in M /\ p # item /\ r \in Sides /\ t.child[p][r] = NULL
      /\ D \in [Nodes -> SUBSET Items] /\ D[NULL] = {}
      /\ \A n \in M, s \in Sides : t.child[n][s] \in M \cup {NULL}
  BY HangFacts
<1>2. /\ E \in [Nodes -> SUBSET Items] /\ E[NULL] = {} /\ E[item] = {item}
      /\ \A n \in M \cup {NULL} : E[n] = IF p \in D[n] THEN D[n] \cup {item} ELSE D[n]
  <2>1. M \subseteq Nodes /\ NULL \in Nodes /\ item \in Nodes
    BY <1>1 DEF Nodes
  <2>2. \A n \in Nodes : (IF n = item THEN {item} ELSE IF p \in D[n] THEN D[n] \cup {item} ELSE D[n]) \in SUBSET Items
    BY <1>1
  <2> QED BY <1>1, <2>1, <2>2 DEF HungBelow
<1>3. \A n \in M, s \in Sides : v.child[n][s] = IF n = p /\ s = r THEN item ELSE t.child[n][s]
  BY <1>1 DEF Hung
<1>4. \A s \in Sides : v.child[item][s] = NULL
  BY <1>1 DEF Hung
<1> HIDE DEF E
<1>5. ASSUME NEW n \in M, NEW s \in Sides
      PROVE  E[v.child[n][s]] = IF n = p /\ s = r THEN {item}
                                ELSE IF p \in D[t.child[n][s]] THEN D[t.child[n][s]] \cup {item}
                                ELSE D[t.child[n][s]]
  <2>1. CASE n = p /\ s = r
    <3>1. v.child[n][s] = item
      BY <1>3, <2>1
    <3> QED BY <1>2, <2>1, <3>1
  <2>2. CASE ~(n = p /\ s = r)
    <3> DEFINE k == t.child[n][s]
    <3>1. v.child[n][s] = k /\ k \in M \cup {NULL}
      BY <1>1, <1>3, <2>2
    <3> HIDE DEF k
    <3>2. E[v.child[n][s]] = IF p \in D[k] THEN D[k] \cup {item} ELSE D[k]
      BY <1>2, <3>1
    <3> QED BY <2>2, <3>2 DEF k
  <2> QED BY <2>1, <2>2
<1>6. HungShape(t, D, M, item, p, r, v, E)
  BY SMTT(30), <1>2, <1>3, <1>4, <1>5 DEF HungShape
<1> QED BY <1>6 DEF E

LEMMA HungLinked ==
    ASSUME NEW t, NEW D, NEW M, NEW item, NEW p, NEW r, Hangable(t, D, M, item, p, r),
           NEW v, Hung(t, v, item, p, r)
    PROVE  Linked(v, HungBelow(D, item, p), M \cup {item})
<1> DEFINE E == HungBelow(D, item, p)
           N == M \cup {item}
<1>1. /\ t \in Shapes /\ M \subseteq Items /\ item \in Items /\ item \notin M /\ item # NULL
      /\ p \in M /\ p # item /\ r \in Sides /\ t.child[p][r] = NULL /\ -r \in Sides /\ r # -r
      /\ D \in [Nodes -> SUBSET Items] /\ D[NULL] = {}
      /\ \A n \in M : p \in D[n] /\ n # p => p \in D[t.child[n][Way(n, item.key)]]
      /\ \A n \in M \cup {NULL} : item \notin D[n]
  BY HangFacts
<1>2. \A n \in M, s \in Sides :
         /\ n \in D[n] /\ D[n] \subseteq M /\ n # NULL /\ n # item
         /\ D[n] = {n} \cup D[t.child[n][s]] \cup D[t.child[n][-s]]
         /\ n \notin D[t.child[n][s]]
         /\ D[t.child[n][s]] \cap D[t.child[n][-s]] = {}
         /\ t.child[n][s] \in M \cup {NULL} /\ -s \in Sides
         /\ t.child[n][s] # NULL => t.parent[t.child[n][s]] = n
  BY HangFacts
<1>3. /\ E \in [Nodes -> SUBSET Items] /\ E[NULL] = {} /\ E[item] = {item}
      /\ \A n \in M \cup {NULL} : E[n] = IF p \in D[n] THEN D[n] \cup {item} ELSE D[n]
      /\ \A s \in Sides : v.child[item][s] = NULL
  <2> HIDE DEF E
  <2>1. HungShape(t, D, M, item, p, r, v, E)
    BY HungBelowFacts DEF E
  <2> QED BY <2>1 DEF HungShape
<1>4. \A n \in M, s \in Sides :
         /\ v.child[n][s] = IF n = p /\ s = r THEN item ELSE t.child[n][s]
         /\ E[v.child[n][s]] = IF n = p /\ s = r THEN {item}
                               ELSE IF p \in D[t.child[n][s]] THEN D[t.child[n][s]] \cup {item}
                               ELSE D[t.child[n][s]]
  <2> HIDE DEF E
  <2>1. HungShape(t, D, M, item, p, r, v, E)
    BY HungBelowFacts DEF E
  <2> QED BY <2>1 DEF HungShape
<1> HIDE DEF E
<1>5. /\ v \in Shapes /\ v.root = t.root /\ v.parent[item] = p
      /\ \A n \in M : v.parent[n] = t.parent[n]
  <2>1. v \in Shapes /\ v.root = t.root /\ v.parent = [t.parent EXCEPT ![item] = p]
    BY DEF Hung
  <2>2. t.parent \in [Items -> Nodes]
    BY <1>1 DEF Shapes
  <2> QED BY <1>1, <2>1, <2>2
<1>6. /\ t.root \in M /\ t.parent[t.root] = NULL /\ D[t.root] = M
      /\ \A n \in M : n # t.root => t.parent[n] \in M /\ \E s \in Sides : t.child[t.parent[n]][s] = n
  <2>1. t.root # NULL
    BY <1>1 DEF Hangable, Linked
  <2> QED BY <2>1 DEF Hangable, Linked
<1>7. E[v.root] = N /\ v.root # NULL /\ v.root \in N /\ v.parent[v.root] = NULL
  <2>1. p \in D[t.root] /\ t.root # NULL
    BY <1>1, <1>2, <1>6
  <2>2. E[t.root] = D[t.root] \cup {item}
    BY <1>3, <1>6, <2>1
  <2> QED BY <1>5, <1>6, <2>1, <2>2
<1>8. ASSUME NEW n \in N, NEW s \in Sides
      PROVE  /\ E[n] \subseteq N
             /\ E[n] = {n} \cup E[v.child[n][s]] \cup E[v.child[n][-s]]
             /\ n \notin E[v.child[n][s]]
             /\ E[v.child[n][s]] \cap E[v.child[n][-s]] = {}
             /\ v.child[n][s] # NULL => v.child[n][s] \in N /\ v.parent[v.child[n][s]] = n
  <2>0. -s \in Sides /\ s # -s /\ -(-s) = s /\ (s = r \/ s = -r)
    BY <1>1 DEF Sides
  <2>1. CASE n = item
    BY <1>1, <1>3, <2>0, <2>1
  <2>2. CASE n \in M /\ n # p
    <3>1. v.child[n][s] = t.child[n][s] /\ v.child[n][-s] = t.child[n][-s]
      BY <1>4, <2>0, <2>2
    <3> DEFINE c == t.child[n][s]
               e == t.child[n][-s]
    <3>2. /\ E[n] = IF p \in D[n] THEN D[n] \cup {item} ELSE D[n]
          /\ E[c] = IF p \in D[c] THEN D[c] \cup {item} ELSE D[c]
          /\ E[e] = IF p \in D[e] THEN D[e] \cup {item} ELSE D[e]
      <4>1. c \in M \cup {NULL} /\ e \in M \cup {NULL}
        BY <1>2, <2>0, <2>2
      <4> QED BY <1>3, <2>2, <4>1
    <3>3. /\ D[n] = {n} \cup D[c] \cup D[e] /\ n \notin D[c] /\ D[c] \cap D[e] = {}
          /\ D[n] \subseteq M /\ n # item /\ item \notin D[c] /\ item \notin D[e]
      <4>1. /\ D[n] = {n} \cup D[c] \cup D[e] /\ n \notin D[c] /\ D[c] \cap D[e] = {} /\ D[n] \subseteq M
        BY <1>2, <2>0, <2>2
      <4>2. item \notin M
        BY <1>1
      <4> QED BY <2>2, <4>1, <4>2
    <3>4. v.child[n][s] # NULL => v.child[n][s] \in N /\ v.parent[v.child[n][s]] = n
      BY <1>2, <1>5, <2>2, <3>1
    <3> HIDE DEF c, e
    <3>5. /\ E[n] \subseteq N /\ E[n] = {n} \cup E[c] \cup E[e] /\ n \notin E[c] /\ E[c] \cap E[e] = {}
      BY <2>2, <3>2, <3>3
    <3> QED BY <3>1, <3>4, <3>5 DEF c, e
  <2>3. CASE n = p
    <3> DEFINE e == t.child[p][-r]
    <3>1. /\ v.child[p][r] = item /\ v.child[p][-r] = e /\ e \in M \cup {NULL}
          /\ E[p] = D[p] \cup {item} /\ E[item] = {item} /\ E[e] = D[e]
      <4>1. p \in D[p] /\ e \in M \cup {NULL} /\ p \notin D[e]
        BY <1>1, <1>2
      <4> QED BY <1>1, <1>3, <1>4, <4>1
    <3>2. D[p] = {p} \cup D[e] /\ p \notin D[e] /\ D[p] \subseteq M /\ item \notin D[e]
          /\ (e # NULL => t.parent[e] = p)
      <4>1. -(-r) = r
        BY <1>1 DEF Sides
      <4> QED BY SMTT(30), <1>1, <1>2, <3>1, <4>1
    <3>3. e # NULL => v.parent[e] = p
      BY <1>5, <3>1, <3>2
    <3> HIDE DEF e
    <3>4. CASE s = r
      BY <1>1, <1>5, <2>3, <3>1, <3>2, <3>4
    <3>5. CASE s = -r
      <4>1. -s = r
        BY <1>1, <3>5 DEF Sides
      <4> QED BY <1>1, <1>5, <2>3, <3>1, <3>2, <3>3, <3>5, <4>1
    <3> QED BY <2>0, <3>4, <3>5
  <2> QED BY <2>1, <2>2, <2>3
<1>9. ASSUME NEW n \in N, n # v.root
      PROVE  v.parent[n] \in N /\ \E s \in Sides : v.child[v.parent[n]][s] = n
  <2>1. CASE n = item
    BY <1>1, <1>4, <1>5, <2>1
  <2>2. CASE n \in M
    <3>1. PICK s \in Sides : t.child[t.parent[n]][s] = n
      BY <1>5, <1>6, <1>9, <2>2
    <3>2. t.parent[n] \in M /\ n # NULL /\ v.parent[n] = t.parent[n]
      BY <1>1, <1>2, <1>5, <1>6, <1>9, <2>2
    <3>3. v.child[t.parent[n]][s] = n
      <4>1. ~(t.parent[n] = p /\ s = r)
        BY <1>1, <3>1, <3>2
      <4> QED BY <1>4, <3>1, <3>2, <4>1
    <3> QED BY <3>2, <3>3
  <2> QED BY <2>1, <2>2
<1>10. N \in SUBSET Items
  BY <1>1
<1> HIDE DEF N
<1> QED BY <1>3, <1>5, <1>7, <1>8, <1>9, <1>10 DEF Linked, N, E

\* The order is kept: a key that is there already goes to the left of its equals.
LEMMA HungOrdered ==
    ASSUME NEW t, NEW D, NEW M, NEW item, NEW p, NEW r, Hangable(t, D, M, item, p, r),
           NEW v, Hung(t, v, item, p, r), NEW d \in BOOLEAN, Ordered(t, D, M, d),
           d \/ \A m \in M : m.key # item.key
    PROVE  Ordered(v, HungBelow(D, item, p), M \cup {item}, d)
<1> DEFINE E == HungBelow(D, item, p)
<1>1. /\ M \subseteq Items /\ item \in Items /\ item \notin M
      /\ p \in M /\ p # item /\ r \in Sides
      /\ \A n \in M : p \in D[n] /\ n # p => p \in D[t.child[n][Way(n, item.key)]]
  BY HangFacts
<1>2. \A n \in M, s \in Sides :
         /\ D[n] = {n} \cup D[t.child[n][s]] \cup D[t.child[n][-s]]
         /\ n \notin D[t.child[n][s]]
         /\ D[t.child[n][s]] \cap D[t.child[n][-s]] = {}
  BY HangFacts
<1>3. E[NULL] = {} /\ \A s \in Sides : v.child[item][s] = NULL
  <2> HIDE DEF E
  <2>1. HungShape(t, D, M, item, p, r, v, E)
    BY HungBelowFacts DEF E
  <2> QED BY <2>1 DEF HungShape
<1>4. \A n \in M, s \in Sides :
         E[v.child[n][s]] = IF n = p /\ s = r THEN {item}
                            ELSE IF p \in D[t.child[n][s]] THEN D[t.child[n][s]] \cup {item}
                            ELSE D[t.child[n][s]]
  <2> HIDE DEF E
  <2>1. HungShape(t, D, M, item, p, r, v, E)
    BY HungBelowFacts DEF E
  <2> QED BY <2>1 DEF HungShape
<1>5. r = Way(p, item.key)
  BY DEF Hangable
<1> HIDE DEF E
<1>6. ASSUME NEW n \in M PROVE OnSide(d, Way(n, item.key), item, n)
  <2>1. n.key \in Int /\ item.key \in Int /\ (d \/ n.key # item.key)
    BY <1>1, TreeAssumption
  <2>2. CASE n.key < item.key
    <3>1. Way(n, item.key) = 1
      BY <2>1, <2>2 DEF Way, compare
    <3> QED BY <2>1, <2>2, <3>1 DEF OnSide, Before
  <2>3. CASE ~(n.key < item.key)
    <3>1. Way(n, item.key) = -1
      BY <2>1, <2>3 DEF Way, compare
    <3> QED BY <2>1, <2>3, <3>1 DEF OnSide, Before
  <2> QED BY <2>2, <2>3
<1>7. SUFFICES ASSUME NEW n \in M \cup {item}, NEW s \in Sides, NEW m \in E[v.child[n][s]]
               PROVE  OnSide(d, s, m, n)
  BY DEF Ordered, E
<1>8. n \in M
  BY <1>3, <1>7
<1>9. CASE m = item
  <2>1. s = Way(n, item.key)
    <3>1. CASE n = p /\ s = r
      BY <1>5, <3>1
    <3>2. CASE ~(n = p /\ s = r)
      <4>1. D[t.child[n][s]] \subseteq D[n] /\ item \notin D[n]
        <5>1. D[n] \subseteq M
          BY <1>8, HangFacts
        <5> QED BY <1>1, <1>2, <1>8, <5>1
      <4>2. p \in D[t.child[n][s]] /\ n # p /\ p \in D[n]
        <5>1. D[n] = {n} \cup D[t.child[n][s]] \cup D[t.child[n][-s]] /\ n \notin D[t.child[n][s]]
          BY <1>2, <1>8
        <5>2. E[v.child[n][s]] = IF p \in D[t.child[n][s]] THEN D[t.child[n][s]] \cup {item}
                                 ELSE D[t.child[n][s]]
          BY <1>4, <1>8, <3>2
        <5>3. p \in D[t.child[n][s]]
          BY <1>7, <1>9, <4>1, <5>2
        <5> QED BY <5>1, <5>3
      <4>3. p \in D[t.child[n][Way(n, item.key)]]
        BY <1>1, <1>8, <4>2
      <4>4. Way(n, item.key) = s \/ Way(n, item.key) = -s
        BY WayIsSide DEF Sides
      <4>5. p \notin D[t.child[n][-s]]
        BY <1>2, <1>8, <4>2
      <4> QED BY <4>3, <4>4, <4>5
    <3> QED BY <3>1, <3>2
  <2> QED BY <1>6, <1>8, <1>9, <2>1
<1>10. CASE m # item
  <2>1. m \in D[t.child[n][s]]
    <3>1. CASE n = p /\ s = r
      <4>1. E[v.child[n][s]] = {item}
        BY <1>4, <1>8, <3>1
      <4> QED BY <1>7, <1>10, <4>1
    <3>2. CASE ~(n = p /\ s = r)
      <4>1. E[v.child[n][s]] = IF p \in D[t.child[n][s]] THEN D[t.child[n][s]] \cup {item}
                               ELSE D[t.child[n][s]]
        BY <1>4, <1>8, <3>2
      <4> QED BY <1>7, <1>10, <4>1
    <3> QED BY <3>1, <3>2
  <2> QED BY <1>8, <2>1 DEF Ordered
<1> QED BY <1>9, <1>10

\* The parent has grown, unless the item has filled its other side.
LEMMA HungGrown ==
    ASSUME NEW t, NEW D, NEW M, NEW item, NEW p, NEW r, Hangable(t, D, M, item, p, r),
           NEW v, Hung(t, v, item, p, r), NEW H, NEW d, AVL(t, D, H, M, d, {}),
           d \/ \A m \in M : m.key # item.key
    PROVE  Grown(v, HungBelow(D, item, p), [H EXCEPT ![item] = 1], M \cup {item}, d, p)
<1> DEFINE E == HungBelow(D, item, p)
           G == [H EXCEPT ![item] = 1]
           N == M \cup {item}
           e == t.child[p][-r]
<1>1. /\ t \in Shapes /\ M \subseteq Items /\ item \in Items /\ item \notin M /\ item # NULL
      /\ p \in M /\ p # item /\ r \in Sides /\ t.child[p][r] = NULL /\ -r \in Sides /\ r # -r
  BY HangFacts
<1>2. \A n \in M, s \in Sides : t.child[n][s] \in M \cup {NULL}
  BY HangFacts
<1>3. /\ \A n \in M, s \in Sides : v.child[n][s] = IF n = p /\ s = r THEN item ELSE t.child[n][s]
      /\ \A s \in Sides : v.child[item][s] = NULL
  <2> HIDE DEF E
  <2>1. HungShape(t, D, M, item, p, r, v, E)
    BY HungBelowFacts DEF E
  <2> QED BY <2>1 DEF HungShape
<1>4. H \in [Nodes -> Nat] /\ H[NULL] = 0 /\ d \in BOOLEAN
  BY DEF AVL, Fits
<1>5. /\ G \in [Nodes -> Nat] /\ G[item] = 1
      /\ \A n \in M \cup {NULL} : G[n] = H[n]
  BY <1>1, <1>4 DEF Nodes
<1>6. /\ v.balance[item] = 0 /\ v.balance[p] = t.balance[p] + r
      /\ \A n \in M \ {p} : v.balance[n] = t.balance[n]
      /\ t.balance[p] \in Int
  BY <1>1 DEF Hung, Shapes
<1> HIDE DEF E, G
<1>7. \A n \in M : Tilts(t, H, n) /\ Level(t, H, n)
  BY DEF AVL, Fits
<1>8. \A n \in M \ {p}, s \in Sides : G[v.child[n][s]] = H[t.child[n][s]]
  BY <1>2, <1>3, <1>5
<1>9. ASSUME NEW n \in M \ {p} PROVE Tilts(v, G, n) /\ Level(v, G, n)
  <2>1. v.balance[n] = t.balance[n] /\ G[n] = H[n] /\ \A s \in Sides : G[v.child[n][s]] = H[t.child[n][s]]
    BY <1>5, <1>6, <1>8
  <2>2. Tilts(v, G, n)
    BY <1>7, <2>1 DEF Tilts, Sides
  <2>3. Level(v, G, n)
    BY <1>7, <2>1 DEF Level, Stands
  <2> QED BY <2>2, <2>3
<1>10. Tilts(v, G, item) /\ Level(v, G, item)
  <2>1. \A s \in Sides : G[v.child[item][s]] = 0
    BY <1>3, <1>4, <1>5
  <2>2. v.balance[item] = G[v.child[item][1]] - G[v.child[item][-1]]
    BY <1>6, <2>1 DEF Sides
  <2>3. \A s \in Sides : G[item] > G[v.child[item][s]] /\ G[item] = 1 + G[v.child[item][s]]
    BY <1>5, <2>1
  <2>4. 1 \in Sides
    BY DEF Sides
  <2> QED BY <1>6, <2>2, <2>3, <2>4 DEF Tilts, Level, Stands
<1>11. /\ t.balance[p] = Lean(r, 0, H[e]) /\ H[e] \in Nat /\ H[p] \in Nat /\ t.balance[p] \in {-1, 0, 1}
       /\ H[p] > H[e] /\ H[p] > 0 /\ (H[p] = 1 \/ H[p] = 1 + H[e])
  <2>1. /\ t.balance[p] = Lean(r, H[t.child[p][r]], H[t.child[p][-r]]) /\ H[t.child[p][-r]] \in Nat /\ H[p] \in Nat
        /\ Stands(t, H, p, H[p]) =>
              /\ H[p] > H[t.child[p][r]] /\ H[p] > H[t.child[p][-r]]
              /\ H[p] = 1 + H[t.child[p][r]] \/ H[p] = 1 + H[t.child[p][-r]]
    BY <1>1, NodeFacts
  <2>2. Level(t, H, p) /\ H[t.child[p][r]] = 0
    BY <1>1, <1>4, <1>7
  <2> QED BY <2>1, <2>2 DEF Level
<1>12. v.child[p][r] = item /\ v.child[p][-r] = e /\ G[item] = 1 /\ G[e] = H[e] /\ G[p] = H[p]
  <2>1. e \in M \cup {NULL}
    BY <1>1, <1>2
  <2> QED BY <1>1, <1>3, <1>5, <2>1
<1> HIDE DEF e
<1>13. v.balance[p] = Lean(r, 1, H[e]) /\ v.balance[p] \in -2..2
  <2>1. CASE r = 1
    BY <1>6, <1>11, <2>1 DEF Lean
  <2>2. CASE r = -1
    BY <1>6, <1>11, <2>2 DEF Lean
  <2> QED BY <1>1, <2>1, <2>2 DEF Sides
<1>14. v.balance[p] = 0 => H[e] = 1 /\ H[p] = 2
  <2>1. CASE r = 1
    BY <1>11, <1>13, <2>1 DEF Lean
  <2>2. CASE r = -1
    BY <1>11, <1>13, <2>2 DEF Lean
  <2> QED BY <1>1, <2>1, <2>2 DEF Sides
<1>15. v.balance[p] # 0 => H[e] = 0 /\ H[p] = 1 /\ v.balance[p] = r
  <2>1. CASE r = 1
    BY <1>11, <1>13, <2>1 DEF Lean
  <2>2. CASE r = -1
    BY <1>11, <1>13, <2>2 DEF Lean
  <2> QED BY <1>1, <2>1, <2>2 DEF Sides
<1>16. Tilts(v, G, p)
  <2>1. v.balance[p] = Lean(r, G[v.child[p][r]], G[v.child[p][-r]])
    BY <1>12, <1>13
  <2>2. v \in Shapes
    BY DEF Hung
  <2>3. p \in Items /\ v.child[p][r] \in Nodes /\ v.child[p][-r] \in Nodes
    BY <1>1, <2>2 DEF Shapes
  <2> QED BY <1>1, <1>5, <2>1, <2>2, <2>3, TiltsLean
<1>17. Fits(v, G, N, {p})
  <2>1. \A n \in N : Tilts(v, G, n)
    BY <1>9, <1>10, <1>16
  <2>2. \A n \in N \ {p} : Level(v, G, n)
    BY <1>9, <1>10
  <2> QED BY <1>4, <1>5, <2>1, <2>2 DEF Fits
<1>18. AVL(v, E, G, N, d, {p})
  <2>1. Linked(v, E, N)
    BY HungLinked DEF E
  <2>2. Ordered(v, E, N, d)
    BY <1>4, HungOrdered DEF AVL, E
  <2> HIDE DEF N
  <2> QED BY <1>4, <1>17, <2>1, <2>2 DEF AVL
<1>19. \A x : Stands(v, G, p, x) <=>
          /\ x > 1 /\ x > H[e]
          /\ x = 1 + 1 \/ x = 1 + H[e]
  <2>1. \A x : Stands(v, G, p, x) <=>
          /\ x > G[v.child[p][r]] /\ x > G[v.child[p][-r]]
          /\ x = 1 + G[v.child[p][r]] \/ x = 1 + G[v.child[p][-r]]
    <3>1. p \in N
      BY <1>1
    <3> HIDE DEF N
    <3> QED BY <1>1, <1>18, <3>1, NodeFacts
  <2> QED BY <1>12, <2>1
<1>20. v.balance[p] = 0 => Stands(v, G, p, G[p])
  BY <1>12, <1>14, <1>19
<1>21. v.balance[p] # 0 => Stands(v, G, p, 1 + G[p])
  BY <1>12, <1>15, <1>19
<1>22. v.balance[p] \notin {-2, 2}
  <2>1. CASE v.balance[p] = 0
    BY <2>1
  <2>2. CASE v.balance[p] # 0
    BY <1>1, <1>15, <2>2 DEF Sides
  <2> QED BY <2>1, <2>2
<1> QED BY <1>1, <1>13, <1>18, <1>20, <1>21, <1>22 DEF Grown, E, G, N

\* A tree of which the rest is as idle as before.
LEMMA RestIdle ==
    ASSUME NEW t, NEW u, NEW M, Rest(u, M) = Rest(t, M), Idle(t, M)
    PROVE  Idle(u, M) /\ u.numElements = t.numElements
<1>1. u.numElements = t.numElements
      /\ [n \in Items \ M |-> [s \in Sides |-> u.child[n][s]]] = [n \in Items \ M |-> [s \in Sides |-> t.child[n][s]]]
  BY DEF Rest
<1>2. ASSUME NEW n \in Items \ M, NEW s \in Sides PROVE u.child[n][s] = t.child[n][s]
  <2>1. [r \in Sides |-> u.child[n][r]] = [r \in Sides |-> t.child[n][r]]
    BY <1>1
  <2>2. [r \in Sides |-> u.child[n][r]][s] = [r \in Sides |-> t.child[n][r]][s]
    BY <2>1
  <2> QED BY <2>2
<1> QED BY <1>1, <1>2 DEF Idle

\* What holds of the tree between two operations.
Holds(t, M, d) ==
    /\ Idle(t, M) /\ t.numElements = Cardinality(M)
    /\ \E D, H : AVL(t, D, H, M, d, {})

LEMMA addNodeHolds ==
    ASSUME NEW t, NEW M, NEW d, Holds(t, M, d), NEW item \in Items \ M,
           d \/ \A m \in M : m.key # item.key
    PROVE  Holds(addNode(t, item), M \cup {item}, d)
<1> DEFINE u == [t EXCEPT !.child[item] = [s \in Sides |-> NULL], !.balance[item] = 0,
                          !.numElements = @ + 1]
           N == M \cup {item}
<1>1. PICK D, H : AVL(t, D, H, M, d, {})
  BY DEF Holds
<1>2. /\ t \in Shapes /\ Linked(t, D, M) /\ M \subseteq Items /\ item \in Items /\ item # NULL
      /\ d \in BOOLEAN
  BY <1>1, TreeAssumption DEF AVL, Linked
<1>3. DOMAIN t = {"child", "parent", "balance", "root", "numElements"}
  BY <1>2 DEF Shapes
<1>4. /\ u.child = [t.child EXCEPT ![item] = [s \in Sides |-> NULL]] /\ u.parent = t.parent
      /\ u.balance = [t.balance EXCEPT ![item] = 0] /\ u.root = t.root
      /\ u.numElements = t.numElements + 1
      /\ u = [child |-> u.child, parent |-> u.parent, balance |-> u.balance, root |-> u.root,
              numElements |-> u.numElements]
  <2>1. t = [child |-> t.child, parent |-> t.parent, balance |-> t.balance, root |-> t.root,
             numElements |-> t.numElements]
    BY <1>2 DEF Shapes
  <2> DEFINE c == [t.child EXCEPT ![item] = [s \in Sides |-> NULL]]
             b == [t.balance EXCEPT ![item] = 0]
  <2>2. u = [t EXCEPT !.child = c, !.balance = b, !.numElements = t.numElements + 1]
    BY <2>1
  <2>3. u = [child |-> c, parent |-> t.parent, balance |-> b, root |-> t.root,
             numElements |-> t.numElements + 1]
    <3> HIDE DEF c, b, u
    <3> QED BY <2>1, <2>2
  <2> HIDE DEF u
  <2> QED BY <2>3
<1>5. /\ t.child \in [Items -> [Sides -> Nodes]] /\ t.parent \in [Items -> Nodes]
      /\ t.balance \in [Items -> Int] /\ t.root \in Nodes /\ t.numElements \in Int
      /\ item \in Nodes /\ NULL \in Nodes
  BY <1>2 DEF Shapes, Nodes
<1>6. t.numElements = Cardinality(M) /\ t.numElements + 1 = Cardinality(N)
  <2>1. IsFiniteSet(M)
    BY <1>2, TreeAssumption, FS_Subset
  <2> QED BY <2>1, FS_AddElement DEF Holds
<1> HIDE DEF u
<1>7. CASE t.root = NULL
  <2> DEFINE w == [u EXCEPT !.root = item, !.parent[item] = NULL]
             E == [n \in Nodes |-> IF n = item THEN {item} ELSE {}]
             G == [n \in Nodes |-> IF n = item THEN 1 ELSE 0]
  <2>1. addNode(t, item) = w
    BY <1>7 DEF addNode, u
  <2>2. M = {}
    BY <1>2, <1>7 DEF Linked
  <2>3. /\ w.child = u.child /\ w.parent = [t.parent EXCEPT ![item] = NULL]
        /\ w.balance = u.balance /\ w.root = item /\ w.numElements = u.numElements
        /\ w = [child |-> w.child, parent |-> w.parent, balance |-> w.balance, root |-> w.root,
                numElements |-> w.numElements]
    <3> DEFINE q == [u.parent EXCEPT ![item] = NULL]
    <3>1. w = [u EXCEPT !.root = item, !.parent = q]
      BY <1>4
    <3>2. w = [child |-> u.child, parent |-> q, balance |-> u.balance, root |-> item,
               numElements |-> u.numElements]
      <4> HIDE DEF q, w
      <4> QED BY <1>4, <3>1
    <3> HIDE DEF w
    <3> QED BY <1>4, <3>2
  <2> HIDE DEF w
  <2>4. /\ w.child \in [Items -> [Sides -> Nodes]] /\ w.parent \in [Items -> Nodes]
        /\ w.balance \in [Items -> Int] /\ w.root \in Nodes /\ w.numElements \in Int
    <3>1. [s \in Sides |-> NULL] \in [Sides -> Nodes]
      BY <1>5
    <3> QED BY <1>2, <1>4, <1>5, <2>3, <3>1
  <2>5. w \in Shapes
    BY <2>3, <2>4 DEF Shapes
  <2>6. (\A s \in Sides : w.child[item][s] = NULL) /\ w.parent[item] = NULL /\ w.balance[item] = 0
    BY <1>2, <1>4, <1>5, <2>3
  <2>7. E \in [Nodes -> SUBSET Items] /\ E[item] = {item} /\ E[NULL] = {}
        /\ G \in [Nodes -> Nat] /\ G[item] = 1 /\ G[NULL] = 0
    BY <1>2, <1>5
  <2> HIDE DEF E, G
  <2>8. Linked(w, E, {item})
    <3>1. \A s \in Sides : -s \in Sides
      BY DEF Sides
    <3> QED BY <1>2, <2>3, <2>5, <2>6, <2>7, <3>1 DEF Linked
  <2>9. Ordered(w, E, {item}, d)
    BY <2>6, <2>7 DEF Ordered
  <2>10. Fits(w, G, {item}, {})
    <3>1. 1 \in Sides /\ -1 \in Sides
      BY DEF Sides
    <3>2. Tilts(w, G, item) /\ Level(w, G, item)
      BY <2>6, <2>7, <3>1 DEF Tilts, Level, Stands
    <3> QED BY <2>7, <3>2 DEF Fits
  <2>11. AVL(w, E, G, N, d, {})
    <3>1. N = {item}
      BY <2>2
    <3> HIDE DEF N
    <3> QED BY <1>2, <2>8, <2>9, <2>10, <3>1 DEF AVL
  <2>12. Idle(w, N)
    <3>1. \A n \in Items \ N, s \in Sides : w.child[n][s] = t.child[n][s] /\ n \in Items \ M
      BY <1>4, <1>5, <2>3
    <3> QED BY <3>1 DEF Idle, Holds
  <2> QED BY <1>4, <1>6, <2>1, <2>3, <2>11, <2>12 DEF Holds
<1>8. CASE t.root # NULL
  <2> DEFINE p == PlaceBelow(t, item.key)
             r == Way(p, item.key)
             v == [u EXCEPT !.parent[item] = p, !.child[p][r] = item, !.balance[p] = @ + r]
  <2>1. addNode(t, item) = IF v.balance[p] # 0 THEN upInsert(v, p) ELSE v
    BY <1>8 DEF addNode, u
  <2>2. Hangable(t, D, M, item, p, r)
    <3>1. Place(t, D, M, item.key, p)
      BY <1>2, <1>8, PlaceBelowRight DEF Holds
    <3> HIDE DEF p
    <3> QED BY <1>2, <3>1 DEF Hangable
  <2> HIDE DEF p, r
  <2>3. p \in M /\ p \in Items /\ p # item /\ r \in Sides /\ r \in Int
    BY <1>2, <2>2, HangFacts DEF Sides
  <2>4. /\ v.parent = [t.parent EXCEPT ![item] = p] /\ v.root = t.root /\ v.numElements = t.numElements + 1
        /\ v.child = [u.child EXCEPT ![p][r] = item]
        /\ v.balance = [u.balance EXCEPT ![p] = u.balance[p] + r]
        /\ v = [child |-> v.child, parent |-> v.parent, balance |-> v.balance, root |-> v.root,
                numElements |-> v.numElements]
    <3> DEFINE q == [u.parent EXCEPT ![item] = p]
               c == [u.child EXCEPT ![p][r] = item]
               b == [u.balance EXCEPT ![p] = u.balance[p] + r]
    <3>1. v = [u EXCEPT !.parent = q, !.child = c, !.balance = b]
      BY <1>4
    <3>2. v = [child |-> c, parent |-> q, balance |-> b, root |-> u.root,
               numElements |-> u.numElements]
      <4> HIDE DEF q, c, b, v
      <4> QED BY <1>4, <3>1
    <3> HIDE DEF v
    <3> QED BY <1>4, <3>2
  <2> HIDE DEF v
  <2>5. u.child[p] = t.child[p] /\ u.balance[p] = t.balance[p] /\ u.child \in [Items -> [Sides -> Nodes]]
    BY <1>2, <1>4, <1>5, <2>3
  <2>6. v.balance = [t.balance EXCEPT ![item] = 0, ![p] = t.balance[p] + r]
    BY <1>4, <2>4, <2>5
  <2>7. /\ v.child \in [Items -> [Sides -> Nodes]] /\ v.parent \in [Items -> Nodes]
        /\ v.balance \in [Items -> Int] /\ v.root \in Nodes /\ v.numElements \in Int
    <3>1. v.child \in [Items -> [Sides -> Nodes]]
      BY <1>5, <2>3, <2>4, <2>5
    <3>2. v.balance \in [Items -> Int]
      BY <1>5, <2>3, <2>6
    <3> QED BY <1>5, <2>3, <2>4, <3>1, <3>2 DEF Nodes
  <2>8. v \in Shapes
    BY <2>4, <2>7 DEF Shapes
  <2>9. ASSUME NEW n \in Items, NEW q \in Sides
        PROVE  v.child[n][q] = IF n = item THEN NULL ELSE IF n = p /\ q = r THEN item ELSE t.child[n][q]
    <3>1. u.child[n] = IF n = item THEN [s \in Sides |-> NULL] ELSE t.child[n]
      BY <1>4, <1>5
    <3>2. v.child[n] = IF n = p THEN [u.child[p] EXCEPT ![r] = item] ELSE u.child[n]
      BY <2>4, <2>5
    <3>3. u.child[p] \in [Sides -> Nodes]
      BY <2>3, <2>5
    <3>4. CASE n = item
      BY <2>3, <3>1, <3>2, <3>4
    <3>5. CASE n = p
      BY <2>3, <2>5, <3>2, <3>3, <3>5
    <3>6. CASE n # item /\ n # p
      BY <3>1, <3>2, <3>6
    <3> QED BY <3>4, <3>5, <3>6
  <2>10. Hung(t, v, item, p, r)
    BY <2>4, <2>6, <2>8, <2>9 DEF Hung
  <2>11. Grown(v, HungBelow(D, item, p), [H EXCEPT ![item] = 1], N, d, p)
    BY <1>1, <2>2, <2>10, HungGrown
  <2>12. Idle(v, N)
    <3>1. \A n \in Items \ N, s \in Sides : v.child[n][s] = t.child[n][s] /\ n \in Items \ M
      BY <2>3, <2>9
    <3> QED BY <3>1 DEF Idle, Holds
  <2>13. CASE v.balance[p] # 0
    <3>1. /\ Rest(upInsert(v, p), N) = Rest(v, N)
          /\ \E E, G : AVL(upInsert(v, p), E, G, N, d, {})
      <4> HIDE DEF N
      <4> QED BY <2>11, upInsertRestores
    <3> HIDE DEF N
    <3>2. Idle(upInsert(v, p), N) /\ upInsert(v, p).numElements = v.numElements
      BY <2>12, <3>1, RestIdle
    <3> QED BY SMTT(30), <1>6, <2>1, <2>4, <2>13, <3>1, <3>2 DEF Holds, N
  <2>14. CASE v.balance[p] = 0
    <3> HIDE DEF N
    <3>1. AVL(v, HungBelow(D, item, p), [H EXCEPT ![item] = 1], N, d, {})
      BY <2>11, <2>14, SameHeight DEF Grown
    <3>2. addNode(t, item) = v
      BY <2>1, <2>14
    <3>3. Holds(v, N, d)
      BY <1>6, <2>4, <2>12, <3>1 DEF Holds
    <3> QED BY <3>2, <3>3 DEF N
  <2> QED BY <2>13, <2>14
<1> QED BY <1>7, <1>8

-----------------------------------------------------------------------------
(* Search                                                                  *)

\* A search ends at a node with the key, or there is none.
Finds(D, n, key, f) == IF f = NULL THEN \A m \in D[n] : m.key # key ELSE f \in D[n] /\ f.key = key

LEMMA findNodeFinds ==
    ASSUME NEW t, NEW D, NEW M, Linked(t, D, M), Idle(t, M), NEW d \in BOOLEAN, Ordered(t, D, M, d),
           NEW key \in Int
    PROVE  IF findNode(t, key) = NULL THEN \A m \in M : m.key # key
           ELSE findNode(t, key) \in M /\ findNode(t, key).key = key
<1> DEFINE IsCur(f) == f = [n \in Nodes |-> IF n = NULL \/ compare(n, key) = 0 THEN n
                                            ELSE f[t.child[n][compare(n, key)]]]
           cur == CHOOSE f : IsCur(f)
<1>1. PICK R : Ranked(t.child, R)
  BY TreeRanked
<1>2. NULL \in Nodes /\ NULL \notin Items
  BY TreeAssumption DEF Nodes
<1>3. \E f : IsCur(f)
  <2> DEFINE g == [q \in Items \X Nodes \X Nodes |->
                     IF compare(q[1], key) = 0 THEN q[1]
                     ELSE IF compare(q[1], key) = 1 THEN q[3] ELSE q[2]]
  <2>1. \A n \in Items, x, y \in Nodes :
           g[<<n, x, y>>] = IF compare(n, key) = 0 THEN n ELSE IF compare(n, key) = 1 THEN y ELSE x
    OBVIOUS
  <2>2. Combines(g, Nodes)
    <3> HIDE DEF g
    <3> SUFFICES ASSUME NEW n \in Items, NEW x \in Nodes, NEW y \in Nodes
                 PROVE  g[<<n, x, y>>] \in Nodes
      BY DEF Combines
    <3> QED BY <2>1 DEF Nodes
  <2> HIDE DEF g
  <2>3. PICK f : Unfolds(f, t.child, Nodes, NULL, g)
    BY <1>1, <1>2, <2>2, TreeFunction
  <2>4. /\ f \in [Nodes -> Nodes]
        /\ f[NULL] = NULL /\ \A n \in Items : f[n] = g[<<n, f[t.child[n][-1]], f[t.child[n][1]]>>]
    BY <2>3 DEF Unfolds
  <2>5. ASSUME NEW n \in Items
        PROVE  f[n] = IF compare(n, key) = 0 THEN n ELSE f[t.child[n][compare(n, key)]]
    <3>1. t.child[n][-1] \in Nodes /\ t.child[n][1] \in Nodes
      BY <1>1 DEF Ranked, Sides
    <3>2. f[n] = g[<<n, f[t.child[n][-1]], f[t.child[n][1]]>>]
      BY <2>4
    <3>3. f[t.child[n][-1]] \in Nodes /\ f[t.child[n][1]] \in Nodes
      BY <2>4, <3>1
    <3>4. compare(n, key) \in {-1, 0, 1}
      BY DEF compare
    <3>5. g[<<n, f[t.child[n][-1]], f[t.child[n][1]]>>] =
             IF compare(n, key) = 0 THEN n ELSE IF compare(n, key) = 1 THEN f[t.child[n][1]] ELSE f[t.child[n][-1]]
      BY <2>1, <3>3
    <3> QED BY <3>2, <3>4, <3>5
  <2>6. f = [n \in Nodes |-> f[n]]
    BY <2>4
  <2>7. \A n \in Nodes : f[n] = IF n = NULL \/ compare(n, key) = 0 THEN n ELSE f[t.child[n][compare(n, key)]]
    BY <1>2, <2>4, <2>5 DEF Nodes
  <2>8. IsCur(f)
    BY <2>6, <2>7
  <2> HIDE DEF IsCur
  <2> QED BY <2>8
<1>4. IsCur(cur)
  <2> HIDE DEF IsCur
  <2> QED BY <1>3
<1>5. findNode(t, key) = cur[t.root]
  BY DEF findNode
<1>6. \A n \in Nodes : cur[n] = IF n = NULL \/ compare(n, key) = 0 THEN n ELSE cur[t.child[n][compare(n, key)]]
  <2> HIDE DEF cur
  <2> QED BY <1>4
<1> HIDE DEF cur, IsCur
<1> DEFINE S == {n \in Nodes : Finds(D, n, key, cur[n])}
<1>7. NULL \in S
  <2>1. cur[NULL] = NULL /\ D[NULL] = {}
    BY <1>2, <1>6 DEF Linked
  <2> QED BY <1>2, <2>1 DEF Finds
<1>8. ASSUME NEW n \in M, t.child[n][-1] \in S, t.child[n][1] \in S PROVE n \in S
  <2> DEFINE l == t.child[n][-1]
             h == t.child[n][1]
  <2>0. -1 \in Sides /\ 1 \in Sides
    BY DEF Sides
  <2>1. /\ n \in Items /\ n \in D[n] /\ n # NULL /\ D[n] = {n} \cup D[l] \cup D[h] /\ D[n] \subseteq M
    BY Parts, -1 \in Sides DEF Sides
  <2>2. n \in Nodes /\ n.key \in Int /\ M \subseteq Items
    BY <2>1, TreeAssumption DEF Nodes, Linked
  <2>3. (\A m \in D[l] : OnSide(d, -1, m, n)) /\ (\A m \in D[h] : OnSide(d, 1, m, n))
    BY <2>0 DEF Ordered
  <2>30. \A m \in D[n] : m.key \in Int
    BY <2>1, <2>2, TreeAssumption
  <2>4. Finds(D, l, key, cur[l]) /\ Finds(D, h, key, cur[h])
    BY <1>8
  <2> HIDE DEF l, h
  <2>40. (\A m \in D[l] : m.key <= n.key) /\ (\A m \in D[h] : n.key <= m.key)
    BY <2>1, <2>2, <2>3, <2>30 DEF OnSide, Before
  <2>5. CASE n.key = key
    <3>1. compare(n, key) = 0
      BY <2>2, <2>5 DEF compare
    <3>2. cur[n] = n
      BY <1>6, <2>2, <3>1
    <3>3. Finds(D, n, key, n)
      BY <2>1, <2>5 DEF Finds
    <3> QED BY <2>2, <3>2, <3>3
  <2>6. CASE n.key < key
    <3>1. compare(n, key) = 1
      BY <2>2, <2>6 DEF compare
    <3>2. cur[n] = cur[h]
      BY <1>6, <2>1, <2>2, <3>1 DEF h
    <3>3. \A m \in D[l] : m.key # key
      BY <2>1, <2>2, <2>6, <2>30, <2>40
    <3>4. Finds(D, n, key, cur[h])
      BY <2>1, <2>2, <2>4, <2>6, <3>3 DEF Finds
    <3> QED BY <2>2, <3>2, <3>4
  <2>7. CASE n.key > key
    <3>1. compare(n, key) = -1
      BY <2>2, <2>7 DEF compare
    <3>2. cur[n] = cur[l]
      BY <1>6, <2>1, <2>2, <3>1 DEF l
    <3>3. \A m \in D[h] : m.key # key
      BY <2>1, <2>2, <2>7, <2>30, <2>40
    <3>4. Finds(D, n, key, cur[l])
      BY <2>1, <2>2, <2>4, <2>7, <3>3 DEF Finds
    <3> QED BY <2>2, <3>2, <3>4
  <2> QED BY <2>2, <2>5, <2>6, <2>7
<1> HIDE DEF S
<1>9. M \subseteq S
  BY <1>7, <1>8, TreeInduction
<1>10. t.root \in M \cup {NULL} /\ D[t.root] = M
  BY DEF Linked
<1>11. Finds(D, t.root, key, cur[t.root])
  BY <1>7, <1>9, <1>10 DEF S
<1> QED BY <1>5, <1>10, <1>11 DEF Finds

-----------------------------------------------------------------------------
(* The outermost node of a subtree                                         *)

\* What the first node of the way down adds to it.
LEMMA LastOfLonger ==
    ASSUME NEW V, NEW n, NEW q \in Seq(V), q # << >>
    PROVE  Last(<< n >> \o q) = Last(q)
BY DEF Last

\* The outermost node on side s has no child there, and all others lie on its
\* other side.
Outer(t, D, n, s, d, o) ==
    /\ o \in D[n] /\ t.child[o][s] = NULL
    /\ \A m \in D[n] \ {o} : OnSide(d, -s, m, o)

LEMMA OutermostOuter ==
    ASSUME NEW t, NEW D, NEW M, Linked(t, D, M), Idle(t, M), NEW d \in BOOLEAN, Ordered(t, D, M, d),
           NEW n \in M, NEW s \in Sides
    PROVE  Outer(t, D, n, s, d, Outermost(t, n, s))
<1> DEFINE IsDown(f) == f = [m \in Nodes |-> IF m = NULL THEN << >> ELSE << m >> \o f[t.child[m][s]]]
           down == CHOOSE f : IsDown(f)
<1>1. PICK R : Ranked(t.child, R)
  BY TreeRanked
<1>2. NULL \in Nodes /\ NULL \notin Items /\ -s \in Sides /\ -(-s) = s
  BY TreeAssumption DEF Nodes, Sides
<1>3. \E f \in [Nodes -> Seq(Nodes)] : IsDown(f)
  <2> DEFINE g == [q \in Items \X Seq(Nodes) \X Seq(Nodes) |-> << q[1] >> \o (IF s = 1 THEN q[3] ELSE q[2])]
  <2>1. \A m \in Items, x, y \in Seq(Nodes) : g[<<m, x, y>>] = << m >> \o (IF s = 1 THEN y ELSE x)
    OBVIOUS
  <2>2. Combines(g, Seq(Nodes))
    <3> HIDE DEF g
    <3>1. ASSUME NEW m \in Items, NEW x \in Seq(Nodes), NEW y \in Seq(Nodes) PROVE g[<<m, x, y>>] \in Seq(Nodes)
      <4>1. << m >> \in Seq(Nodes)
        BY DEF Nodes
      <4>2. << m >> \o x \in Seq(Nodes) /\ << m >> \o y \in Seq(Nodes)
        BY <4>1
      <4> QED BY <2>1, <4>2
    <3> QED BY <3>1 DEF Combines
  <2> HIDE DEF g
  <2>3. PICK f : Unfolds(f, t.child, Seq(Nodes), << >>, g)
    <3>1. << >> \in Seq(Nodes)
      OBVIOUS
    <3> QED BY <1>1, <1>2, <2>2, <3>1, TreeFunction
  <2>4. /\ f \in [Nodes -> Seq(Nodes)]
        /\ f[NULL] = << >> /\ \A m \in Items : f[m] = g[<<m, f[t.child[m][-1]], f[t.child[m][1]]>>]
    BY <2>3 DEF Unfolds
  <2>5. ASSUME NEW m \in Items PROVE f[m] = << m >> \o f[t.child[m][s]]
    <3>1. t.child[m][-1] \in Nodes /\ t.child[m][1] \in Nodes
      BY <1>1 DEF Ranked, Sides
    <3>2. f[t.child[m][-1]] \in Seq(Nodes) /\ f[t.child[m][1]] \in Seq(Nodes)
      BY <2>4, <3>1
    <3>3. f[m] = << m >> \o (IF s = 1 THEN f[t.child[m][1]] ELSE f[t.child[m][-1]])
      BY <2>1, <2>4, <3>2
    <3> QED BY <3>3 DEF Sides
  <2>6. f = [m \in Nodes |-> f[m]]
    BY <2>4
  <2>7. \A m \in Nodes : f[m] = IF m = NULL THEN << >> ELSE << m >> \o f[t.child[m][s]]
    BY <2>4, <2>5 DEF Nodes
  <2>8. IsDown(f)
    BY <2>6, <2>7
  <2> HIDE DEF IsDown
  <2> QED BY <2>4, <2>8
<1>4. IsDown(down)
  <2> HIDE DEF IsDown
  <2> QED BY <1>3
<1>5. \A k : Spine(t, k, s) = down[k]
  BY DEF Spine
<1>6. \A m \in Nodes : down[m] = IF m = NULL THEN << >> ELSE << m >> \o down[t.child[m][s]]
  <2> HIDE DEF down
  <2> QED BY <1>4
<1> HIDE DEF down, IsDown
<1> DEFINE S == {m \in Nodes : /\ down[m] \in Seq(Nodes)
                               /\ m # NULL => down[m] # << >> /\ Outer(t, D, m, s, d, Last(down[m]))}
<1>7. NULL \in S
  <2>1. down[NULL] = << >>
    BY <1>2, <1>6
  <2>2. << >> \in Seq(Nodes)
    OBVIOUS
  <2>3. down[NULL] \in Seq(Nodes)
    BY <2>1, <2>2
  <2> QED BY <1>2, <2>3
<1>8. ASSUME NEW k \in M, t.child[k][-1] \in S, t.child[k][1] \in S PROVE k \in S
  <2> DEFINE c == t.child[k][s]
             e == t.child[k][-s]
  <2>1. /\ k \in Items /\ k \in D[k] /\ k # NULL /\ D[k] = {k} \cup D[c] \cup D[e] /\ D[k] \subseteq M
        /\ k \notin D[c]
    BY Parts
  <2>2. k \in Nodes /\ M \subseteq Items
    BY <2>1 DEF Nodes, Linked
  <2>3. (\A m \in D[c] : OnSide(d, s, m, k)) /\ (\A m \in D[e] : OnSide(d, -s, m, k))
    BY <1>2 DEF Ordered
  <2>4. c \in S
    BY <1>8 DEF Sides
  <2>5. down[k] = << k >> \o down[c]
    BY <1>6, <2>1, <2>2
  <2>6. D[NULL] = {}
    BY DEF Linked
  <2>7. down[c] \in Seq(Nodes) /\ (c # NULL => down[c] # << >> /\ Outer(t, D, c, s, d, Last(down[c])))
    <3> HIDE DEF c
    <3> QED BY <2>4
  <2>8. << k >> \in Seq(Nodes)
    BY <2>2
  <2>80. /\ down[k] \in Seq(Nodes) /\ down[k] # << >>
    <3> HIDE DEF c
    <3> QED BY <2>5, <2>7, <2>8
  <2>9. CASE c = NULL
    <3>1. down[c] = << >>
      BY <1>2, <1>6, <2>9
    <3>2. down[k] = << k >>
      <4> HIDE DEF c
      <4> QED BY <2>5, <2>8, <3>1
    <3>3. Last(down[k]) = k
      BY <3>2 DEF Last
    <3>4. Outer(t, D, k, s, d, k)
      <4> HIDE DEF e
      <4> QED BY <2>1, <2>3, <2>6, <2>9 DEF Outer
    <3> QED BY <2>2, <2>80, <3>3, <3>4
  <2>10. CASE c # NULL
    <3> DEFINE o == Last(down[c])
    <3>1. Last(down[k]) = o
      <4> HIDE DEF c
      <4> QED BY <2>5, <2>7, <2>10, LastOfLonger
    <3>2. Outer(t, D, c, s, d, o)
      BY <2>7, <2>10
    <3> HIDE DEF o, c, e
    <3>3. o \in D[c] /\ t.child[o][s] = NULL /\ \A m \in D[c] \ {o} : OnSide(d, -s, m, o)
      BY <3>2 DEF Outer
    <3>4. o \in Items /\ D[k] \subseteq Items
      BY <2>1, <2>2, <3>3
    <3>5. OnSide(d, -s, k, o)
      BY <1>2, <2>1, <2>3, <3>3, <3>4, OnSideTurned
    <3>6. ASSUME NEW m \in D[e] PROVE OnSide(d, -s, m, o)
      <4>1. m \in Items /\ OnSide(d, -s, m, k)
        BY <2>1, <2>3, <3>4
      <4> QED BY <1>2, <2>1, <3>4, <3>5, <4>1, OnSideTransitive
    <3>7. Outer(t, D, k, s, d, o)
      BY <2>1, <3>3, <3>5, <3>6 DEF Outer
    <3> QED BY <2>2, <2>80, <3>1, <3>7
  <2> QED BY <2>9, <2>10
<1> HIDE DEF S
<1>9. n \in S
  <2>1. M \subseteq S
    BY <1>7, <1>8, TreeInduction
  <2> QED BY <2>1
<1>10. n # NULL
  BY <1>2 DEF Linked
<1> QED BY <1>5, <1>9, <1>10 DEF S, Outermost

-----------------------------------------------------------------------------
(* Two nodes that exchange their places                                    *)

Sigma(a, b, n) == IF n = a THEN b ELSE IF n = b THEN a ELSE n

\* A renaming of the nodes that turns back when it is done twice.
Renames(sig, M) ==
    /\ sig \in [Nodes -> Nodes] /\ sig[NULL] = NULL
    /\ \A n \in Nodes : sig[sig[n]] = n
    /\ \A n \in Items : sig[n] \in Items
    /\ \A n \in M : sig[n] \in M

LEMMA SigmaRenames ==
    ASSUME NEW M \in SUBSET Items, NEW a \in M, NEW b \in M
    PROVE  Renames([n \in Nodes |-> Sigma(a, b, n)], M)
<1>1. a \in Items /\ b \in Items /\ a # NULL /\ b # NULL
  BY TreeAssumption
<1> QED BY <1>1 DEF Renames, Sigma, Nodes

\* u is t with the nodes renamed.
Renamed(t, u, sig) ==
    /\ u \in Shapes /\ u.root = sig[t.root]
    /\ \A n \in Items : /\ u.parent[n] = sig[t.parent[sig[n]]] /\ u.balance[n] = t.balance[sig[n]]
                        /\ \A s \in Sides : u.child[n][s] = sig[t.child[sig[n]][s]]

RenamedBelow(D, sig) == [n \in Nodes |-> {m \in Items : sig[m] \in D[sig[n]]}]
RenamedHeights(H, sig) == [n \in Nodes |-> H[sig[n]]]

LEMMA RenamedLinked ==
    ASSUME NEW t, NEW D, NEW M, Linked(t, D, M), NEW sig, Renames(sig, M), NEW u, Renamed(t, u, sig)
    PROVE  Linked(u, RenamedBelow(D, sig), M)
<1> DEFINE E == RenamedBelow(D, sig)
<1>1. /\ sig \in [Nodes -> Nodes] /\ sig[NULL] = NULL
      /\ \A n \in Nodes : sig[sig[n]] = n
      /\ \A n \in Items : sig[n] \in Items
      /\ \A n \in M : sig[n] \in M
  BY DEF Renames
<1>2. /\ t \in Shapes /\ M \subseteq Items /\ D \in [Nodes -> SUBSET Items] /\ D[NULL] = {} /\ D[t.root] = M
      /\ NULL \in Nodes /\ NULL \notin Items /\ Items \subseteq Nodes /\ t.root \in Nodes
      /\ (t.root # NULL => t.root \in M /\ t.parent[t.root] = NULL)
  BY TreeAssumption DEF Linked, Nodes, Shapes
<1>3. /\ u \in Shapes /\ u.root = sig[t.root]
      /\ \A n \in Items : /\ u.parent[n] = sig[t.parent[sig[n]]] /\ u.balance[n] = t.balance[sig[n]]
                          /\ \A s \in Sides : u.child[n][s] = sig[t.child[sig[n]][s]]
  BY DEF Renamed
<1>4. \A n \in Nodes : E[n] = {m \in Items : sig[m] \in D[sig[n]]}
  BY DEF RenamedBelow
<1>5. E \in [Nodes -> SUBSET Items]
  BY DEF RenamedBelow
<1> HIDE DEF E
<1>6. \A n \in Nodes : E[sig[n]] = {m \in Items : sig[m] \in D[n]}
  BY <1>1, <1>4
<1>7. E[NULL] = {}
  BY <1>1, <1>2, <1>6
<1>8. E[u.root] = M
  <2>1. E[u.root] = {m \in Items : sig[m] \in M}
    BY <1>2, <1>3, <1>6
  <2>2. \A m \in Items : sig[m] \in M => m \in M
    <3> TAKE m \in Items
    <3>1. sig[sig[m]] = m
      BY <1>1, <1>2
    <3> QED BY <1>1, <3>1
  <2> QED BY <1>1, <1>2, <2>1, <2>2
<1>9. u.root # NULL => u.root \in M /\ u.parent[u.root] = NULL
  <2> SUFFICES ASSUME u.root # NULL PROVE u.root \in M /\ u.parent[u.root] = NULL
    OBVIOUS
  <2>1. t.root # NULL
    BY <1>1, <1>3
  <2>2. u.root \in M /\ sig[u.root] = t.root
    BY <1>1, <1>2, <1>3, <2>1
  <2>3. u.parent[u.root] = sig[NULL]
    BY <1>2, <1>3, <2>1, <2>2
  <2> QED BY <1>1, <2>2, <2>3
<1>10. ASSUME NEW n \in M, NEW s \in Sides
       PROVE  /\ E[n] \subseteq M
              /\ E[n] = {n} \cup E[u.child[n][s]] \cup E[u.child[n][-s]]
              /\ n \notin E[u.child[n][s]]
              /\ E[u.child[n][s]] \cap E[u.child[n][-s]] = {}
              /\ u.child[n][s] # NULL => u.child[n][s] \in M /\ u.parent[u.child[n][s]] = n
  <2> DEFINE k == sig[n]
             c == t.child[k][s]
             e == t.child[k][-s]
  <2>0. -s \in Sides /\ n \in Items /\ n \in Nodes
    BY <1>2 DEF Sides
  <2>1. k \in M /\ sig[k] = n
    BY <1>1, <2>0
  <2>2. u.child[n][s] = sig[c] /\ u.child[n][-s] = sig[e]
    BY <1>3, <2>0
  <2> HIDE DEF k
  <2>3. /\ D[k] \subseteq M /\ c \in M \cup {NULL} /\ e \in M \cup {NULL}
        /\ D[k] = {k} \cup D[c] \cup D[e] /\ k \notin D[c] /\ D[c] \cap D[e] = {}
        /\ (c # NULL => t.parent[c] = k)
    BY <2>1, Parts
  <2> HIDE DEF c, e
  <2>4. E[n] = {m \in Items : sig[m] \in D[k]}
    BY <1>4, <2>0 DEF k
  <2>5. E[sig[c]] = {m \in Items : sig[m] \in D[c]} /\ E[sig[e]] = {m \in Items : sig[m] \in D[e]}
    BY <1>2, <1>6, <2>3
  <2>6. \A m \in Items : (sig[m] = k => m = n) /\ (sig[m] \in M => m \in M)
    <3> TAKE m \in Items
    <3>1. sig[sig[m]] = m
      BY <1>1, <1>2
    <3> QED BY <1>1, <2>1, <3>1
  <2>7. E[n] \subseteq M
    BY <2>3, <2>4, <2>6
  <2>8. E[n] = {n} \cup E[sig[c]] \cup E[sig[e]]
    <3>1. sig[n] = k
      BY DEF k
    <3> QED BY <2>0, <2>3, <2>4, <2>5, <2>6, <3>1
  <2>9. n \notin E[sig[c]] /\ E[sig[c]] \cap E[sig[e]] = {}
    <3>1. sig[n] = k
      BY DEF k
    <3> QED BY <2>3, <2>5, <3>1
  <2>10. sig[c] # NULL => sig[c] \in M /\ u.parent[sig[c]] = n
    <3> SUFFICES ASSUME sig[c] # NULL PROVE sig[c] \in M /\ u.parent[sig[c]] = n
      OBVIOUS
    <3>1. c # NULL /\ c \in M
      BY <1>1, <2>3
    <3>2. sig[c] \in M /\ sig[sig[c]] = c /\ sig[c] \in Items
      BY <1>1, <1>2, <3>1
    <3>3. u.parent[sig[c]] = sig[t.parent[c]]
      BY <1>3, <3>2
    <3> QED BY <2>1, <2>3, <3>1, <3>2, <3>3
  <2> QED BY <2>2, <2>7, <2>8, <2>9, <2>10
<1>11. ASSUME NEW n \in M, n # u.root
       PROVE  u.parent[n] \in M /\ \E s \in Sides : u.child[u.parent[n]][s] = n
  <2> DEFINE k == sig[n]
  <2>1. k \in M /\ sig[k] = n /\ k # t.root /\ n \in Items
    BY <1>1, <1>2, <1>3, <1>11
  <2>2. u.parent[n] = sig[t.parent[k]]
    BY <1>3, <2>1
  <2> HIDE DEF k
  <2>3. t.parent[k] \in M /\ \E s \in Sides : t.child[t.parent[k]][s] = k
    BY <2>1 DEF Linked
  <2>4. PICK s \in Sides : t.child[t.parent[k]][s] = k
    BY <2>3
  <2>5. u.parent[n] \in M /\ sig[u.parent[n]] = t.parent[k] /\ u.parent[n] \in Items
    BY <1>1, <1>2, <2>2, <2>3
  <2>6. u.child[u.parent[n]][s] = n
    BY <1>3, <2>1, <2>4, <2>5
  <2> QED BY <2>5, <2>6
<1> QED BY <1>2, <1>3, <1>5, <1>7, <1>8, <1>9, <1>10, <1>11 DEF Linked, E

LEMMA RenamedFits ==
    ASSUME NEW t, NEW D, NEW M, Linked(t, D, M), NEW sig, Renames(sig, M), NEW u, Renamed(t, u, sig),
           NEW H, Fits(t, H, M, {})
    PROVE  Fits(u, RenamedHeights(H, sig), M, {})
<1> DEFINE G == RenamedHeights(H, sig)
<1>1. /\ sig \in [Nodes -> Nodes] /\ sig[NULL] = NULL
      /\ \A n \in Nodes : sig[sig[n]] = n
      /\ \A n \in Items : sig[n] \in Items
      /\ \A n \in M : sig[n] \in M
  BY DEF Renames
<1>2. H \in [Nodes -> Nat] /\ H[NULL] = 0 /\ \A n \in M : Tilts(t, H, n) /\ Level(t, H, n)
  BY DEF Fits
<1>3. M \subseteq Items /\ Items \subseteq Nodes /\ NULL \in Nodes
      /\ \A n \in Items, s \in Sides : t.child[n][s] \in Nodes
  BY DEF Linked, Nodes, Shapes
<1>4. G \in [Nodes -> Nat] /\ G[NULL] = 0 /\ \A n \in Nodes : G[n] = H[sig[n]] /\ G[sig[n]] = H[n]
  BY <1>1, <1>2, <1>3 DEF RenamedHeights
<1> HIDE DEF G
<1>5. ASSUME NEW n \in M PROVE Tilts(u, G, n) /\ Level(u, G, n)
  <2> DEFINE k == sig[n]
  <2>1. n \in Items /\ n \in Nodes /\ k \in M /\ k \in Items
    BY <1>1, <1>3
  <2>2. u.balance[n] = t.balance[k] /\ G[n] = H[k] /\ \A s \in Sides : u.child[n][s] = sig[t.child[k][s]]
    BY <1>4, <2>1 DEF Renamed
  <2> HIDE DEF k
  <2>3. \A s \in Sides : G[u.child[n][s]] = H[t.child[k][s]]
    BY <1>3, <1>4, <2>1, <2>2
  <2>4. Tilts(t, H, k) /\ Level(t, H, k)
    BY <1>2, <2>1
  <2>5. Tilts(u, G, n)
    BY <2>2, <2>3, <2>4 DEF Tilts, Sides
  <2>6. Level(u, G, n)
    BY <2>2, <2>3, <2>4 DEF Level, Stands
  <2> QED BY <2>5, <2>6
<1> QED BY <1>4, <1>5 DEF Fits, G

-----------------------------------------------------------------------------
(* Removal                                                                 *)

\* All nodes but one are in order.
OrderedBut(t, D, M, d, item) ==
    \A n \in M \ {item}, r \in Sides : \A m \in D[t.child[n][r]] \ {item} : OnSide(d, r, m, n)

LEMMA OrderedIsOrderedBut ==
    ASSUME NEW t, NEW D, NEW M, NEW d, NEW item, Ordered(t, D, M, d)
    PROVE  OrderedBut(t, D, M, d, item)
BY DEF Ordered, OrderedBut

\* The item and its neighbour exchange their places.
LEMMA SwappedOrdered ==
    ASSUME NEW t, NEW D, NEW M, Linked(t, D, M), NEW d \in BOOLEAN, Ordered(t, D, M, d),
           NEW item \in M, NEW s \in Sides, NEW c, c = t.child[item][s], c \in M,
           NEW sys, Outer(t, D, c, -s, d, sys),
           NEW sig, sig = [n \in Nodes |-> Sigma(item, sys, n)], NEW u, Renamed(t, u, sig)
    PROVE  OrderedBut(u, RenamedBelow(D, sig), M, d, item)
<1> DEFINE E == RenamedBelow(D, sig)
<1>1. -s \in Sides /\ -(-s) = s
  BY DEF Sides
<1>2. sys \in D[c] /\ t.child[sys][-s] = NULL /\ \A m \in D[c] \ {sys} : OnSide(d, s, m, sys)
  BY <1>1 DEF Outer
<1>3. /\ item \in D[item] /\ D[item] = {item} \cup D[c] \cup D[t.child[item][-s]] /\ D[item] \subseteq M
      /\ item \notin D[c] /\ M \subseteq Items /\ t \in Shapes
  BY SMTT(30), Parts DEF Linked
<1>4. sys \in M /\ sys # item /\ sys \in Items /\ item \in Items
  BY <1>2, <1>3
<1>5. Renames(sig, M)
  <2>1. M \in SUBSET Items
    BY <1>3
  <2> QED BY <1>4, <2>1, SigmaRenames
<1>6. /\ \A n \in Nodes : sig[n] = Sigma(item, sys, n)
      /\ \A n \in Nodes : sig[sig[n]] = n
      /\ sig \in [Nodes -> Nodes]
  BY <1>5 DEF Renames
<1>7. ASSUME NEW n \in Items, NEW r \in Sides, NEW m \in E[u.child[n][r]]
      PROVE  m \in Items /\ sig[m] \in D[t.child[sig[n]][r]]
  <2>1. n \in Nodes /\ sig[n] \in Items
    BY <1>5 DEF Renames, Nodes
  <2>2. t.child[sig[n]][r] \in Nodes
    BY <1>3, <2>1 DEF Shapes
  <2>3. u.child[n][r] = sig[t.child[sig[n]][r]]
    BY DEF Renamed
  <2>4. u.child[n][r] \in Nodes
    BY <1>6, <2>2, <2>3
  <2>5. E[u.child[n][r]] = {k \in Items : sig[k] \in D[sig[u.child[n][r]]]}
    BY <2>4 DEF RenamedBelow
  <2>6. sig[u.child[n][r]] = t.child[sig[n]][r]
    <3> DEFINE k == t.child[sig[n]][r]
    <3> HIDE DEF k
    <3>1. k \in Nodes /\ u.child[n][r] = sig[k]
      BY <2>2, <2>3 DEF k
    <3>2. sig[u.child[n][r]] = k
      BY <1>6, <3>1
    <3> QED BY <3>2 DEF k
  <2> HIDE DEF E
  <2> QED BY <1>7, <2>5, <2>6
<1> HIDE DEF E
<1>8. SUFFICES ASSUME NEW n \in M \ {item}, NEW r \in Sides, NEW m \in E[u.child[n][r]] \ {item}
               PROVE  OnSide(d, r, m, n)
  BY DEF OrderedBut, E
<1>9. n \in Items /\ m \in Items /\ sig[m] \in D[t.child[sig[n]][r]] /\ m \in Nodes /\ n \in Nodes
  BY <1>3, <1>7, <1>8 DEF Nodes
<1>10. CASE n = sys
  <2>1. sig[n] = item
    BY <1>4, <1>6, <1>9, <1>10 DEF Sigma
  <2>2. item \notin D[t.child[item][r]]
    BY Parts
  <2>3. m # sys /\ sig[m] = m
    <3>1. m = sys => sig[m] = item
      BY <1>4, <1>6, <1>9 DEF Sigma
    <3>2. m # sys
      BY <1>9, <2>1, <2>2, <3>1
    <3> QED BY <1>6, <1>8, <1>9, <3>2 DEF Sigma
  <2>4. m \in D[t.child[item][r]]
    BY <1>9, <2>1, <2>3
  <2>5. CASE r = s
    BY <1>2, <1>10, <2>3, <2>4, <2>5
  <2>6. CASE r = -s
    <3>1. OnSide(d, -s, m, item)
      BY <1>1, <2>4, <2>6 DEF Ordered
    <3>2. OnSide(d, s, sys, item)
      BY <1>2 DEF Ordered
    <3>3. OnSide(d, -s, item, sys)
      BY <1>4, <3>2, OnSideTurned
    <3>4. OnSide(d, -s, m, sys)
      BY <1>1, <1>4, <1>9, <3>1, <3>3, OnSideTransitive
    <3> QED BY <1>10, <2>6, <3>4
  <2>7. r = s \/ r = -s
    BY DEF Sides
  <2> QED BY <2>5, <2>6, <2>7
<1>11. CASE n # sys
  <2>1. sig[n] = n
    BY <1>6, <1>8, <1>9, <1>11 DEF Sigma
  <2>2. CASE m = sys
    <3>1. sig[m] = item
      BY <1>4, <1>6, <1>9, <2>2 DEF Sigma
    <3>2. item \in D[t.child[n][r]]
      BY <1>9, <2>1, <3>1
    <3>3. t.child[n][r] \in M
      <4>1. t.child[n][r] \in M \cup {NULL} /\ D[NULL] = {}
        BY <1>8, Parts DEF Linked
      <4> QED BY <3>2, <4>1
    <3>4. sys \in D[t.child[n][r]]
      BY <1>2, <1>3, <3>2, <3>3, Inside
    <3> QED BY <1>8, <2>2, <3>4 DEF Ordered
  <2>3. CASE m # sys
    <3>1. sig[m] = m
      BY <1>6, <1>8, <1>9, <2>3 DEF Sigma
    <3> QED BY <1>8, <1>9, <2>1, <3>1 DEF Ordered
  <2> QED BY <2>2, <2>3
<1> QED BY <1>10, <1>11


\* An item with at most one child c is taken out, and c comes to its place.
Spliceable(t, D, M, item, e, c) ==
    Linked(t, D, M) /\ item \in M /\ e \in Sides /\ c = t.child[item][e] /\ t.child[item][-e] = NULL

Spliced(t, v, item, c) ==
    /\ v \in Shapes /\ v.root = (IF item = t.root THEN c ELSE t.root)
    /\ v.numElements = t.numElements - 1
    /\ \A n \in Items :
          /\ v.parent[n] = IF n = c THEN t.parent[item] ELSE t.parent[n]
          /\ v.balance[n] = IF item # t.root /\ n = t.parent[item]
                            THEN t.balance[n] - SideOf(t, item) ELSE t.balance[n]
          /\ \A s \in Sides :
                v.child[n][s] = IF item # t.root /\ n = t.parent[item] /\ s = SideOf(t, item)
                                THEN c ELSE t.child[n][s]

SplicedBelow(D, item) == [n \in Nodes |-> D[n] \ {item}]

\* The children afterwards, and what is below them.
SplicedShape(t, D, M, item, c, v, E) ==
    /\ item \in Items /\ item # NULL /\ item \in D[item] /\ D[item] = {item} \cup D[c] /\ item \notin D[c]
    /\ c \in M \cup {NULL} /\ c # item /\ (c # NULL => t.parent[c] = item)
    /\ E \in [Nodes -> SUBSET Items] /\ \A n \in M \cup {NULL} : E[n] = D[n] \ {item}
    /\ \A n \in M \ {item}, s \in Sides :
          /\ v.child[n][s] = IF t.child[n][s] = item THEN c ELSE t.child[n][s]
          /\ E[v.child[n][s]] = D[t.child[n][s]] \ {item}

LEMMA SplicedFacts ==
    ASSUME NEW t, NEW D, NEW M, NEW item, NEW e, NEW c, Spliceable(t, D, M, item, e, c),
           NEW v, Spliced(t, v, item, c)
    PROVE  SplicedShape(t, D, M, item, c, v, SplicedBelow(D, item))
<1> DEFINE E == SplicedBelow(D, item)
<1>1. Linked(t, D, M) /\ item \in M /\ e \in Sides /\ c = t.child[item][e] /\ t.child[item][-e] = NULL
  BY DEF Spliceable
<1>2. M \subseteq Items /\ NULL \notin Items /\ D \in [Nodes -> SUBSET Items] /\ D[NULL] = {}
  BY <1>1, TreeAssumption DEF Linked
<1>3. /\ item \in Items /\ item # NULL /\ item \in D[item] /\ D[item] = {item} \cup D[c] /\ item \notin D[c]
      /\ c \in M \cup {NULL} /\ (c # NULL => t.parent[c] = item /\ c \in D[c])
  <2>1. /\ item \in Items /\ item # NULL /\ item \in D[item]
        /\ D[item] = {item} \cup D[t.child[item][e]] \cup D[t.child[item][-e]] /\ item \notin D[t.child[item][e]]
        /\ t.child[item][e] \in M \cup {NULL}
        /\ t.child[item][e] # NULL => t.parent[t.child[item][e]] = item /\ t.child[item][e] \in D[t.child[item][e]]
    BY <1>1, Parts
  <2> QED BY <1>1, <1>2, <2>1
<1>4. c # item
  BY <1>3
<1>5. E \in [Nodes -> SUBSET Items] /\ \A n \in M \cup {NULL} : E[n] = D[n] \ {item}
  BY <1>2 DEF SplicedBelow, Nodes
<1> HIDE DEF E
<1>6. ASSUME NEW n \in M \ {item}, NEW s \in Sides
      PROVE  v.child[n][s] = IF t.child[n][s] = item THEN c ELSE t.child[n][s]
  <2>0. n \in Items
    BY <1>2
  <2>1. CASE item = t.root
    <3>1. t.child[n][s] # item
      <4>1. t.child[n][s] # NULL => t.parent[t.child[n][s]] = n
        BY <1>1, Parts
      <4>2. t.parent[item] = NULL
        BY <1>1, <1>3, <2>1 DEF Linked
      <4> QED BY <1>2, <1>3, <2>0, <4>1, <4>2
    <3> QED BY <2>0, <2>1, <3>1 DEF Spliced
  <2>2. CASE item # t.root
    <3>1. Hangs(t, D, M, item, t.parent[item], SideOf(t, item))
      BY <1>1, <2>2, ParentFacts
    <3>2. t.child[n][s] = item <=> n = t.parent[item] /\ s = SideOf(t, item)
      BY <3>1 DEF Hangs
    <3> QED BY <2>0, <2>2, <3>2 DEF Spliced
  <2> QED BY <2>1, <2>2
<1>7. ASSUME NEW n \in M \ {item}, NEW s \in Sides PROVE E[v.child[n][s]] = D[t.child[n][s]] \ {item}
  <2>1. t.child[n][s] \in M \cup {NULL}
    BY <1>1, Parts
  <2>2. CASE t.child[n][s] = item
    <3>1. v.child[n][s] = c
      BY <1>6, <2>2
    <3> QED BY <1>3, <1>5, <2>2, <3>1
  <2>3. CASE t.child[n][s] # item
    <3>1. v.child[n][s] = t.child[n][s]
      BY <1>6, <2>3
    <3> QED BY <1>5, <2>1, <3>1
  <2> QED BY <2>2, <2>3
<1> QED BY <1>3, <1>4, <1>5, <1>6, <1>7 DEF SplicedShape, E

LEMMA SplicedLinked ==
    ASSUME NEW t, NEW D, NEW M, NEW item, NEW e, NEW c, Spliceable(t, D, M, item, e, c),
           NEW v, Spliced(t, v, item, c)
    PROVE  Linked(v, SplicedBelow(D, item), M \ {item})
<1> DEFINE E == SplicedBelow(D, item)
           N == M \ {item}
<1>1. Linked(t, D, M) /\ item \in M /\ e \in Sides /\ c = t.child[item][e] /\ t.child[item][-e] = NULL
  BY DEF Spliceable
<1>2. /\ M \subseteq Items /\ NULL \notin Items /\ D[NULL] = {} /\ D[t.root] = M
      /\ (t.root # NULL => t.root \in M /\ t.parent[t.root] = NULL) /\ t.root # NULL
  <2>1. D[t.root] = M /\ D[NULL] = {}
    BY <1>1 DEF Linked
  <2> QED BY <1>1, <2>1, TreeAssumption DEF Linked
<1>3. /\ item \in Items /\ item # NULL /\ item \in D[item] /\ D[item] = {item} \cup D[c] /\ item \notin D[c]
      /\ c \in M \cup {NULL} /\ c # item /\ (c # NULL => t.parent[c] = item)
      /\ E \in [Nodes -> SUBSET Items] /\ \A n \in M \cup {NULL} : E[n] = D[n] \ {item}
  <2> HIDE DEF E
  <2>1. SplicedShape(t, D, M, item, c, v, E)
    BY SplicedFacts DEF E
  <2> QED BY <2>1 DEF SplicedShape
<1>4. \A n \in M \ {item}, s \in Sides :
          /\ v.child[n][s] = IF t.child[n][s] = item THEN c ELSE t.child[n][s]
          /\ E[v.child[n][s]] = D[t.child[n][s]] \ {item}
  <2> HIDE DEF E
  <2>1. SplicedShape(t, D, M, item, c, v, E)
    BY SplicedFacts DEF E
  <2> QED BY <2>1 DEF SplicedShape
<1>5. /\ v \in Shapes /\ v.root = (IF item = t.root THEN c ELSE t.root)
      /\ \A n \in Items : v.parent[n] = IF n = c THEN t.parent[item] ELSE t.parent[n]
  BY DEF Spliced
<1> HIDE DEF E
<1>6. N \in SUBSET Items /\ E[NULL] = {}
  BY <1>2, <1>3
<1>7. E[v.root] = N
  BY <1>2, <1>3, <1>5
<1>8. ASSUME v.root # NULL PROVE v.root \in N /\ v.parent[v.root] = NULL
  <2>1. CASE item = t.root
    BY <1>2, <1>3, <1>5, <1>8, <2>1
  <2>2. CASE item # t.root
    <3>1. t.root \in Items /\ t.root # c
      BY <1>2, <1>3
    <3> QED BY <1>2, <1>5, <2>2, <3>1
  <2> QED BY <2>1, <2>2
<1>9. ASSUME NEW n \in N, NEW s \in Sides
      PROVE  /\ E[n] \subseteq N
             /\ E[n] = {n} \cup E[v.child[n][s]] \cup E[v.child[n][-s]]
             /\ n \notin E[v.child[n][s]]
             /\ E[v.child[n][s]] \cap E[v.child[n][-s]] = {}
             /\ v.child[n][s] # NULL => v.child[n][s] \in N /\ v.parent[v.child[n][s]] = n
  <2> DEFINE k == t.child[n][s]
             h == t.child[n][-s]
  <2>1. n \in M /\ n # item /\ -s \in Sides /\ n \in Items
    BY <1>2 DEF Sides
  <2>2. /\ D[n] \subseteq M /\ D[n] = {n} \cup D[k] \cup D[h] /\ n \notin D[k] /\ D[k] \cap D[h] = {}
        /\ k \in M \cup {NULL} /\ (k # NULL => t.parent[k] = n)
    BY SMTT(30), <1>1, <2>1, Parts
  <2>3. E[v.child[n][s]] = D[k] \ {item} /\ E[v.child[n][-s]] = D[h] \ {item} /\ E[n] = D[n] \ {item}
    BY <1>3, <1>4, <2>1
  <2>4. v.child[n][s] = IF k = item THEN c ELSE k
    BY <1>4, <2>1
  <2> HIDE DEF k, h
  <2>5. ASSUME v.child[n][s] # NULL PROVE v.child[n][s] \in N /\ v.parent[v.child[n][s]] = n
    <3>1. CASE k = item
      BY <1>2, <1>3, <1>5, <2>2, <2>4, <2>5, <3>1
    <3>2. CASE k # item
      <4>1. k # NULL /\ k \in M /\ t.parent[k] = n /\ k # c
        BY <1>3, <2>1, <2>2, <2>4, <2>5, <3>2
      <4> QED BY <1>2, <1>5, <2>4, <3>2, <4>1
    <3> QED BY <3>1, <3>2
  <2> QED BY <2>1, <2>2, <2>3, <2>5
<1>10. ASSUME NEW n \in N, n # v.root
       PROVE  v.parent[n] \in N /\ \E s \in Sides : v.child[v.parent[n]][s] = n
  <2>0. n \in M /\ n # item /\ n \in Items /\ n # NULL
    BY <1>2
  <2>1. CASE n = c
    <3>1. item # t.root /\ v.parent[n] = t.parent[item]
      BY <1>5, <1>10, <2>0, <2>1
    <3>2. Hangs(t, D, M, item, t.parent[item], SideOf(t, item))
      BY <1>1, <3>1, ParentFacts
    <3>3. t.parent[item] \in N /\ SideOf(t, item) \in Sides /\ t.child[t.parent[item]][SideOf(t, item)] = item
      BY <3>2 DEF Hangs
    <3>4. v.child[t.parent[item]][SideOf(t, item)] = c
      BY <1>4, <3>3
    <3> QED BY <2>1, <3>1, <3>3, <3>4
  <2>2. CASE n # c
    <3>1. n # t.root /\ v.parent[n] = t.parent[n]
      BY <1>5, <1>10, <2>0, <2>2
    <3>2. t.parent[n] \in M /\ \E s \in Sides : t.child[t.parent[n]][s] = n
      BY <1>1, <2>0, <3>1 DEF Linked
    <3>3. PICK s \in Sides : t.child[t.parent[n]][s] = n
      BY <3>2
    <3>4. t.parent[n] # item
      <4>1. s = e \/ s = -e
        BY <1>1 DEF Sides
      <4> QED BY <1>1, <2>0, <2>2, <3>3, <4>1
    <3>5. v.child[t.parent[n]][s] = n
      BY <1>4, <2>0, <3>2, <3>3, <3>4
    <3> QED BY <3>1, <3>2, <3>4, <3>5
  <2> QED BY <2>1, <2>2
<1> HIDE DEF N
<1> QED BY <1>3, <1>5, <1>6, <1>7, <1>8, <1>9, <1>10 DEF Linked, N, E

LEMMA SplicedOrdered ==
    ASSUME NEW t, NEW D, NEW M, NEW item, NEW e, NEW c, Spliceable(t, D, M, item, e, c),
           NEW v, Spliced(t, v, item, c), NEW d, OrderedBut(t, D, M, d, item)
    PROVE  Ordered(v, SplicedBelow(D, item), M \ {item}, d)
<1> DEFINE E == SplicedBelow(D, item)
<1>1. \A n \in M \ {item}, s \in Sides : E[v.child[n][s]] = D[t.child[n][s]] \ {item}
  <2> HIDE DEF E
  <2>1. SplicedShape(t, D, M, item, c, v, E)
    BY SplicedFacts DEF E
  <2> QED BY <2>1 DEF SplicedShape
<1> HIDE DEF E
<1> QED BY <1>1 DEF OrderedBut, Ordered, E


\* The heights seen by the parents stay: only the parent of the item notices.
LEMMA SplicedHeights ==
    ASSUME NEW t, NEW D, NEW M, NEW item, NEW e, NEW c, Spliceable(t, D, M, item, e, c),
           NEW v, Spliced(t, v, item, c), NEW H, Fits(t, H, M, {})
    PROVE  \A n \in M \ {item} : item = t.root \/ n # t.parent[item] =>
              Tilts(v, H, n) /\ Level(v, H, n)
<1>1. \A n \in M \ {item}, s \in Sides :
          v.child[n][s] = IF t.child[n][s] = item THEN c ELSE t.child[n][s]
  <2>1. SplicedShape(t, D, M, item, c, v, SplicedBelow(D, item))
    BY SplicedFacts
  <2> QED BY <2>1 DEF SplicedShape
<1>2. SUFFICES ASSUME NEW n \in M \ {item}, item = t.root \/ n # t.parent[item]
               PROVE  Tilts(v, H, n) /\ Level(v, H, n)
  OBVIOUS
<1>3. n \in Items
  BY DEF Spliceable, Linked
<1>4. v.balance[n] = t.balance[n] /\ \A s \in Sides : v.child[n][s] = t.child[n][s]
  BY <1>2, <1>3 DEF Spliced
<1>5. Tilts(t, H, n) /\ Level(t, H, n)
  BY DEF Fits
<1>6. Tilts(v, H, n)
  BY <1>4, <1>5 DEF Tilts, Sides
<1>7. Level(v, H, n)
  BY <1>4, <1>5 DEF Level, Stands
<1> QED BY <1>6, <1>7

\* The root has gone ...
LEMMA SplicedRoot ==
    ASSUME NEW t, NEW D, NEW M, NEW item, NEW e, NEW c, Spliceable(t, D, M, item, e, c),
           NEW v, Spliced(t, v, item, c), NEW d \in BOOLEAN, OrderedBut(t, D, M, d, item),
           NEW H, Fits(t, H, M, {}), item = t.root
    PROVE  AVL(v, SplicedBelow(D, item), H, M \ {item}, d, {})
<1> DEFINE E == SplicedBelow(D, item)
           N == M \ {item}
<1>1. Linked(v, E, N)
  BY SplicedLinked
<1>2. Ordered(v, E, N, d)
  BY SplicedOrdered
<1>3. \A n \in N : Tilts(v, H, n) /\ Level(v, H, n)
  BY SplicedHeights
<1> HIDE DEF E, N
<1>4. Fits(v, H, N, {})
  BY <1>3 DEF Fits
<1> QED BY <1>1, <1>2, <1>4 DEF AVL, E, N

\* ... or the subtree on one side of the parent has shrunk.
LEMMA SplicedShrunk ==
    ASSUME NEW t, NEW D, NEW M, NEW item, NEW e, NEW c, Spliceable(t, D, M, item, e, c),
           NEW v, Spliced(t, v, item, c), NEW d \in BOOLEAN, OrderedBut(t, D, M, d, item),
           NEW H, Fits(t, H, M, {}), item # t.root
    PROVE  Shrunk(v, SplicedBelow(D, item), H, M \ {item}, d, t.parent[item])
<1> DEFINE E == SplicedBelow(D, item)
           N == M \ {item}
           p == t.parent[item]
           r == SideOf(t, item)
           b == t.balance[p]
           m == t.child[p][-r]
<1>1. Linked(t, D, M) /\ item \in M /\ e \in Sides /\ c = t.child[item][e] /\ t.child[item][-e] = NULL
  BY DEF Spliceable
<1>2. Hangs(t, D, M, item, p, r)
  BY <1>1, ParentFacts
<1>3. /\ p \in M /\ p # item /\ r \in Sides /\ -r \in Sides /\ t.child[p][r] = item /\ m # item
      /\ p \in Items /\ item \in Items /\ M \subseteq Items /\ m \in M \cup {NULL} /\ p \in N
  <2>1. p \in M /\ p # item /\ r \in Sides /\ t.child[p][r] = item /\ m # item
    BY <1>2 DEF Hangs
  <2>2. -r \in Sides /\ M \subseteq Items
    BY SMTT(30), <1>1, <2>1 DEF Linked, Sides
  <2>3. m \in M \cup {NULL}
    BY <1>1, <2>1, <2>2, Parts
  <2> QED BY <1>1, <2>1, <2>2, <2>3
<1>4. /\ H \in [Nodes -> Nat] /\ H[NULL] = 0 /\ NULL \in Nodes /\ M \subseteq Nodes
      /\ \A n \in M : Tilts(t, H, n) /\ Level(t, H, n)
  BY <1>3 DEF Fits, Nodes
<1>5. c \in M \cup {NULL}
  BY <1>1, Parts
<1>6. H[item] = H[c] + 1 /\ H[c] \in Nat /\ H[item] \in Nat /\ H[m] \in Nat /\ H[p] \in Nat
  <2>1. H[c] \in Nat /\ H[item] \in Nat /\ H[m] \in Nat /\ H[p] \in Nat
    BY <1>1, <1>3, <1>4, <1>5
  <2>2. Stands(t, H, item, H[item])
    BY <1>1, <1>4 DEF Level
  <2>3. \A s \in Sides : s = e \/ s = -e
    BY <1>1 DEF Sides
  <2>4. H[item] > H[c] /\ (H[item] = 1 + H[c] \/ H[item] = 1 + 0)
    BY <1>1, <1>4, <2>2, <2>3 DEF Stands
  <2> QED BY <2>1, <2>4
<1>7. v \in Shapes /\ v.balance[p] = b - r /\ b \in Int
  <2>1. v \in Shapes /\ v.balance[p] = b - r
    BY <1>3 DEF Spliced
  <2>2. t \in Shapes
    BY <1>1 DEF Linked
  <2> QED BY <1>3, <2>1, <2>2 DEF Shapes
<1>8. v.child[p][r] = c /\ v.child[p][-r] = m
  <2>1. SplicedShape(t, D, M, item, c, v, E)
    BY SplicedFacts
  <2>2. \A s \in Sides : v.child[p][s] = IF t.child[p][s] = item THEN c ELSE t.child[p][s]
    <3> HIDE DEF E, N, p
    <3> QED BY <1>3, <2>1 DEF SplicedShape
  <2> QED BY <1>3, <2>2
<1>9. Linked(v, E, N)
  BY SplicedLinked
<1>10. Ordered(v, E, N, d)
  BY SplicedOrdered
<1>11. \A n \in N \ {p} : Tilts(v, H, n) /\ Level(v, H, n)
  BY SplicedHeights
<1>12. b = Lean(r, H[item], H[m]) /\ H[p] > H[item] /\ H[p] > H[m] /\ (H[p] = 1 + H[item] \/ H[p] = 1 + H[m])
  <2>1. Tilts(t, H, p) /\ Level(t, H, p)
    BY <1>3, <1>4
  <2>2. b = H[t.child[p][1]] - H[t.child[p][-1]]
    BY <2>1 DEF Tilts
  <2>3. b = Lean(r, H[t.child[p][r]], H[m])
    <3>1. CASE r = 1
      BY <2>2, <3>1 DEF Lean
    <3>2. CASE r = -1
      <4>1. m = t.child[p][1]
        BY <3>2
      <4> HIDE DEF m, b, r
      <4>2. Lean(r, H[t.child[p][r]], H[m]) = H[m] - H[t.child[p][r]]
        BY <3>2 DEF Lean
      <4> QED BY <2>2, <3>2, <4>1, <4>2
    <3> QED BY <1>3, <3>1, <3>2 DEF Sides
  <2>4. \A s \in Sides : s = r \/ s = -r
    BY <1>3 DEF Sides
  <2>5. Stands(t, H, p, H[p])
    BY <2>1 DEF Level
  <2>6. H[p] > H[t.child[p][r]] /\ H[p] > H[m] /\ (H[p] = 1 + H[t.child[p][r]] \/ H[p] = 1 + H[m])
    BY <1>3, <2>4, <2>5 DEF Stands
  <2> QED BY <1>3, <2>3, <2>6
<1>13. b \in {-1, 0, 1}
  BY <1>3, <1>4 DEF Level
<1> HIDE DEF b, m, r, p, E, N
<1>14. r = 1 \/ r = -1
  BY <1>3 DEF Sides
<1>15. /\ v.balance[p] = Lean(r, H[c], H[m]) /\ v.balance[p] \in -2..2
       /\ v.balance[p] = 0 => H[m] = H[c] /\ H[p] - 1 = 1 + H[m]
       /\ v.balance[p] # 0 => H[m] > H[c] /\ H[p] = 1 + H[m]
  <2>1. CASE r = 1
    <3>1. b = H[item] - H[m] /\ v.balance[p] = b - 1 /\ Lean(r, H[c], H[m]) = H[c] - H[m]
      BY <1>7, <1>12, <2>1 DEF Lean
    <3> QED BY <1>6, <1>12, <1>13, <3>1
  <2>2. CASE r = -1
    <3>1. b = H[m] - H[item] /\ v.balance[p] = b + 1 /\ Lean(r, H[c], H[m]) = H[m] - H[c]
      BY <1>7, <1>12, <2>2 DEF Lean
    <3> QED BY <1>6, <1>12, <1>13, <3>1
  <2> QED BY <1>14, <2>1, <2>2
<1>16. Tilts(v, H, p)
  <2>1. v.balance[p] = Lean(r, H[v.child[p][r]], H[v.child[p][-r]])
    BY <1>8, <1>15
  <2>2. v.child[p][r] \in Nodes /\ v.child[p][-r] \in Nodes
    BY <1>3, <1>4, <1>5, <1>8
  <2> QED BY <1>3, <1>4, <1>7, <2>1, <2>2, TiltsLean
<1>17. AVL(v, E, H, N, d, {p})
  <2>1. Fits(v, H, N, {p})
    BY <1>4, <1>11, <1>16 DEF Fits
  <2> QED BY <1>9, <1>10, <2>1 DEF AVL
<1>18. \A x : Stands(v, H, p, x) <=>
          /\ x > H[c] /\ x > H[m]
          /\ x = 1 + H[c] \/ x = 1 + H[m]
  <2>1. \A x : Stands(v, H, p, x) <=>
          /\ x > H[v.child[p][r]] /\ x > H[v.child[p][-r]]
          /\ x = 1 + H[v.child[p][r]] \/ x = 1 + H[v.child[p][-r]]
    BY <1>3, <1>17, NodeFacts
  <2> QED BY <1>8, <2>1
<1>19. v.balance[p] = 0 => Stands(v, H, p, H[p] - 1)
  BY <1>6, <1>15, <1>18
<1>20. v.balance[p] # 0 => Stands(v, H, p, H[p])
  BY <1>6, <1>15, <1>18
<1> QED BY <1>3, <1>15, <1>17, <1>19, <1>20 DEF Shrunk, E, N, p


\* What a tree says of its nodes it says of every tree with the same nodes.
LEMMA SameNodes ==
    ASSUME NEW t, NEW D, NEW H, NEW M, NEW d, AVL(t, D, H, M, d, {}), NEW u \in Shapes, u.root = t.root,
           \A n \in M : u.parent[n] = t.parent[n] /\ u.balance[n] = t.balance[n] /\ u.child[n] = t.child[n]
    PROVE  AVL(u, D, H, M, d, {})
<1>1. /\ M \in SUBSET Items /\ D \in [Nodes -> SUBSET Items] /\ D[NULL] = {} /\ D[t.root] = M
      /\ t.root # NULL => t.root \in M /\ t.parent[t.root] = NULL
      /\ \A n \in M, s \in Sides :
          /\ D[n] \subseteq M
          /\ D[n] = {n} \cup D[t.child[n][s]] \cup D[t.child[n][-s]]
          /\ n \notin D[t.child[n][s]]
          /\ D[t.child[n][s]] \cap D[t.child[n][-s]] = {}
          /\ t.child[n][s] # NULL => t.child[n][s] \in M /\ t.parent[t.child[n][s]] = n
      /\ \A n \in M : n # t.root =>
          t.parent[n] \in M /\ \E s \in Sides : t.child[t.parent[n]][s] = n
  BY DEF AVL, Linked
<1>2. Linked(u, D, M)
  <2>1. \A n \in M : n # u.root =>
          u.parent[n] \in M /\ \E s \in Sides : u.child[u.parent[n]][s] = n
    BY <1>1
  <2>2. \A n \in M, s \in Sides :
          /\ D[n] \subseteq M
          /\ D[n] = {n} \cup D[u.child[n][s]] \cup D[u.child[n][-s]]
          /\ n \notin D[u.child[n][s]]
          /\ D[u.child[n][s]] \cap D[u.child[n][-s]] = {}
          /\ u.child[n][s] # NULL => u.child[n][s] \in M /\ u.parent[u.child[n][s]] = n
    BY <1>1
  <2>3. u.root # NULL => u.root \in M /\ u.parent[u.root] = NULL
    BY <1>1
  <2> QED BY <1>1, <2>1, <2>2, <2>3 DEF Linked
<1>3. Ordered(u, D, M, d)
  <2>1. Ordered(t, D, M, d)
    BY DEF AVL
  <2> QED BY <2>1 DEF Ordered
<1>4. Fits(u, H, M, {})
  <2>1. Fits(t, H, M, {})
    BY DEF AVL
  <2>2. \A n \in M : Tilts(u, H, n)
    BY <2>1 DEF Fits, Tilts
  <2>3. \A n \in M : Level(u, H, n)
    BY <2>1 DEF Fits, Level, Stands
  <2> QED BY <2>1, <2>2, <2>3 DEF Fits
<1> QED BY <1>2, <1>3, <1>4 DEF AVL

\* The node that was taken out is given back.
LEMMA FreedHolds ==
    ASSUME NEW t, NEW D, NEW H, NEW M, NEW d, AVL(t, D, H, M, d, {}), NEW item \in Items \ M,
           t.numElements = Cardinality(M),
           \A n \in Items \ (M \cup {item}), s \in Sides : t.child[n][s] = NULL
    PROVE  Holds(Freed(t, item), M, d)
<1> DEFINE u == Freed(t, item)
           k == [s \in Sides |-> NULL]
           c == [t.child EXCEPT ![item] = k]
           p == [t.parent EXCEPT ![item] = NULL]
           b == [t.balance EXCEPT ![item] = 0]
<1>1. /\ t \in Shapes /\ M \subseteq Items /\ item \in Items /\ item \notin M
      /\ t.child \in [Items -> [Sides -> Nodes]] /\ t.parent \in [Items -> Nodes]
      /\ t.balance \in [Items -> Int] /\ t.root \in Nodes /\ t.numElements \in Int
      /\ t = [child |-> t.child, parent |-> t.parent, balance |-> t.balance, root |-> t.root,
              numElements |-> t.numElements]
  BY DEF AVL, Linked, Shapes
<1>2. k \in [Sides -> Nodes] /\ EmptyTree.child[item] = k
  BY <1>1 DEF EmptyTree, Nodes
<1> HIDE DEF k
<1>3. u = [t EXCEPT !.child = c, !.parent = p, !.balance = b]
  BY <1>1, <1>2 DEF Freed
<1>4. u = [child |-> c, parent |-> p, balance |-> b, root |-> t.root, numElements |-> t.numElements]
  <2> HIDE DEF c, p, b, u
  <2> QED BY <1>1, <1>3
<1>5. c \in [Items -> [Sides -> Nodes]] /\ p \in [Items -> Nodes] /\ b \in [Items -> Int]
  BY <1>1, <1>2 DEF Nodes
<1>6. c[item] = k /\ \A n \in Items \ {item} : c[n] = t.child[n] /\ p[n] = t.parent[n] /\ b[n] = t.balance[n]
  BY <1>1
<1> HIDE DEF c, p, b, u
<1>7. u \in Shapes
  BY <1>1, <1>4, <1>5 DEF Shapes
<1>8. AVL(u, D, H, M, d, {})
  <2>1. \A n \in M : u.parent[n] = t.parent[n] /\ u.balance[n] = t.balance[n] /\ u.child[n] = t.child[n]
    BY <1>1, <1>4, <1>6
  <2>2. u.root = t.root
    BY <1>4
  <2> QED BY <1>7, <2>1, <2>2, SameNodes
<1>9. Idle(u, M)
  <2> SUFFICES ASSUME NEW n \in Items \ M, NEW s \in Sides PROVE u.child[n][s] = NULL
    BY DEF Idle
  <2>1. CASE n = item
    BY <1>4, <1>6, <2>1 DEF k
  <2>2. CASE n # item
    BY <1>4, <1>6, <2>2
  <2> QED BY <2>1, <2>2
<1>10. u.numElements = Cardinality(M)
  BY <1>4
<1> QED BY <1>8, <1>9, <1>10 DEF Holds, u

LEMMA RestChildren ==
    ASSUME NEW t, NEW u, NEW M, Rest(u, M) = Rest(t, M)
    PROVE  /\ u.numElements = t.numElements
           /\ \A n \in Items \ M, s \in Sides : u.child[n][s] = t.child[n][s]
<1>1. u.numElements = t.numElements
      /\ [n \in Items \ M |-> [s \in Sides |-> u.child[n][s]]] = [n \in Items \ M |-> [s \in Sides |-> t.child[n][s]]]
  BY DEF Rest
<1>2. ASSUME NEW n \in Items \ M, NEW s \in Sides PROVE u.child[n][s] = t.child[n][s]
  <2>1. [r \in Sides |-> u.child[n][r]] = [r \in Sides |-> t.child[n][r]]
    BY <1>1
  <2>2. [r \in Sides |-> u.child[n][r]][s] = [r \in Sides |-> t.child[n][r]][s]
    BY <2>1
  <2> QED BY <2>2
<1> QED BY <1>1, <1>2

\* What eraseNode() does when the item has at most one child.
TakeOut(u, item) ==
    LET father == u.parent[item]
        sohn == IF u.child[item][-1] # NULL THEN u.child[item][-1] ELSE u.child[item][1]
        v == [u EXCEPT !.parent = [n \in Items |-> IF n = sohn THEN father ELSE u.parent[n]],
                       !.numElements = @ - 1]
    IN  IF item = u.root THEN [v EXCEPT !.root = sohn]
        ELSE upDelete([v EXCEPT !.child[father][SideOf(u, item)] = sohn,
                                !.balance[father] = @ - SideOf(u, item)], father)

LEMMA TakeOutHolds ==
    ASSUME NEW u, NEW D, NEW H, NEW M, NEW d \in BOOLEAN, Linked(u, D, M), Idle(u, M), NEW item \in M,
           OrderedBut(u, D, M, d, item), Fits(u, H, M, {}), u.numElements = Cardinality(M),
           NEW a \in Sides, u.child[item][a] = NULL
    PROVE  Holds(Freed(TakeOut(u, item), item), M \ {item}, d)
<1> DEFINE e == IF u.child[item][-1] # NULL THEN -1 ELSE 1
           c == u.child[item][e]
           f == u.parent[item]
           p == [n \in Items |-> IF n = c THEN f ELSE u.parent[n]]
           v == [u EXCEPT !.parent = p, !.numElements = @ - 1]
           N == M \ {item}
           E == SplicedBelow(D, item)
<1>1. /\ u \in Shapes /\ M \subseteq Items /\ item \in Items
      /\ u.child \in [Items -> [Sides -> Nodes]] /\ u.parent \in [Items -> Nodes]
      /\ u.balance \in [Items -> Int] /\ u.root \in Nodes /\ u.numElements \in Int
      /\ u = [child |-> u.child, parent |-> u.parent, balance |-> u.balance, root |-> u.root,
              numElements |-> u.numElements]
  BY DEF Linked, Shapes
<1>2. e \in Sides /\ u.child[item][-e] = NULL
  <2>1. a = 1 \/ a = -1
    BY DEF Sides
  <2>2. CASE u.child[item][-1] # NULL
    BY <2>1, <2>2 DEF Sides
  <2>3. CASE u.child[item][-1] = NULL
    BY <2>3 DEF Sides
  <2> QED BY <2>2, <2>3
<1>3. c = (IF u.child[item][-1] # NULL THEN u.child[item][-1] ELSE u.child[item][1])
  OBVIOUS
<1>4. TakeOut(u, item) = IF item = u.root THEN [v EXCEPT !.root = c]
                         ELSE upDelete([v EXCEPT !.child[f][SideOf(u, item)] = c,
                                                 !.balance[f] = @ - SideOf(u, item)], f)
  BY <1>3 DEF TakeOut
<1> HIDE DEF e
<1>5. Spliceable(u, D, M, item, e, c)
  BY <1>2 DEF Spliceable
<1>6. c \in Nodes /\ f \in Nodes
  BY <1>1, <1>2
<1> HIDE DEF c, f
<1>7. p \in [Items -> Nodes] /\ \A n \in Items : p[n] = IF n = c THEN f ELSE u.parent[n]
  BY <1>1, <1>6
<1> HIDE DEF p
<1>8. v = [child |-> u.child, parent |-> p, balance |-> u.balance, root |-> u.root,
           numElements |-> u.numElements - 1]
  <2>1. v = [u EXCEPT !.parent = p, !.numElements = u.numElements - 1]
    BY <1>1
  <2> DEFINE l == u.numElements - 1
  <2> HIDE DEF p, v, l
  <2>2. v = [u EXCEPT !.parent = p, !.numElements = l]
    BY <2>1 DEF l
  <2>3. v = [child |-> u.child, parent |-> p, balance |-> u.balance, root |-> u.root, numElements |-> l]
    BY <1>1, <2>2
  <2> QED BY <2>3 DEF l
<1> HIDE DEF v
<1>9. u.numElements - 1 = Cardinality(N) /\ u.numElements - 1 \in Int
  <2>1. IsFiniteSet(M)
    BY <1>1, TreeAssumption, FS_Subset
  <2>2. Cardinality(M \ {item}) = Cardinality(M) - 1
    BY <2>1, FS_RemoveElement
  <2> QED BY <1>1, <2>2
<1>10. \A n \in Items \ (N \cup {item}) : n \in Items \ M
  OBVIOUS
<1>11. CASE item = u.root
  <2> DEFINE w == [v EXCEPT !.root = c]
  <2>1. w = [child |-> u.child, parent |-> p, balance |-> u.balance, root |-> c,
             numElements |-> u.numElements - 1]
    BY <1>8
  <2>2. TakeOut(u, item) = w
    BY <1>4, <1>11
  <2> HIDE DEF w
  <2>3. w \in Shapes
    BY <1>1, <1>6, <1>7, <1>9, <2>1 DEF Shapes
  <2>4. Spliced(u, w, item, c)
    BY <1>7, <1>11, <2>1, <2>3 DEF Spliced, f
  <2>5. AVL(w, E, H, N, d, {})
    BY <1>5, <1>11, <2>4, SplicedRoot
  <2>6. \A n \in Items \ (N \cup {item}), s \in Sides : w.child[n][s] = NULL
    BY <2>1 DEF Idle
  <2>7. w.numElements = Cardinality(N) /\ item \in Items \ N
    BY <1>1, <1>9, <2>1
  <2> HIDE DEF E, N
  <2> QED BY <2>2, <2>5, <2>6, <2>7, FreedHolds DEF N
<1>12. CASE item # u.root
  <2> DEFINE q == SideOf(u, item)
             k == [u.child EXCEPT ![f][q] = c]
             b == [u.balance EXCEPT ![f] = u.balance[f] - q]
             w == [v EXCEPT !.child[f][q] = c, !.balance[f] = @ - q]
  <2>1. TakeOut(u, item) = upDelete(w, f)
    BY <1>4, <1>12
  <2>2. f \in M /\ f # item /\ f \in Items /\ q \in Sides /\ q \in Int
    <3>1. Hangs(u, D, M, item, f, q)
      BY <1>12, ParentFacts DEF f
    <3>2. f \in M /\ f # item /\ q \in Sides
      BY <3>1 DEF Hangs
    <3> QED BY <1>1, <3>2 DEF Sides
  <2> HIDE DEF q
  <2>3. w = [child |-> k, parent |-> p, balance |-> b, root |-> u.root, numElements |-> u.numElements - 1]
    <3>1. w = [v EXCEPT !.child = k, !.balance = b]
      BY <1>8
    <3> HIDE DEF k, b, w
    <3> QED BY <1>8, <3>1
  <2> HIDE DEF w
  <2>4. /\ k \in [Items -> [Sides -> Nodes]] /\ b \in [Items -> Int]
        /\ \A n \in Items : /\ b[n] = IF n = f THEN u.balance[n] - q ELSE u.balance[n]
                            /\ \A s \in Sides : k[n][s] = IF n = f /\ s = q THEN c ELSE u.child[n][s]
    <3>1. u.child[f] \in [Sides -> Nodes]
      BY <1>1, <2>2
    <3>2. k \in [Items -> [Sides -> Nodes]]
      BY <1>1, <1>6, <2>2, <3>1
    <3>3. b \in [Items -> Int]
      BY <1>1, <2>2
    <3>4. \A n \in Items : b[n] = IF n = f THEN u.balance[n] - q ELSE u.balance[n]
      BY <1>1, <2>2
    <3>5. ASSUME NEW n \in Items, NEW s \in Sides
          PROVE  k[n][s] = IF n = f /\ s = q THEN c ELSE u.child[n][s]
      <4>1. k[n] = IF n = f THEN [u.child[f] EXCEPT ![q] = c] ELSE u.child[n]
        BY <1>1, <2>2
      <4> HIDE DEF k
      <4>2. CASE n = f
        BY <2>2, <3>1, <4>1, <4>2
      <4>3. CASE n # f
        BY <4>1, <4>3
      <4> QED BY <4>2, <4>3
    <3> QED BY <3>2, <3>3, <3>4, <3>5
  <2> HIDE DEF k, b
  <2>5. w \in Shapes
    BY <1>1, <1>7, <1>9, <2>3, <2>4 DEF Shapes
  <2>6. Spliced(u, w, item, c)
    BY <1>7, <1>12, <2>3, <2>4, <2>5 DEF Spliced, f, q
  <2>7. Shrunk(w, E, H, N, d, f)
    BY <1>5, <1>12, <2>6, SplicedShrunk DEF f
  <2> DEFINE y == upDelete(w, f)
  <2> HIDE DEF E, N
  <2>8. Rest(y, N) = Rest(w, N) /\ \E F, G : AVL(y, F, G, N, d, {})
    BY <2>7, upDeleteRestores
  <2> HIDE DEF y
  <2>9. PICK F, G : AVL(y, F, G, N, d, {})
    BY <2>8
  <2>10. /\ y.numElements = w.numElements
         /\ \A n \in Items \ N, s \in Sides : y.child[n][s] = w.child[n][s]
    BY <2>8, RestChildren
  <2>11. ASSUME NEW n \in Items \ (N \cup {item}), NEW s \in Sides PROVE y.child[n][s] = NULL
    <3>1. n \in Items \ M /\ n \in Items \ N
      BY DEF N
    <3>2. w.child[n][s] = u.child[n][s]
      BY <2>2, <2>3, <2>4, <3>1
    <3> QED BY <2>10, <3>1, <3>2 DEF Idle
  <2>12. y.numElements = Cardinality(N) /\ item \in Items \ N
    BY <1>1, <1>9, <2>3, <2>10 DEF N
  <2>13. Holds(Freed(y, item), N, d)
    BY <2>9, <2>11, <2>12, FreedHolds
  <2> QED BY <2>1, <2>13 DEF y, N
<1> QED BY <1>11, <1>12


\* What eraseNode() does when the item has two children.
Swap(t, a, b) == [swapNodes(t, a, b) EXCEPT !.root = IF @ = a THEN b ELSE @]

LEMMA SwapRenamed ==
    ASSUME NEW t \in Shapes, NEW a \in Items, NEW b \in Items, t.root # b,
           NEW sig, sig = [n \in Nodes |-> Sigma(a, b, n)]
    PROVE  Renamed(t, Swap(t, a, b), sig) /\ Swap(t, a, b).numElements = t.numElements
<1> DEFINE u == Swap(t, a, b)
           x == swapNodes(t, a, b)
           c == [n \in Items |-> [s \in Sides |-> sig[t.child[sig[n]][s]]]]
           p == [n \in Items |-> sig[t.parent[sig[n]]]]
           l == [n \in Items |-> t.balance[sig[n]]]
           r == IF t.root = a THEN b ELSE t.root
<1>1. /\ t.child \in [Items -> [Sides -> Nodes]] /\ t.parent \in [Items -> Nodes]
      /\ t.balance \in [Items -> Int] /\ t.root \in Nodes /\ t.numElements \in Int
      /\ t = [child |-> t.child, parent |-> t.parent, balance |-> t.balance, root |-> t.root,
              numElements |-> t.numElements]
  BY DEF Shapes
<1>2. /\ \A n \in Nodes : sig[n] = IF n = a THEN b ELSE IF n = b THEN a ELSE n
      /\ \A n \in Items : sig[n] \in Items /\ n \in Nodes
      /\ \A n \in Nodes : sig[n] \in Nodes
  BY DEF Sigma, Nodes
<1>3. \A n \in Items, s \in Sides : t.child[sig[n]][s] \in Nodes /\ t.parent[sig[n]] \in Nodes
  <2> TAKE n \in Items, s \in Sides
  <2> DEFINE k == sig[n]
  <2>1. k \in Items
    BY <1>2
  <2> HIDE DEF k
  <2>2. t.child[k] \in [Sides -> Nodes] /\ t.parent[k] \in Nodes
    BY <1>1, <2>1
  <2>3. t.child[k][s] \in Nodes
    BY <2>2
  <2> QED BY <2>2, <2>3 DEF k
<1>4. x = [t EXCEPT !.child = c, !.parent = p, !.balance = l]
  <2> DEFINE sg(n) == IF n = a THEN b ELSE IF n = b THEN a ELSE n
  <2>1. x = [t EXCEPT !.child = [n \in Items |-> [s \in Sides |-> sg(t.child[sg(n)][s])]],
                      !.parent = [n \in Items |-> sg(t.parent[sg(n)])],
                      !.balance = [n \in Items |-> t.balance[sg(n)]]]
    BY DEF swapNodes
  <2> HIDE DEF x
  <2>2. \A n \in Nodes : sig[n] = sg(n)
    BY <1>2
  <2> HIDE DEF sg
  <2>3. c = [n \in Items |-> [s \in Sides |-> sg(t.child[sg(n)][s])]]
    <3>1. \A n \in Items, s \in Sides : sig[t.child[sig[n]][s]] = sg(t.child[sg(n)][s])
      BY <1>2, <1>3, <2>2
    <3>2. \A n \in Items : [s \in Sides |-> sig[t.child[sig[n]][s]]] = [s \in Sides |-> sg(t.child[sg(n)][s])]
      BY <3>1
    <3> QED BY <3>2
  <2>4. p = [n \in Items |-> sg(t.parent[sg(n)])]
    <3>1. \A n \in Items : sig[t.parent[sig[n]]] = sg(t.parent[sg(n)])
      BY <1>1, <1>2, <2>2
    <3> QED BY <3>1
  <2>5. l = [n \in Items |-> t.balance[sg(n)]]
    BY <1>2, <2>2
  <2> HIDE DEF c, p, l
  <2> QED BY <2>1, <2>3, <2>4, <2>5
<1>5. /\ c \in [Items -> [Sides -> Nodes]] /\ p \in [Items -> Nodes] /\ l \in [Items -> Int]
      /\ \A n \in Items : /\ p[n] = sig[t.parent[sig[n]]] /\ l[n] = t.balance[sig[n]]
                          /\ \A s \in Sides : c[n][s] = sig[t.child[sig[n]][s]]
  <2>1. c \in [Items -> [Sides -> Nodes]]
    BY <1>2, <1>3
  <2>2. p \in [Items -> Nodes]
    BY <1>1, <1>2
  <2>3. l \in [Items -> Int]
    BY <1>1, <1>2
  <2>4. ASSUME NEW n \in Items
        PROVE  /\ p[n] = sig[t.parent[sig[n]]] /\ l[n] = t.balance[sig[n]]
               /\ \A s \in Sides : c[n][s] = sig[t.child[sig[n]][s]]
    OBVIOUS
  <2> QED BY <2>1, <2>2, <2>3, <2>4
<1>6. r \in Nodes /\ r = sig[t.root]
  BY <1>1, <1>2
<1>7. u = [x EXCEPT !.root = IF x.root = a THEN b ELSE x.root]
  <2> HIDE DEF x
  <2> QED BY DEF x, Swap
<1> HIDE DEF c, p, l, x, u
<1>8. x = [child |-> c, parent |-> p, balance |-> l, root |-> t.root, numElements |-> t.numElements]
  BY <1>1, <1>4
<1>9. u = [child |-> c, parent |-> p, balance |-> l, root |-> r, numElements |-> t.numElements]
  BY <1>7, <1>8
<1>10. u \in Shapes
  BY <1>1, <1>5, <1>6, <1>9 DEF Shapes
<1>11. \A n \in Items : /\ u.parent[n] = sig[t.parent[sig[n]]] /\ u.balance[n] = t.balance[sig[n]]
                        /\ \A s \in Sides : u.child[n][s] = sig[t.child[sig[n]][s]]
  BY <1>5, <1>9
<1>12. u.root = sig[t.root] /\ u.numElements = t.numElements
  BY <1>6, <1>9
<1>13. Renamed(t, u, sig)
  BY <1>10, <1>11, <1>12 DEF Renamed
<1> QED BY <1>12, <1>13 DEF u

LEMMA eraseNodeHolds ==
    ASSUME NEW t, NEW M, NEW d, Holds(t, M, d), NEW item \in M
    PROVE  Holds(Freed(eraseNode(t, item), item), M \ {item}, d)
<1> DEFINE kids == {s \in Sides : t.child[item][s] # NULL}
           side == IF t.balance[item] < 0 THEN -1 ELSE 1
           c    == t.child[item][side]
           sys  == Outermost(t, c, -side)
           u    == IF kids # Sides THEN t ELSE Swap(t, item, sys)
<1>1. PICK D, H : AVL(t, D, H, M, d, {})
  BY DEF Holds
<1>2. /\ Linked(t, D, M) /\ d \in BOOLEAN /\ Ordered(t, D, M, d) /\ Fits(t, H, M, {})
      /\ Idle(t, M) /\ t.numElements = Cardinality(M)
  BY <1>1 DEF AVL, Holds
<1>3. eraseNode(t, item) = TakeOut(u, item)
  BY DEF eraseNode, TakeOut, Swap
<1>4. CASE kids # Sides
  <2>1. u = t
    BY <1>4
  <2>2. PICK a \in Sides : t.child[item][a] = NULL
    BY <1>4
  <2>3. OrderedBut(t, D, M, d, item)
    BY <1>2, OrderedIsOrderedBut
  <2> HIDE DEF u, kids
  <2> QED BY <1>2, <1>3, <2>1, <2>2, <2>3, TakeOutHolds
<1>5. CASE kids = Sides
  <2>0. side = 1 \/ side = -1
    OBVIOUS
  <2>1. side \in Sides /\ -side \in Sides /\ -(-side) = side
    <3> HIDE DEF side
    <3> QED BY <2>0 DEF Sides
  <2>2. u = Swap(t, item, sys)
    BY <1>5
  <2>3. c # NULL
    <3>1. side \in kids
      BY <1>5, <2>1
    <3> QED BY <3>1
  <2> HIDE DEF u, kids, side
  <2>4. c \in M /\ item \in Items /\ t.parent[c] = item /\ D[c] \subseteq M /\ item \notin D[c] /\ item # NULL
        /\ t \in Shapes /\ M \subseteq Items /\ c \in D[c]
    <3>1. c \in M /\ item \in Items /\ t.parent[c] = item /\ item \notin D[c] /\ item # NULL /\ c \in D[c]
      BY <1>2, <2>1, <2>3, Parts
    <3>2. D[c] \subseteq M
      BY <1>2, <2>1, <3>1 DEF Linked
    <3> QED BY <1>2, <3>1, <3>2 DEF Linked
  <2> HIDE DEF c
  <2>5. Outer(t, D, c, -side, d, sys)
    BY <1>2, <2>1, <2>4, OutermostOuter
  <2> HIDE DEF sys
  <2>6. sys \in D[c] /\ t.child[sys][-side] = NULL /\ sys \in M /\ sys \in Items /\ sys # item
    BY <2>4, <2>5 DEF Outer
  <2>7. t.root # sys
    <3>1. D[t.root] = M
      BY <1>2 DEF Linked
    <3>2. sys = t.root => D[sys] \subseteq D[c]
      BY <1>2, <2>4, <2>6, Inside
    <3> QED BY <2>4, <3>1, <3>2
  <2> DEFINE sig == [n \in Nodes |-> Sigma(item, sys, n)]
  <2>8. Renamed(t, u, sig) /\ u.numElements = t.numElements
    BY <2>2, <2>4, <2>6, <2>7, SwapRenamed
  <2>9. Renames(sig, M)
    BY <2>4, <2>6, SigmaRenames
  <2>10. OrderedBut(u, RenamedBelow(D, sig), M, d, item)
    BY <1>2, <2>1, <2>4, <2>5, <2>8, SwappedOrdered DEF c
  <2>11. sig[item] = sys /\ sig[NULL] = NULL /\ \A n \in Items \ M : sig[n] = n
    BY <2>4, <2>6, TreeAssumption DEF Sigma, Nodes
  <2> HIDE DEF sig
  <2>12. Linked(u, RenamedBelow(D, sig), M)
    BY <1>2, <2>8, <2>9, RenamedLinked
  <2>13. Fits(u, RenamedHeights(H, sig), M, {})
    BY <1>2, <2>8, <2>9, RenamedFits
  <2>14. \A n \in Items, s \in Sides : u.child[n][s] = sig[t.child[sig[n]][s]]
    BY <2>8 DEF Renamed
  <2>15. u.child[item][-side] = NULL
    BY <2>1, <2>4, <2>6, <2>11, <2>14
  <2>16. Idle(u, M)
    <3> SUFFICES ASSUME NEW n \in Items \ M, NEW s \in Sides PROVE u.child[n][s] = NULL
      BY DEF Idle
    <3>1. t.child[n][s] = NULL
      BY <1>2 DEF Idle
    <3> QED BY <2>11, <2>14, <3>1
  <2>17. u.numElements = Cardinality(M)
    BY <1>2, <2>8
  <2> QED BY <1>2, <1>3, <2>1, <2>10, <2>12, <2>13, <2>15, <2>16, <2>17, TakeOutHolds
<1> QED BY <1>4, <1>5

-----------------------------------------------------------------------------
(* The nodes from left to right                                            *)

\* z is x, n and y, one after the other.
Joins(z, x, n, y) ==
    /\ Len(z) = Len(x) + 1 + Len(y) /\ z[Len(x) + 1] = n
    /\ \A i \in 1..Len(x) : z[i] = x[i]
    /\ \A i \in 1..Len(y) : z[Len(x) + 1 + i] = y[i]
    /\ \A i \in 1..Len(z) : \/ i \in 1..Len(x)
                            \/ i = Len(x) + 1
                            \/ i - Len(x) - 1 \in 1..Len(y) /\ z[i] = y[i - Len(x) - 1]

LEMMA Joined ==
    ASSUME NEW V, NEW x \in Seq(V), NEW y \in Seq(V), NEW n \in V, NEW z, z = x \o << n >> \o y
    PROVE  z \in Seq(V) /\ Joins(z, x, n, y)
<1> DEFINE w == x \o << n >>
<1>1. /\ w \in Seq(V) /\ Len(w) = Len(x) + 1 /\ w[Len(x) + 1] = n /\ \A i \in 1..Len(x) : w[i] = x[i]
  OBVIOUS
<1>2. z = w \o y
  OBVIOUS
<1> HIDE DEF w
<1>3. /\ z \in Seq(V) /\ Len(z) = Len(w) + Len(y)
      /\ \A i \in 1..Len(w) : z[i] = w[i]
      /\ \A i \in 1..Len(y) : z[Len(w) + i] = y[i]
  BY <1>1, <1>2
<1>4. Len(x) \in Nat /\ Len(y) \in Nat /\ Len(z) = Len(x) + 1 + Len(y)
  BY <1>1, <1>3
<1>5. z[Len(x) + 1] = n
  BY <1>1, <1>3, <1>4
<1>6. \A i \in 1..Len(x) : z[i] = x[i]
  BY <1>1, <1>3, <1>4
<1>7. \A i \in 1..Len(y) : z[Len(x) + 1 + i] = y[i]
  BY <1>1, <1>3
<1>8. ASSUME NEW i \in 1..Len(z)
      PROVE  \/ i \in 1..Len(x)
             \/ i = Len(x) + 1
             \/ i - Len(x) - 1 \in 1..Len(y) /\ z[i] = y[i - Len(x) - 1]
  <2> SUFFICES ASSUME i > Len(x) + 1 PROVE i - Len(x) - 1 \in 1..Len(y) /\ z[i] = y[i - Len(x) - 1]
    BY <1>4
  <2> DEFINE j == i - Len(x) - 1
  <2>1. j \in 1..Len(y) /\ i = Len(x) + 1 + j
    BY <1>4
  <2> HIDE DEF j
  <2>2. z[i] = y[j]
    BY <1>7, <2>1
  <2> QED BY <2>1, <2>2 DEF j
<1> QED BY <1>3, <1>4, <1>5, <1>6, <1>7, <1>8 DEF Joins

\* The sequence q holds the set S, each element once and in order.
Lists(q, S, d) ==
    /\ q \in Seq(Items) /\ ToSet(q) = S /\ Len(q) = Cardinality(S)
    /\ \A i, j \in 1..Len(q) : i < j => q[i] # q[j] /\ Before(d, q[i], q[j])

LEMMA ListsJoined ==
    ASSUME NEW d \in BOOLEAN, NEW A \in SUBSET Items, NEW B \in SUBSET Items, NEW n \in Items,
           n \notin A, n \notin B, A \cap B = {},
           \A m \in A : Before(d, m, n), \A m \in B : Before(d, n, m),
           NEW x, Lists(x, A, d), NEW y, Lists(y, B, d), NEW z, z = x \o << n >> \o y
    PROVE  Lists(z, {n} \cup A \cup B, d)
<1>1. /\ x \in Seq(Items) /\ ToSet(x) = A /\ Len(x) = Cardinality(A)
      /\ y \in Seq(Items) /\ ToSet(y) = B /\ Len(y) = Cardinality(B)
      /\ \A i, j \in 1..Len(x) : i < j => x[i] # x[j] /\ Before(d, x[i], x[j])
      /\ \A i, j \in 1..Len(y) : i < j => y[i] # y[j] /\ Before(d, y[i], y[j])
  BY DEF Lists
<1>2. /\ z \in Seq(Items) /\ Len(z) = Len(x) + 1 + Len(y) /\ z[Len(x) + 1] = n
      /\ \A i \in 1..Len(x) : z[i] = x[i]
      /\ \A i \in 1..Len(y) : z[Len(x) + 1 + i] = y[i]
      /\ \A i \in 1..Len(z) : \/ i \in 1..Len(x)
                              \/ i = Len(x) + 1
                              \/ i - Len(x) - 1 \in 1..Len(y) /\ z[i] = y[i - Len(x) - 1]
  <2>1. z \in Seq(Items) /\ Joins(z, x, n, y)
    BY <1>1, Joined
  <2> QED BY <2>1 DEF Joins
<1>3. Len(x) \in Nat /\ Len(y) \in Nat /\ DOMAIN x = 1..Len(x) /\ DOMAIN y = 1..Len(y) /\ DOMAIN z = 1..Len(z)
  <2>1. DOMAIN x = 1..Len(x) /\ Len(x) \in Nat
    BY <1>1
  <2>2. DOMAIN y = 1..Len(y) /\ Len(y) \in Nat
    BY <1>1
  <2>3. DOMAIN z = 1..Len(z)
    BY <1>2
  <2> QED BY <2>1, <2>2, <2>3
<1>30. /\ A = {x[i] : i \in 1..Len(x)} /\ B = {y[i] : i \in 1..Len(y)}
       /\ ToSet(z) = {z[i] : i \in 1..Len(z)}
  BY <1>1, <1>3 DEF ToSet
<1>4. (\A i \in 1..Len(x) : x[i] \in A) /\ (\A i \in 1..Len(y) : y[i] \in B)
  BY <1>30
<1>5. ToSet(z) = {n} \cup A \cup B
  <2>1. ASSUME NEW i \in 1..Len(z) PROVE z[i] \in {n} \cup A \cup B
    BY <1>2, <1>4
  <2>2. ASSUME NEW m \in A PROVE \E i \in 1..Len(z) : z[i] = m
    <3>1. PICK i \in 1..Len(x) : x[i] = m
      BY <1>30
    <3> QED BY <1>2, <1>3, <3>1
  <2>3. ASSUME NEW m \in B PROVE \E i \in 1..Len(z) : z[i] = m
    <3>1. PICK i \in 1..Len(y) : y[i] = m
      BY <1>30
    <3>2. Len(x) + 1 + i \in 1..Len(z) /\ z[Len(x) + 1 + i] = m
      BY <1>2, <1>3, <3>1
    <3> QED BY <3>2
  <2>4. Len(x) + 1 \in 1..Len(z) /\ z[Len(x) + 1] = n
    BY <1>2, <1>3
  <2>5. ASSUME NEW m PROVE m \in ToSet(z) <=> \E i \in 1..Len(z) : z[i] = m
    BY <1>30
  <2>6. ASSUME NEW m PROVE m \in {n} \cup A \cup B <=> \E i \in 1..Len(z) : z[i] = m
    <3>1. m = n => \E i \in 1..Len(z) : z[i] = m
      BY <2>4
    <3>2. m \in {n} \cup A \cup B => \E i \in 1..Len(z) : z[i] = m
      BY <2>2, <2>3, <3>1
    <3>3. (\E i \in 1..Len(z) : z[i] = m) => m \in {n} \cup A \cup B
      BY <2>1
    <3> QED BY <3>2, <3>3
  <2>7. \A m : m \in ToSet(z) <=> m \in {n} \cup A \cup B
    BY <2>5, <2>6

  <2> QED BY <2>7
<1>6. Cardinality({n} \cup A \cup B) = Len(z)
  <2>1. IsFiniteSet(A) /\ IsFiniteSet(B)
    BY TreeAssumption, FS_Subset
  <2>2. IsFiniteSet(A \cup B) /\ Cardinality(A \cup B) = Cardinality(A) + Cardinality(B) - Cardinality(A \cap B)
    BY <2>1, FS_Union
  <2>3. Cardinality(A \cap B) = 0
    BY FS_EmptySet
  <2>4. Cardinality((A \cup B) \cup {n}) = Cardinality(A \cup B) + 1
    BY <2>2, FS_AddElement
  <2>5. {n} \cup A \cup B = (A \cup B) \cup {n}
    OBVIOUS
  <2>6. Cardinality(A) \in Nat /\ Cardinality(B) \in Nat
    BY <2>1, FS_CardinalityType
  <2>7. Cardinality(A \cup B) = Cardinality(A) + Cardinality(B)
    BY <2>2, <2>3, <2>6
  <2>8. Cardinality({n} \cup A \cup B) = Cardinality(A) + Cardinality(B) + 1
    BY <2>4, <2>5, <2>7
  <2>9. Len(z) = Cardinality(A) + 1 + Cardinality(B)
    BY <1>1, <1>2
  <2> QED BY <2>6, <2>8, <2>9
<1>7. \A l \in A, h \in B : Before(d, l, h)
  <2> TAKE l \in A, h \in B
  <2>1. l.key \in Int /\ h.key \in Int /\ n.key \in Int
    BY TreeAssumption
  <2>2. Before(d, l, n) /\ Before(d, n, h)
    OBVIOUS
  <2> QED BY <2>1, <2>2 DEF Before
<1>8. ASSUME NEW i \in 1..Len(z), NEW j \in 1..Len(z), i < j
      PROVE  z[i] # z[j] /\ Before(d, z[i], z[j])
  <2>0. \/ i \in 1..Len(x)
        \/ i = Len(x) + 1
        \/ i - Len(x) - 1 \in 1..Len(y) /\ z[i] = y[i - Len(x) - 1]
    BY <1>2
  <2>00. \/ j \in 1..Len(x)
         \/ j = Len(x) + 1
         \/ j - Len(x) - 1 \in 1..Len(y) /\ z[j] = y[j - Len(x) - 1]
    BY <1>2
  <2>1. CASE i \in 1..Len(x)
    <3>1. z[i] = x[i] /\ x[i] \in A
      BY <1>2, <1>4, <2>1
    <3>2. CASE j \in 1..Len(x)
      BY <1>1, <1>2, <1>8, <2>1, <3>2
    <3>3. CASE j = Len(x) + 1
      BY <1>2, <3>1, <3>3
    <3>4. CASE j - Len(x) - 1 \in 1..Len(y) /\ z[j] = y[j - Len(x) - 1]
      BY <1>4, <1>7, <3>1, <3>4
    <3> QED BY <2>00, <3>2, <3>3, <3>4
  <2>2. CASE i = Len(x) + 1
    <3>1. j - Len(x) - 1 \in 1..Len(y) /\ z[j] = y[j - Len(x) - 1]
      BY <1>3, <1>8, <2>00, <2>2
    <3> QED BY <1>2, <1>4, <2>2, <3>1
  <2>3. CASE i - Len(x) - 1 \in 1..Len(y) /\ z[i] = y[i - Len(x) - 1]
    <3>1. j - Len(x) - 1 \in 1..Len(y) /\ z[j] = y[j - Len(x) - 1]
      BY <1>3, <1>8, <2>00, <2>3
    <3>2. i - Len(x) - 1 < j - Len(x) - 1
      BY <1>3, <1>8
    <3> QED BY <1>1, <2>3, <3>1, <3>2
  <2> QED BY <2>0, <2>1, <2>2, <2>3
<1> QED BY <1>2, <1>5, <1>6, <1>8 DEF Lists

LEMMA InOrderUnfolds ==
    ASSUME NEW R, Ranked(tree.child, R)
    PROVE  /\ InOrder[NULL] = << >>
           /\ \A n \in Items : InOrder[n] = InOrder[tree.child[n][-1]] \o << n >> \o InOrder[tree.child[n][1]]
<1> DEFINE IsOrder(f) == f = [n \in Nodes |-> IF n = NULL THEN << >>
                                              ELSE f[tree.child[n][-1]] \o << n >> \o f[tree.child[n][1]]]
           order == CHOOSE f : IsOrder(f)
<1>1. NULL \in Nodes /\ NULL \notin Items
  BY TreeAssumption DEF Nodes
<1>2. \E f : IsOrder(f)
  <2> DEFINE g == [q \in Items \X Seq(Items) \X Seq(Items) |-> q[2] \o << q[1] >> \o q[3]]
  <2>1. \A n \in Items, x, y \in Seq(Items) : g[<< n, x, y >>] = x \o << n >> \o y
    OBVIOUS
  <2>2. Combines(g, Seq(Items))
    <3> HIDE DEF g
    <3>1. ASSUME NEW n \in Items, NEW x \in Seq(Items), NEW y \in Seq(Items) PROVE g[<< n, x, y >>] \in Seq(Items)
      <4>1. x \o << n >> \in Seq(Items)
        OBVIOUS
      <4>2. (x \o << n >>) \o y \in Seq(Items)
        BY <4>1
      <4> QED BY <2>1, <4>2
    <3> QED BY <3>1 DEF Combines
  <2> HIDE DEF g
  <2>3. PICK f : Unfolds(f, tree.child, Seq(Items), << >>, g)
    <3>1. << >> \in Seq(Items)
      OBVIOUS
    <3> QED BY <1>1, <2>2, <3>1, TreeFunction
  <2>4. /\ f \in [Nodes -> Seq(Items)]
        /\ f[NULL] = << >> /\ \A n \in Items : f[n] = g[<< n, f[tree.child[n][-1]], f[tree.child[n][1]] >>]
    BY <2>3 DEF Unfolds
  <2>5. ASSUME NEW n \in Items PROVE f[n] = f[tree.child[n][-1]] \o << n >> \o f[tree.child[n][1]]
    <3>1. tree.child[n][-1] \in Nodes /\ tree.child[n][1] \in Nodes
      BY DEF Ranked, Sides
    <3>2. f[tree.child[n][-1]] \in Seq(Items) /\ f[tree.child[n][1]] \in Seq(Items)
      BY <2>4, <3>1
    <3> QED BY <2>1, <2>4, <3>2
  <2>6. f = [n \in Nodes |-> f[n]]
    BY <2>4
  <2>7. \A n \in Nodes : f[n] = IF n = NULL THEN << >> ELSE f[tree.child[n][-1]] \o << n >> \o f[tree.child[n][1]]
    BY <2>4, <2>5 DEF Nodes
  <2>8. IsOrder(f)
    BY <2>6, <2>7
  <2> HIDE DEF IsOrder
  <2> QED BY <2>8
<1>3. IsOrder(order)
  <2> HIDE DEF IsOrder
  <2> QED BY <1>2
<1>4. InOrder = order
  BY DEF InOrder
<1>5. \A n \in Nodes : order[n] = IF n = NULL THEN << >>
                                  ELSE order[tree.child[n][-1]] \o << n >> \o order[tree.child[n][1]]
  <2> HIDE DEF order
  <2> QED BY <1>3
<1> HIDE DEF order, IsOrder
<1> QED BY <1>1, <1>4, <1>5 DEF Nodes

\* The order of a subtree lists the nodes below.
LEMMA InOrderLists ==
    ASSUME NEW D, NEW M, Linked(tree, D, M), Idle(tree, M), NEW d \in BOOLEAN, Ordered(tree, D, M, d)
    PROVE  \A n \in M \cup {NULL} : Lists(InOrder[n], D[n], d)
<1>1. PICK R : Ranked(tree.child, R)
  BY TreeRanked
<1>2. /\ InOrder[NULL] = << >>
      /\ \A n \in Items : InOrder[n] = InOrder[tree.child[n][-1]] \o << n >> \o InOrder[tree.child[n][1]]
  BY <1>1, InOrderUnfolds
<1>3. NULL \notin Items /\ D[NULL] = {} /\ M \subseteq Items
  BY TreeAssumption DEF Linked
<1> DEFINE S == {n \in Nodes : Lists(InOrder[n], D[n], d)}
<1>4. NULL \in S
  <2>1. InOrder[NULL] \in Seq(Items) /\ Len(InOrder[NULL]) = 0 /\ DOMAIN InOrder[NULL] = {}
    BY SMTT(30), <1>2, EmptySeq
  <2>2. ToSet(InOrder[NULL]) = {} /\ Cardinality({}) = 0
    BY <2>1, FS_EmptySet DEF ToSet
  <2>3. \A i, j \in 1..Len(InOrder[NULL]) : FALSE
    BY <2>1
  <2>4. Lists(InOrder[NULL], {}, d)
    BY <2>1, <2>2, <2>3 DEF Lists
  <2> QED BY <1>3, <2>4 DEF Nodes
<1>5. ASSUME NEW n \in M, tree.child[n][-1] \in S, tree.child[n][1] \in S PROVE n \in S
  <2> DEFINE l == tree.child[n][-1]
             h == tree.child[n][1]
  <2>1. /\ n \in Items /\ D[n] \subseteq M /\ D[n] = {n} \cup D[l] \cup D[h]
        /\ n \notin D[l] /\ n \notin D[h] /\ D[l] \cap D[h] = {}
    BY SMTT(30), Parts, -1 \in Sides DEF Sides
  <2>2. (\A m \in D[l] : OnSide(d, -1, m, n)) /\ (\A m \in D[h] : OnSide(d, 1, m, n))
    BY DEF Ordered, Sides
  <2>3. Lists(InOrder[l], D[l], d) /\ Lists(InOrder[h], D[h], d)
    BY <1>5
  <2>4. InOrder[n] = InOrder[l] \o << n >> \o InOrder[h]
    BY <1>2, <2>1
  <2> HIDE DEF l, h
  <2>5. (\A m \in D[l] : Before(d, m, n)) /\ (\A m \in D[h] : Before(d, n, m))
    BY <2>2 DEF OnSide
  <2>6. D[l] \in SUBSET Items /\ D[h] \in SUBSET Items
    BY <1>3, <2>1
  <2>7. Lists(InOrder[n], {n} \cup D[l] \cup D[h], d)
    BY <2>1, <2>3, <2>4, <2>5, <2>6, ListsJoined
  <2> QED BY <2>1, <2>7 DEF Nodes
<1> HIDE DEF S
<1>6. M \subseteq S
  BY <1>4, <1>5, TreeInduction
<1> QED BY <1>4, <1>6 DEF S

-----------------------------------------------------------------------------
(* The heights                                                             *)

LEMMA MaxOfTwo ==
    ASSUME NEW x \in Int, NEW y \in Int
    PROVE  Max({x, y}) = Higher(x, y) /\ Higher(x, y) \in Int
<1> DEFINE IsMax(m) == m \in {x, y} /\ \A k \in {x, y} : m >= k
<1>1. Max({x, y}) = CHOOSE m \in {x, y} : \A k \in {x, y} : m >= k
  BY DEF Max
<1>2. IsMax(Higher(x, y)) /\ Higher(x, y) \in Int
  BY DEF Higher
<1>3. IsMax(Max({x, y}))
  BY <1>1, <1>2
<1>4. \A m : IsMax(m) => m = Higher(x, y)
  BY DEF Higher
<1> QED BY <1>2, <1>3, <1>4

LEMMA BalancedHeightUnfolds ==
    ASSUME NEW R, Ranked(tree.child, R), tree.balance \in [Items -> Int]
    PROVE  /\ BalancedHeight[NULL] = 0
           /\ \A n \in Items :
                 BalancedHeight[n] =
                    LET left  == BalancedHeight[tree.child[n][-1]]
                        right == BalancedHeight[tree.child[n][1]]
                    IN  IF -1 \in {left, right} \/ tree.balance[n] # right - left \/ tree.balance[n] \notin -1..1
                        THEN -1 ELSE 1 + Max({left, right})
<1> DEFINE value(n, left, right) ==
              IF -1 \in {left, right} \/ tree.balance[n] # right - left \/ tree.balance[n] \notin -1..1
              THEN -1 ELSE 1 + Max({left, right})
           IsHeight(f) == f = [n \in Nodes |-> IF n = NULL THEN 0
                                               ELSE value(n, f[tree.child[n][-1]], f[tree.child[n][1]])]
           height == CHOOSE f : IsHeight(f)
<1>1. NULL \in Nodes /\ NULL \notin Items
  BY TreeAssumption DEF Nodes
<1>2. BalancedHeight = height
  BY DEF BalancedHeight
<1>3. \A n \in Items, x, y \in Int : value(n, x, y) \in Int
  <2> TAKE n \in Items, x, y \in Int
  <2>1. Max({x, y}) \in Int
    BY MaxOfTwo
  <2> QED BY <2>1
<1> HIDE DEF value
<1>4. \E f : IsHeight(f)
  <2> DEFINE g == [q \in Items \X Int \X Int |-> value(q[1], q[2], q[3])]
  <2>1. \A n \in Items, x, y \in Int : g[<< n, x, y >>] = value(n, x, y)
    OBVIOUS
  <2> HIDE DEF g
  <2>2. Combines(g, Int)
    BY <1>3, <2>1 DEF Combines
  <2>3. PICK f : Unfolds(f, tree.child, Int, 0, g)
    <3>1. 0 \in Int
      OBVIOUS
    <3> QED BY <1>1, <2>2, <3>1, TreeFunction
  <2>4. /\ f \in [Nodes -> Int]
        /\ f[NULL] = 0 /\ \A n \in Items : f[n] = g[<< n, f[tree.child[n][-1]], f[tree.child[n][1]] >>]
    BY <2>3 DEF Unfolds
  <2>5. ASSUME NEW n \in Items PROVE f[n] = value(n, f[tree.child[n][-1]], f[tree.child[n][1]])
    <3>1. tree.child[n][-1] \in Nodes /\ tree.child[n][1] \in Nodes
      BY DEF Ranked, Sides
    <3>2. f[tree.child[n][-1]] \in Int /\ f[tree.child[n][1]] \in Int
      BY <2>4, <3>1
    <3> QED BY <2>1, <2>4, <3>2
  <2>6. f = [n \in Nodes |-> f[n]]
    BY <2>4
  <2>7. \A n \in Nodes : f[n] = IF n = NULL THEN 0 ELSE value(n, f[tree.child[n][-1]], f[tree.child[n][1]])
    BY <2>4, <2>5 DEF Nodes
  <2>8. IsHeight(f)
    BY <2>6, <2>7
  <2> HIDE DEF IsHeight
  <2> QED BY <2>8
<1>5. IsHeight(height)
  <2> HIDE DEF IsHeight
  <2> QED BY <1>4
<1>6. \A n \in Nodes : height[n] = IF n = NULL THEN 0 ELSE value(n, height[tree.child[n][-1]], height[tree.child[n][1]])
  <2> HIDE DEF height
  <2> QED BY <1>5
<1> HIDE DEF height, IsHeight
<1> QED BY <1>1, <1>2, <1>6 DEF Nodes, value

\* The heights that are measured are those that the balances keep.
LEMMA BalancedHeightRight ==
    ASSUME NEW D, NEW M, Linked(tree, D, M), Idle(tree, M), NEW H, Fits(tree, H, M, {})
    PROVE  \A n \in M \cup {NULL} : BalancedHeight[n] = H[n] /\ H[n] \in Nat
<1>1. PICK R : Ranked(tree.child, R)
  BY TreeRanked
<1>2. tree.balance \in [Items -> Int] /\ M \subseteq Items /\ NULL \in Nodes /\ Items \subseteq Nodes
  BY DEF Linked, Shapes, Nodes
<1>3. BalancedHeight[NULL] = 0 /\ H[NULL] = 0 /\ H \in [Nodes -> Nat]
  BY <1>1, <1>2, BalancedHeightUnfolds DEF Fits
<1> DEFINE S == {n \in Nodes : BalancedHeight[n] = H[n]}
<1>4. ASSUME NEW n \in M, tree.child[n][-1] \in S, tree.child[n][1] \in S PROVE n \in S
  <2> DEFINE l == H[tree.child[n][-1]]
             h == H[tree.child[n][1]]
  <2>1. n \in Items /\ n \in Nodes
    BY <1>2
  <2>2. BalancedHeight[tree.child[n][-1]] = l /\ BalancedHeight[tree.child[n][1]] = h
    BY <1>4
  <2>3. l \in Nat /\ h \in Nat
    BY <1>3, <1>4
  <2>4. BalancedHeight[n] = IF -1 \in {l, h} \/ tree.balance[n] # h - l \/ tree.balance[n] \notin -1..1
                            THEN -1 ELSE 1 + Max({l, h})
    BY <1>1, <1>2, <2>1, <2>2, BalancedHeightUnfolds
  <2>5. Tilts(tree, H, n) /\ Level(tree, H, n)
    BY DEF Fits
  <2>6. tree.balance[n] = h - l /\ tree.balance[n] \in {-1, 0, 1}
    BY <2>5 DEF Tilts, Level
  <2>7. H[n] > l /\ H[n] > h /\ (H[n] = 1 + l \/ H[n] = 1 + h) /\ H[n] \in Nat
    <3>1. \A s \in Sides : s = 1 \/ s = -1
      BY DEF Sides
    <3>2. 1 \in Sides /\ -1 \in Sides
      BY DEF Sides
    <3> QED BY <1>3, <2>1, <2>5, <3>1, <3>2 DEF Level, Stands
  <2> HIDE DEF l, h
  <2>8. BalancedHeight[n] = 1 + Higher(l, h)
    <3>1. Max({l, h}) = Higher(l, h)
      BY <2>3, MaxOfTwo
    <3> QED BY <2>3, <2>4, <2>6, <3>1
  <2> QED BY <2>1, <2>3, <2>7, <2>8 DEF Higher
<1>5. NULL \in S
  BY <1>2, <1>3
<1> HIDE DEF S
<1>6. M \subseteq S
  BY <1>4, <1>5, TreeInduction
<1> QED BY <1>2, <1>3, <1>5, <1>6 DEF S

-----------------------------------------------------------------------------
(* The specification                                                       *)

TreeInv == Holds(tree, members, dupes)

LEMMA EmptyHolds == ASSUME NEW d \in BOOLEAN PROVE Holds(EmptyTree, {}, d)
<1> DEFINE D == [n \in Nodes |-> {}]
           H == [n \in Nodes |-> 0]
<1>1. /\ EmptyTree \in Shapes /\ EmptyTree.root = NULL /\ EmptyTree.numElements = 0
      /\ \A n \in Items, s \in Sides : EmptyTree.child[n][s] = NULL
  BY DEF EmptyTree, Shapes, Nodes
<1>2. D \in [Nodes -> SUBSET Items] /\ D[NULL] = {} /\ H \in [Nodes -> Nat] /\ H[NULL] = 0
  BY DEF Nodes
<1> HIDE DEF D, H
<1>3. Linked(EmptyTree, D, {}) /\ Ordered(EmptyTree, D, {}, d) /\ Fits(EmptyTree, H, {}, {})
  BY <1>1, <1>2 DEF Linked, Ordered, Fits
<1>4. Cardinality({}) = 0
  BY FS_EmptySet
<1> QED BY <1>1, <1>3, <1>4 DEF Holds, AVL, Idle

LEMMA AddKeeps ==
    ASSUME TreeInv, NEW item \in Items, Add(item)
    PROVE  TreeInv'
<1>1. CASE UNCHANGED <<tree, members>>
  BY <1>1 DEF TreeInv, Add
<1>2. CASE /\ ~(~dupes /\ findNode(tree, item.key) # NULL)
           /\ tree' = addNode(tree, item) /\ members' = members \cup {item} /\ item \notin members
  <2>1. dupes \/ \A m \in members : m.key # item.key
    <3>1. PICK D, H : AVL(tree, D, H, members, dupes, {})
      BY DEF TreeInv, Holds
    <3>2. Linked(tree, D, members) /\ Idle(tree, members) /\ Ordered(tree, D, members, dupes) /\ dupes \in BOOLEAN
      BY <3>1 DEF TreeInv, Holds, AVL
    <3>3. item.key \in Int
      BY TreeAssumption
    <3>4. findNode(tree, item.key) = NULL => \A m \in members : m.key # item.key
      BY <3>2, <3>3, findNodeFinds
    <3> QED BY <1>2, <3>4
  <2>2. Holds(addNode(tree, item), members \cup {item}, dupes)
    BY <1>2, <2>1, addNodeHolds DEF TreeInv
  <2> QED BY <1>2, <2>2 DEF TreeInv, Add
<1> QED BY <1>1, <1>2 DEF Add

LEMMA EraseKeeps ==
    ASSUME TreeInv, NEW key \in Int, EraseItem(key)
    PROVE  TreeInv'
<1> DEFINE found == findNode(tree, key)
<1>1. PICK D, H : AVL(tree, D, H, members, dupes, {})
  BY DEF TreeInv, Holds
<1>2. Linked(tree, D, members) /\ Idle(tree, members) /\ Ordered(tree, D, members, dupes) /\ dupes \in BOOLEAN
  BY <1>1 DEF TreeInv, Holds, AVL
<1>3. found # NULL /\ tree' = Freed(eraseNode(tree, found), found) /\ members' = members \ {found} /\ dupes' = dupes
  BY DEF EraseItem
<1>4. found \in members
  BY <1>2, <1>3, findNodeFinds
<1> HIDE DEF found
<1>5. Holds(Freed(eraseNode(tree, found), found), members \ {found}, dupes)
  BY <1>4, eraseNodeHolds DEF TreeInv
<1> QED BY <1>3, <1>5 DEF TreeInv

\* The invariant of the tree: its nodes are the members, linked to each other
\* both ways and in order, its balances are right, and no other node has a child.
THEOREM TreeInvariant == TreeSpec => []TreeInv
<1>1. TreeInit => TreeInv
  BY EmptyHolds DEF TreeInit, TreeInv
<1>2. TreeInv /\ [TreeNext]_treevars => TreeInv'
  <2> SUFFICES ASSUME TreeInv, [TreeNext]_treevars PROVE TreeInv'
    OBVIOUS
  <2>1. ASSUME NEW item \in Items, Add(item) PROVE TreeInv'
    BY <2>1, AddKeeps
  <2>2. ASSUME NEW item \in Items, EraseItem(item.key) PROVE TreeInv'
    BY <2>2, TreeAssumption, EraseKeeps
  <2>3. ASSUME ClearTree PROVE TreeInv'
    <3>1. dupes \in BOOLEAN
      BY DEF TreeInv, Holds, AVL
    <3>2. Holds(EmptyTree, {}, dupes)
      BY <3>1, EmptyHolds
    <3> QED BY <2>3, <3>2 DEF ClearTree, TreeInv
  <2>4. ASSUME NEW s \in Sides, Move(s) PROVE TreeInv'
    BY <2>4 DEF Move, TreeInv
  <2>5. CASE UNCHANGED treevars
    BY <2>5 DEF treevars, TreeInv
  <2> QED BY <2>1, <2>2, <2>3, <2>4, <2>5 DEF TreeNext
<1> QED BY <1>1, <1>2, PTL DEF TreeSpec

\* The tree holds exactly the members, each once, in the order of their keys, and
\* count() is their number, whatever was added and erased before.
THEOREM TreeHoldsMembers == TreeSpec => []HoldsMembers
<1>1. TreeInv => HoldsMembers
  <2> SUFFICES ASSUME TreeInv PROVE HoldsMembers
    OBVIOUS
  <2>1. PICK D, H : AVL(tree, D, H, members, dupes, {})
    BY DEF TreeInv, Holds
  <2>2. /\ Linked(tree, D, members) /\ Idle(tree, members) /\ Ordered(tree, D, members, dupes) /\ dupes \in BOOLEAN
        /\ tree.numElements = Cardinality(members)
    BY <2>1 DEF TreeInv, Holds, AVL
  <2>3. tree.root \in members \cup {NULL} /\ D[tree.root] = members
    BY <2>2 DEF Linked
  <2>4. Lists(TreeContents, members, dupes)
    BY <2>2, <2>3, InOrderLists DEF TreeContents
  <2>5. /\ TreeContents \in Seq(Items) /\ ToSet(TreeContents) = members /\ Len(TreeContents) = Cardinality(members)
        /\ \A i, j \in 1..Len(TreeContents) : i < j => Before(dupes, TreeContents[i], TreeContents[j])
    BY <2>4 DEF Lists
  <2>6. ASSUME NEW i \in 1..(Len(TreeContents) - 1)
        PROVE  IF dupes THEN TreeContents[i].key <= TreeContents[i + 1].key
               ELSE TreeContents[i].key < TreeContents[i + 1].key
    <3>1. i \in 1..Len(TreeContents) /\ i + 1 \in 1..Len(TreeContents) /\ i < i + 1
      BY <2>5
    <3> QED BY <2>5, <3>1 DEF Before
  <2> QED BY <2>2, <2>5, <2>6 DEF HoldsMembers
<1> QED BY <1>1, TreeInvariant, PTL

\* No two subtrees of a node differ by more than one in their heights, the
\* balances say by how much, and every pointer up leads to the node from which a
\* pointer leads down.
THEOREM TreeIsBalanced == TreeSpec => []Balanced
<1>1. TreeInv => Balanced
  <2> SUFFICES ASSUME TreeInv PROVE Balanced
    OBVIOUS
  <2>1. PICK D, H : AVL(tree, D, H, members, dupes, {})
    BY DEF TreeInv, Holds
  <2>2. Linked(tree, D, members) /\ Idle(tree, members) /\ Fits(tree, H, members, {})
    BY <2>1 DEF TreeInv, Holds, AVL
  <2>3. tree.root \in members \cup {NULL} /\ (tree.root # NULL => tree.parent[tree.root] = NULL)
    BY <2>2 DEF Linked
  <2>4. BalancedHeight[tree.root] \in Nat
    BY <2>2, <2>3, BalancedHeightRight
  <2>5. \A n \in members, s \in Sides : tree.child[n][s] # NULL => tree.parent[tree.child[n][s]] = n
    BY <2>2 DEF Linked
  <2> QED BY <2>3, <2>4, <2>5 DEF Balanced
<1> QED BY <1>1, TreeInvariant, PTL

-----------------------------------------------------------------------------
(* Steps of an iterator                                                    *)

\* In the sequence q, b is next to a on side s; a is the last on that side.
Ahead(s, q, a, b) == \E i \in 1..Len(q) : i + s \in 1..Len(q) /\ q[i] = a /\ q[i + s] = b
End(s, q, a) == Len(q) # 0 /\ a = q[IF s = 1 THEN Len(q) ELSE 1]

\* The sequence p is the part of z on side s of n, and o the other one.
JoinsAhead(z, n, s, p, o) ==
    /\ Len(z) # 0
    /\ Len(p) = 0 => End(s, z, n)
    /\ \A a : End(s, p, a) => End(s, z, a)
    /\ \A a : End(-s, p, a) => Ahead(s, z, n, a)
    /\ \A a : End(s, o, a) => Ahead(s, z, a, n)
    /\ \A a, b : Ahead(s, p, a, b) \/ Ahead(s, o, a, b) => Ahead(s, z, a, b)

LEMMA JoinedAhead ==
    ASSUME NEW V, NEW x \in Seq(V), NEW y \in Seq(V), NEW n \in V, NEW z, z = x \o << n >> \o y,
           NEW s \in Sides
    PROVE  JoinsAhead(z, n, s, IF s = 1 THEN y ELSE x, IF s = 1 THEN x ELSE y)
<1> DEFINE l == Len(x)
           h == Len(y)
<1>1. z \in Seq(V) /\ Joins(z, x, n, y)
  BY Joined
<1>2. /\ Len(z) = l + 1 + h /\ z[l + 1] = n
      /\ \A i \in 1..l : z[i] = x[i]
      /\ \A i \in 1..h : z[l + 1 + i] = y[i]
  BY <1>1 DEF Joins
<1>3. l \in Nat /\ h \in Nat
  OBVIOUS
<1> HIDE DEF l, h
<1>4. ASSUME NEW a, NEW b, NEW r \in Sides, Ahead(r, x, a, b) PROVE Ahead(r, z, a, b)
  <2>1. PICK i \in 1..l : i + r \in 1..l /\ x[i] = a /\ x[i + r] = b
    BY <1>4 DEF Ahead, l
  <2>2. z[i] = a /\ z[i + r] = b
    BY <1>2, <2>1
  <2>3. i \in 1..Len(z) /\ i + r \in 1..Len(z)
    BY <1>2, <1>3, <2>1
  <2> QED BY <2>2, <2>3 DEF Ahead
<1>5. ASSUME NEW a, NEW b, NEW r \in Sides, Ahead(r, y, a, b) PROVE Ahead(r, z, a, b)
  <2>1. PICK i \in 1..h : i + r \in 1..h /\ y[i] = a /\ y[i + r] = b
    BY <1>5 DEF Ahead, h
  <2>2. r \in Int
    BY DEF Sides
  <2> DEFINE k == l + 1 + i
  <2>3. k + r = l + 1 + (i + r)
    BY <1>3, <2>1, <2>2
  <2>4. z[k] = a /\ z[k + r] = b
    BY <1>2, <2>1, <2>3
  <2>5. k \in 1..Len(z) /\ k + r \in 1..Len(z)
    BY SMTT(30), <1>2, <1>3, <2>1, <2>3
  <2> HIDE DEF k
  <2> QED BY <2>4, <2>5 DEF Ahead
<1>6. CASE s = 1
  <2>1. ASSUME h = 0 PROVE End(s, z, n)
    BY <1>2, <1>3, <1>6, <2>1 DEF End
  <2>2. ASSUME NEW a, End(s, y, a) PROVE End(s, z, a)
    <3>1. h # 0 /\ a = y[h]
      BY <1>6, <2>2 DEF End, h
    <3>2. z[Len(z)] = y[h] /\ Len(z) # 0
      BY SMTT(30), <1>2, <1>3, <3>1
    <3> QED BY <1>6, <3>1, <3>2 DEF End
  <2>3. ASSUME NEW a, End(-s, y, a) PROVE Ahead(s, z, n, a)
    <3>1. h # 0 /\ a = y[1]
      BY <1>6, <2>3 DEF End, h
    <3>2. z[l + 1 + 1] = a /\ z[l + 1] = n /\ l + 1 \in 1..Len(z) /\ l + 1 + 1 \in 1..Len(z)
      BY <1>2, <1>3, <3>1
    <3> QED BY <1>6, <3>2 DEF Ahead
  <2>4. ASSUME NEW a, End(s, x, a) PROVE Ahead(s, z, a, n)
    <3>1. l # 0 /\ a = x[l]
      BY <1>6, <2>4 DEF End, l
    <3>2. z[l] = a /\ z[l + 1] = n /\ l \in 1..Len(z) /\ l + 1 \in 1..Len(z)
      BY <1>2, <1>3, <3>1
    <3> QED BY <1>6, <3>2 DEF Ahead
  <2>5. Len(z) # 0
    BY <1>2, <1>3
  <2> QED BY <1>4, <1>5, <1>6, <2>1, <2>2, <2>3, <2>4, <2>5 DEF JoinsAhead, h
<1>7. CASE s = -1
  <2>0. s # 1 /\ -s = 1
    <3>1. -s \in Sides /\ -s # s
      BY DEF Sides
    <3> DEFINE r == -s
    <3>2. r \in Sides /\ r # s
      BY <3>1
    <3> HIDE DEF r
    <3>3. s # 1 /\ r = 1
      BY <1>7, <3>2 DEF Sides
    <3> QED BY <3>3 DEF r
  <2>1. ASSUME l = 0 PROVE End(s, z, n)
    BY <1>2, <1>3, <2>0, <2>1 DEF End
  <2>2. ASSUME NEW a, End(s, x, a) PROVE End(s, z, a)
    <3>1. l # 0 /\ a = x[1]
      BY <2>0, <2>2 DEF End, l
    <3>2. z[1] = a /\ Len(z) # 0
      BY <1>2, <1>3, <3>1
    <3> QED BY <2>0, <3>2 DEF End
  <2>3. ASSUME NEW a, End(-s, x, a) PROVE Ahead(s, z, n, a)
    <3>1. l # 0 /\ a = x[l]
      BY <2>0, <2>3 DEF End, l
    <3>2. z[l + 1 + s] = a /\ z[l + 1] = n /\ l + 1 \in 1..Len(z) /\ l + 1 + s \in 1..Len(z)
      <4>1. l + 1 + s = l
        BY <1>3, <1>7
      <4> QED BY SMTT(30), <1>2, <1>3, <3>1, <4>1
    <3> QED BY <3>2 DEF Ahead
  <2>4. ASSUME NEW a, End(s, y, a) PROVE Ahead(s, z, a, n)
    <3>1. h # 0 /\ a = y[1]
      BY <2>0, <2>4 DEF End, h
    <3> DEFINE k == l + 1 + 1
    <3>2. k + s = l + 1
      BY <1>3, <1>7
    <3>3. z[k] = a /\ z[k + s] = n /\ k \in 1..Len(z) /\ k + s \in 1..Len(z)
      BY <1>2, <1>3, <3>1, <3>2
    <3> HIDE DEF k
    <3> QED BY <3>3 DEF Ahead
  <2>5. Len(z) # 0
    BY <1>2, <1>3
  <2> QED BY <1>4, <1>5, <2>0, <2>1, <2>2, <2>3, <2>4, <2>5 DEF JoinsAhead, l
<1> QED BY <1>6, <1>7 DEF Sides

\* What is next to a node in the order of its subtree.
NodeAhead(n, s) ==
    /\ Len(InOrder[n]) # 0
    /\ tree.child[n][s] = NULL => End(s, InOrder[n], n)
    /\ \A a : End(s, InOrder[tree.child[n][s]], a) => End(s, InOrder[n], a)
    /\ \A a : End(-s, InOrder[tree.child[n][s]], a) => Ahead(s, InOrder[n], n, a)
    /\ \A a : End(s, InOrder[tree.child[n][-s]], a) => Ahead(s, InOrder[n], a, n)
    /\ \A r \in Sides : \A a, b : Ahead(s, InOrder[tree.child[n][r]], a, b) => Ahead(s, InOrder[n], a, b)

LEMMA NodesAhead ==
    ASSUME NEW D, NEW M, Linked(tree, D, M), Idle(tree, M), NEW d \in BOOLEAN, Ordered(tree, D, M, d),
           NEW n \in M, NEW s \in Sides
    PROVE  NodeAhead(n, s)
<1> DEFINE l == tree.child[n][-1]
           h == tree.child[n][1]
<1>1. PICK R : Ranked(tree.child, R)
  BY TreeRanked
<1>2. n \in Items /\ l \in M \cup {NULL} /\ h \in M \cup {NULL}
  BY Parts, -1 \in Sides DEF Sides
<1>3. InOrder[NULL] = << >> /\ InOrder[n] = InOrder[l] \o << n >> \o InOrder[h]
  BY <1>1, <1>2, InOrderUnfolds
<1>4. InOrder[l] \in Seq(Items) /\ InOrder[h] \in Seq(Items)
  <2>1. Lists(InOrder[l], D[l], d) /\ Lists(InOrder[h], D[h], d)
    BY <1>2, InOrderLists
  <2> QED BY <2>1 DEF Lists
<1>5. JoinsAhead(InOrder[n], n, s, IF s = 1 THEN InOrder[h] ELSE InOrder[l], IF s = 1 THEN InOrder[l] ELSE InOrder[h])
  <2> DEFINE x == InOrder[l]
             y == InOrder[h]
             z == InOrder[n]
  <2>1. x \in Seq(Items) /\ y \in Seq(Items) /\ z = x \o << n >> \o y
    BY <1>3, <1>4
  <2> HIDE DEF x, y, z
  <2>2. JoinsAhead(z, n, s, IF s = 1 THEN y ELSE x, IF s = 1 THEN x ELSE y)
    BY <1>2, <2>1, JoinedAhead
  <2> QED BY <2>2 DEF x, y, z
<1>6. /\ InOrder[tree.child[n][s]] = IF s = 1 THEN InOrder[h] ELSE InOrder[l]
      /\ InOrder[tree.child[n][-s]] = IF s = 1 THEN InOrder[l] ELSE InOrder[h]
  <2>1. CASE s = 1
    BY <2>1
  <2>2. CASE s = -1
    <3>1. -s \in Sides /\ -s # s
      BY DEF Sides
    <3> DEFINE r == -s
    <3>2. r \in Sides /\ r # s
      BY <3>1
    <3> HIDE DEF r
    <3>3. s # 1 /\ r = 1
      BY <2>2, <3>2 DEF Sides
    <3> QED BY <2>2, <3>3 DEF r
  <2> QED BY <2>1, <2>2 DEF Sides
<1>7. JoinsAhead(InOrder[n], n, s, InOrder[tree.child[n][s]], InOrder[tree.child[n][-s]])
  BY <1>5, <1>6
<1>8. tree.child[n][s] = NULL => Len(InOrder[tree.child[n][s]]) = 0
  <2>1. Len(<< >>) = 0
    BY EmptySeq
  <2> QED BY <1>3, <2>1
<1>9. \A r \in Sides : r = s \/ r = -s
  BY DEF Sides
<1> HIDE DEF l, h
<1> QED BY <1>7, <1>8, <1>9 DEF JoinsAhead, NodeAhead

\* What is next to a node below n is so in the order of n.
LEMMA AheadInside ==
    ASSUME NEW D, NEW M, Linked(tree, D, M), Idle(tree, M), NEW d \in BOOLEAN, Ordered(tree, D, M, d),
           NEW s \in Sides, NEW a, NEW b
    PROVE  \A n \in M : \A m \in D[n] : Ahead(s, InOrder[m], a, b) => Ahead(s, InOrder[n], a, b)
<1> DEFINE S == {n \in Nodes : \A m \in D[n] : Ahead(s, InOrder[m], a, b) => Ahead(s, InOrder[n], a, b)}
<1>1. NULL \in S
  BY DEF Linked, Nodes
<1>2. ASSUME NEW n \in M, tree.child[n][-1] \in S, tree.child[n][1] \in S PROVE n \in S
  <2>1. D[n] = {n} \cup D[tree.child[n][-1]] \cup D[tree.child[n][1]] /\ n \in Nodes
    BY Parts, -1 \in Sides DEF Sides, Nodes
  <2>2. NodeAhead(n, s)
    BY NodesAhead
  <2>3. \A r \in Sides : Ahead(s, InOrder[tree.child[n][r]], a, b) => Ahead(s, InOrder[n], a, b)
    BY <2>2 DEF NodeAhead
  <2>4. -1 \in Sides /\ 1 \in Sides
    BY DEF Sides
  <2> QED BY <1>2, <2>1, <2>3, <2>4
<1> HIDE DEF S
<1>3. M \subseteq S
  BY <1>1, <1>2, TreeInduction
<1> QED BY <1>3 DEF S

=============================================================================
