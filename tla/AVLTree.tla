------------------------------- MODULE AVLTree -------------------------------
(***************************************************************************)
(* ppl7::AVLTree, the balanced tree behind AssocArray, with the rotations  *)
(* of AVLTreeAlgorithm, and an iterator over it.                           *)
(*                                                                         *)
(* Left and right are the sides -1 and 1, which makes one of every pair of *)
(* mirrored branches.  The balance of a node is a counter that insertion   *)
(* and removal keep up to date, never a height that is measured.           *)
(*                                                                         *)
(* A loop that goes down the tree is a recursive function of the node that *)
(* it has reached, a chain of calls that goes up is one of the number of   *)
(* calls.  No way up is longer than the number of items; calls behind its  *)
(* end change nothing.                                                     *)
(***************************************************************************)
EXTENDS Integers, SequencesExt, FiniteSetsExt

CONSTANTS
    Items,   \* the nodes, records with a key and an id
    NULL,    \* no node
    MaxIterated  \* bound: the largest tree that iterators walk over

ASSUME TreeAssumption ==
    IsFiniteSet(Items) /\ NULL \notin Items /\ \A n \in Items : n.key \in Int

Sides == {-1, 1}
Nodes == Items \cup {NULL}

VARIABLES
    dupes,    \* allowDupes(): equal keys may be added
    tree,     \* child, parent and balance of every node, root, numElements
    it,       \* an Iterator: its current node and its stack of ancestors
    members   \* history: the items that were added and not erased

treevars == <<dupes, tree, it, members>>

AtStart == [current |-> NULL, stack |-> <<>>]

EmptyTree ==
    [child   |-> [n \in Items |-> [s \in Sides |-> NULL]],
     parent  |-> [n \in Items |-> NULL],
     balance |-> [n \in Items |-> 0],
     root    |-> NULL,
     numElements |-> 0]

\* allowDupes() is called before the first item is added.
TreeInit == dupes \in BOOLEAN /\ tree = EmptyTree /\ it = AtStart /\ members = {}

\* AVLTree::compare() of a node and a key.
compare(n, k) == IF n.key < k THEN 1 ELSE IF n.key > k THEN -1 ELSE 0

-----------------------------------------------------------------------------
(* Rotations                                                               *)

\* The new balances of a node and of its heavy child, on side s.
Balances(s, node, child) ==
    CASE node = s /\ child = -s         -> <<0, (-2) * s>>
      [] node = s /\ child = s          -> <<-s, -s>>
      [] node = s /\ child \notin {-s, s} -> <<0, -s>>
      [] node = 2 * s /\ child = s      -> <<0, 0>>
      [] node = 2 * s /\ child = 0      -> <<s, -s>>
      [] node = 2 * s /\ child = 2 * s  -> <<-s, 0>>
      [] OTHER                          -> <<node, child>>

\* The side to which rotate() looks for the child that moves up.
HeavySide(t, kn) == IF t.balance[kn] < 0 THEN -1 ELSE 1
Heavy(t, kn) == t.child[kn][HeavySide(t, kn)]

\* The pointers of a node after the child c has taken the place of kn.
RotatedChild(t, kn, s, c, n) ==
    CASE n = kn          -> [t.child[n] EXCEPT ![s] = t.child[c][-s]]
      [] n = c           -> [t.child[n] EXCEPT ![-s] = kn]
      [] n = t.parent[kn] -> [r \in Sides |-> IF t.child[n][r] = kn THEN c ELSE t.child[n][r]]
      [] OTHER           -> t.child[n]

RotatedParent(t, kn, s, c, n) ==
    CASE n = kn             -> c
      [] n = c              -> t.parent[kn]
      [] n = t.child[c][-s] -> kn
      [] OTHER              -> t.parent[n]

\* rotate(): the heavy child c takes the place of kn, and kn becomes its child.
rotate(t, kn) ==
    LET s   == HeavySide(t, kn)
        c   == Heavy(t, kn)
        bal == Balances(s, t.balance[kn], t.balance[c])
    IN  [t EXCEPT
           !.child  = [n \in Items |-> RotatedChild(t, kn, s, c, n)],
           !.parent = [n \in Items |-> RotatedParent(t, kn, s, c, n)],
           !.balance[kn] = bal[1],
           !.balance[c]  = bal[2],
           !.root = IF t.parent[kn] = NULL THEN c ELSE t.root]

\* A rotation of the child first.
rotateTwice(t, kn) == rotate(rotate(t, Heavy(t, kn)), kn)

\* On which side of its parent a node hangs.
SideOf(t, n) == IF t.child[t.parent[n]][-1] = n THEN -1 ELSE 1

\* A call of upInsert(), x.node being its argument, or NULL when all have ended:
\* the subtree of the node has grown; go up while the heights of parents change.
upInsertCall(x) ==
    LET t == x.tree
        n == x.node
        b == t.balance[n]
    IN  IF n = NULL THEN x
        ELSE IF b \in {-1, 1} /\ n # t.root
        THEN [tree |-> [t EXCEPT !.balance[t.parent[n]] = @ + SideOf(t, n)], node |-> t.parent[n]]
        ELSE [tree |-> IF b \notin {-2, 2} THEN t
                       ELSE IF 2 * t.balance[Heavy(t, n)] = b THEN rotate(t, n)
                       ELSE rotateTwice(t, n),
              node |-> NULL]

upInsert(t, node) ==
    LET call[k \in 0..Cardinality(Items)] ==
            IF k = 0 THEN [tree |-> t, node |-> node] ELSE upInsertCall(call[k - 1])
    IN  call[Cardinality(Items)].tree

\* The switches of upDelete(): rotate, and go on unless the height has stayed.
restored(t, n) ==
    LET h == t.balance[Heavy(t, n)]
        u == rotate(t, Heavy(t, n))
    IN  CASE h = 0                 -> [tree |-> rotate(t, n), node |-> NULL]
          [] h = HeavySide(t, n)   -> [tree |-> rotate(t, n), node |-> Heavy(t, n)]
          [] h = -HeavySide(t, n)  -> [tree |-> rotate(u, n), node |-> Heavy(u, n)]

\* A call of upDelete(): the subtree of the node has shrunk.
upDeleteCall(x) ==
    LET t  == x.tree
        n  == x.node
        b  == t.balance[n]
        up == t.parent[n]
        u  == [t EXCEPT !.balance[up] = @ - SideOf(t, n)]
    IN  CASE n = NULL -> x
          [] n # NULL /\ (b \in {-1, 1} \/ (n = t.root /\ b = 0)) -> [x EXCEPT !.node = NULL]
          [] n # NULL /\ n = t.root /\ b \in {-2, 2} ->
                [tree |-> IF HeavySide(t, n) * t.balance[Heavy(t, n)] >= 0
                          THEN rotate(t, n) ELSE rotateTwice(t, n),
                 node |-> NULL]
          [] n # NULL /\ n # t.root /\ b \in {-2, 2} -> restored(t, n)
          [] n # NULL /\ n # t.root /\ b = 0 ->
                IF u.balance[up] \in {-2, 2} THEN restored(u, up) ELSE [tree |-> u, node |-> up]

\* A node may be visited twice, before its subtree is rotated and after.
upDelete(t, node) ==
    LET call[k \in 0..(2 * Cardinality(Items))] ==
            IF k = 0 THEN [tree |-> t, node |-> node] ELSE upDeleteCall(call[k - 1])
    IN  call[2 * Cardinality(Items)].tree

-----------------------------------------------------------------------------
(* Insertion and removal                                                   *)

\* On which side of a node an item with the key is added; equal keys go left.
Way(n, key) == IF compare(n, key) > 0 THEN 1 ELSE -1

\* The last node on the way down to where the item is added.
PlaceBelow(t, key) ==
    LET below[n \in Items] ==
            LET c == t.child[n][Way(n, key)] IN IF c = NULL THEN n ELSE below[c]
    IN  below[t.root]

addNode(t, item) ==
    LET u == [t EXCEPT !.child[item] = [s \in Sides |-> NULL], !.balance[item] = 0,
                       !.numElements = @ + 1]
    IN  IF t.root = NULL THEN [u EXCEPT !.root = item, !.parent[item] = NULL]
        ELSE LET node == PlaceBelow(t, item.key)
                 side == Way(node, item.key)
                 v == [u EXCEPT !.parent[item] = node, !.child[node][side] = item,
                                !.balance[node] = @ + side]
             IN  IF v.balance[node] # 0 THEN upInsert(v, node) ELSE v

\* The nodes from n down to the outermost one on side s.
Spine(t, n, s) ==
    LET down[m \in Nodes] == IF m = NULL THEN <<>> ELSE <<m>> \o down[t.child[m][s]]
    IN  down[n]

\* Mutant of Outermost: the next child.
OutermostNext(t, n, s) == n

\* The outermost node on side s of a subtree.
Outermost(t, n, s) == Last(Spine(t, n, s))

\* Mutant of swapNodes: each node keeps its own balance.
swapNodesKeepBalance(t, a, b) ==
    LET sigma(n) == IF n = a THEN b ELSE IF n = b THEN a ELSE n
    IN  [t EXCEPT !.child = [n \in Items |-> [s \in Sides |-> sigma(t.child[sigma(n)][s])]],
                  !.parent = [n \in Items |-> sigma(t.parent[sigma(n)])]]

\* The two nodes exchange their places, also when one is the other's child.
swapNodes(t, a, b) ==
    LET sigma(n) == IF n = a THEN b ELSE IF n = b THEN a ELSE n
    IN  [t EXCEPT !.child = [n \in Items |-> [s \in Sides |-> sigma(t.child[sigma(n)][s])]],
                  !.parent = [n \in Items |-> sigma(t.parent[sigma(n)])],
                  !.balance = [n \in Items |-> t.balance[sigma(n)]]]

eraseNode(t, item) ==
    LET kids == {s \in Sides : t.child[item][s] # NULL}
        side == IF t.balance[item] < 0 THEN -1 ELSE 1
        sys  == Outermost(t, t.child[item][side], -side)
        \* with two children, the item first changes places with its neighbour
        u == IF kids # Sides THEN t
             ELSE [swapNodes(t, item, sys) EXCEPT !.root = IF @ = item THEN sys ELSE @]
        father == u.parent[item]
        sohn == IF u.child[item][-1] # NULL THEN u.child[item][-1] ELSE u.child[item][1]
        v == [u EXCEPT !.parent = [n \in Items |-> IF n = sohn THEN father ELSE u.parent[n]],
                       !.numElements = @ - 1]
    IN  IF item = u.root THEN [v EXCEPT !.root = sohn]
        ELSE upDelete([v EXCEPT !.child[father][SideOf(u, item)] = sohn,
                                !.balance[father] = @ - SideOf(u, item)], father)

\* The first node with the key on the way down, or NULL.
findNode(t, key) ==
    LET cur[n \in Nodes] ==
            IF n = NULL \/ compare(n, key) = 0 THEN n ELSE cur[t.child[n][compare(n, key)]]
    IN  cur[t.root]

-----------------------------------------------------------------------------
(* The iterator: getNext (side 1) and getPrevious (side -1)                *)

\* Down from node to the outermost node on side s, ancestors on the stack.
Down(t, node, stack, s) ==
    [current |-> Outermost(t, node, s), stack |-> stack \o Front(Spine(t, node, s))]

\* Mutant of Up: goes one node up, no matter from which side.
UpOnce(t, node, stack, s) ==
    IF stack = <<>> THEN AtStart ELSE [current |-> Last(stack), stack |-> Front(stack)]

\* Up to the first ancestor that is not reached from side s.
Up(t, node, stack, s) ==
    LET path  == Append(stack, node)
        ends  == {k \in DOMAIN stack : t.child[stack[k]][s] # path[k + 1]}
    IN  IF ends = {} THEN AtStart
        ELSE [current |-> stack[Max(ends)], stack |-> SubSeq(stack, 1, Max(ends) - 1)]

\* getFirst() for side 1, getLast() for side -1.
getFirst(t, s) == IF t.root = NULL THEN AtStart ELSE Down(t, t.root, <<>>, -s)

getNext(t, i, s) ==
    IF i.current = NULL THEN getFirst(t, s)
    ELSE IF t.child[i.current][s] # NULL
    THEN Down(t, t.child[i.current][s], Append(i.stack, i.current), -s)
    ELSE Up(t, i.current, i.stack, s)

-----------------------------------------------------------------------------
(* Actions.  A change of the tree makes iterators invalid; the client that *)
(* is modelled starts anew.                                                *)

\* AVLTree::add(); an item that is there already is refused and given back.
Add(item) ==
    /\ item \notin members
    /\ IF ~dupes /\ findNode(tree, item.key) # NULL
       THEN UNCHANGED <<tree, members>>
       ELSE tree' = addNode(tree, item) /\ members' = members \cup {item}
    /\ it' = AtStart
    /\ UNCHANGED dupes

\* The node's memory goes back to the heap.
Freed(t, item) ==
    [t EXCEPT !.child[item] = EmptyTree.child[item], !.parent[item] = NULL, !.balance[item] = 0]

\* AVLTree::erase(); ItemNotFoundException changes nothing.
EraseItem(key) ==
    LET found == findNode(tree, key) IN
    /\ found # NULL
    /\ tree' = Freed(eraseNode(tree, found), found)
    /\ members' = members \ {found}
    /\ it' = AtStart
    /\ UNCHANGED dupes

\* AVLTree::clear()
ClearTree ==
    /\ members # {}
    /\ tree' = EmptyTree
    /\ members' = {}
    /\ it' = AtStart
    /\ UNCHANGED dupes

Move(s) ==
    /\ Cardinality(members) <= MaxIterated
    /\ it' = getNext(tree, it, s)
    /\ UNCHANGED <<dupes, tree, members>>

TreeNext ==
    \/ \E item \in Items : Add(item) \/ EraseItem(item.key)
    \/ ClearTree
    \/ \E s \in Sides : Move(s)

TreeSpec == TreeInit /\ [][TreeNext]_treevars

-----------------------------------------------------------------------------
(* Properties                                                              *)

\* The nodes of a subtree from left to right.
InOrder[n \in Nodes] ==
    IF n = NULL THEN <<>>
    ELSE InOrder[tree.child[n][-1]] \o <<n>> \o InOrder[tree.child[n][1]]

TreeContents == InOrder[tree.root]

\* Through every insertion, removal and rotation the tree holds exactly the
\* items that were added and not erased, each once and in the order of their
\* keys, and count() is their number.
HoldsMembers ==
    LET contents == TreeContents IN
    /\ ToSet(contents) = members
    /\ Len(contents) = Cardinality(members)
    /\ tree.numElements = Cardinality(members)
    /\ \A i \in 1..(Len(contents) - 1) :
          IF dupes THEN contents[i].key <= contents[i + 1].key
          ELSE contents[i].key < contents[i + 1].key

\* The height of a subtree in which every balance is right, or else -1.
BalancedHeight[n \in Nodes] ==
    IF n = NULL THEN 0
    ELSE LET left  == BalancedHeight[tree.child[n][-1]]
             right == BalancedHeight[tree.child[n][1]]
         IN  IF -1 \in {left, right} \/ tree.balance[n] # right - left \/ tree.balance[n] \notin -1..1
             THEN -1
             ELSE 1 + Max({left, right})

\* The pointers up are the inverse of the pointers down, also after swapNodes()
\* of a node with its own child, and the balance counters are the differences of
\* the heights of the two subtrees, which differ by at most one: upInsert() and
\* upDelete() stop where the height has not changed, and not before.
Balanced ==
    /\ BalancedHeight[tree.root] # -1
    /\ tree.root # NULL => tree.parent[tree.root] = NULL
    /\ \A n \in members, s \in Sides :
          tree.child[n][s] # NULL => tree.parent[tree.child[n][s]] = n

\* An iterator visits the items in order, to either side and also after it has
\* turned round, and is reset behind the last one.
IteratesInOrder ==
    [][ \A s \in Sides : tree' = tree /\ it' = getNext(tree, it, s) =>
          LET order == IF s = 1 THEN TreeContents ELSE Reverse(TreeContents)
              here  == IF it.current = NULL THEN 0
                       ELSE CHOOSE i \in DOMAIN order : order[i] = it.current
          IN  it'.current = IF here = Len(order) THEN NULL ELSE order[here + 1] ]_treevars

=============================================================================
