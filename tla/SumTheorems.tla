----------------------------- MODULE SumTheorems -----------------------------
(***************************************************************************)
(* Facts about SumFunctionOnSet, with which the models add the counters of *)
(* all threads, workers or blocks as the loops over their lists do, and    *)
(* about the functions that stand for the turns of a loop.                 *)
(*                                                                         *)
(* The provers cannot instantiate an induction theorem that takes the      *)
(* predicate as a parameter.  Induction is therefore done by a minimal     *)
(* counterexample: the numbers, or the subsets of a finite set, for which  *)
(* something does not hold form a set, and every such set that is not      *)
(* empty has a least element (Least, MinimalSubset).                       *)
(***************************************************************************)
EXTENDS Integers, FiniteSets, Functions, FiniteSetTheorems, WellFoundedInduction, TLAPS

-----------------------------------------------------------------------------
(* Induction                                                               *)

\* Every set of natural numbers that is not empty has a least element.
LEMMA Least ==
    ASSUME NEW T \in SUBSET Nat, T # {}
    PROVE  \E x \in T : \A y \in T : x <= y
<1> DEFINE R == OpToRel(<, Nat)
<1>1. IsWellFoundedOn(R, Nat)
  BY NatLessThanWellFounded
<1>2. \E x \in T : \A y \in T : ~ (<<y, x>> \in R)
  <2> HIDE DEF R
  <2> QED BY <1>1, WFMin, Zenon
<1>3. \A x, y \in Nat : ~ (<<y, x>> \in R) => x <= y
  BY DEF OpToRel
<1> QED BY <1>2, <1>3

\* A set of subsets of a finite set that is not empty has a minimal member.
LEMMA MinimalSubset ==
    ASSUME NEW S, IsFiniteSet(S), NEW T \in SUBSET (SUBSET S), T # {}
    PROVE  \E s \in T : IsFiniteSet(s) /\ \A u \in T : u \subseteq s => u = s
<1>1. \A u \in T : IsFiniteSet(u) /\ Cardinality(u) \in Nat
  BY FS_Subset, FS_CardinalityType
<1> DEFINE C == {Cardinality(u) : u \in T}
<1>2. PICK n \in C : \A m \in C : n <= m
  BY <1>1, Least, C \in SUBSET Nat, C # {}
<1>3. PICK s \in T : Cardinality(s) = n
  OBVIOUS
<1>4. ASSUME NEW u \in T, u \subseteq s PROVE u = s
  <2>1. Cardinality(u) <= Cardinality(s) /\ Cardinality(s) <= Cardinality(u)
    BY <1>1, <1>2, <1>3, <1>4, FS_Subset
  <2> QED BY <1>1, <1>4, <2>1, FS_Subset
<1> QED BY <1>1, <1>4

-----------------------------------------------------------------------------
(* The fold that defines the sum                                           *)

First(s) == CHOOSE x \in s : TRUE

IsSum(h, f, S) ==
    h = [s \in SUBSET S |-> IF s = {} THEN 0 ELSE f[First(s)] + h[s \ {First(s)}]]

LEMMA SumChosen ==
    ASSUME NEW f, NEW S
    PROVE  SumFunctionOnSet(f, S) = (CHOOSE h : IsSum(h, f, S))[S]
BY DEF SumFunctionOnSet, FoldFunctionOnSet, MapThenFoldSet, IsSum, First

LEMMA FirstIn == \A s : s # {} => First(s) \in s
BY DEF First

LEMMA SumUnique ==
    ASSUME NEW f, NEW S, IsFiniteSet(S), NEW T, NEW g, IsSum(g, f, S), NEW h, IsSum(h, f, T),
           NEW s \in SUBSET S, s \in SUBSET T
    PROVE  g[s] = h[s]
<1> DEFINE Bad == {u \in SUBSET S : u \in SUBSET T /\ g[u] # h[u]}
<1> SUFFICES ASSUME Bad # {} PROVE FALSE
  OBVIOUS
<1>1. PICK u \in Bad : \A v \in Bad : v \subseteq u => v = u
  <2> Bad \in SUBSET (SUBSET S)
    OBVIOUS
  <2> HIDE DEF Bad
  <2> QED BY MinimalSubset
<1>2. /\ g[u] = IF u = {} THEN 0 ELSE f[First(u)] + g[u \ {First(u)}]
      /\ h[u] = IF u = {} THEN 0 ELSE f[First(u)] + h[u \ {First(u)}]
  BY DEF IsSum
<1>3. u # {}
  BY <1>2
<1>4. g[u \ {First(u)}] = h[u \ {First(u)}]
  BY <1>1, <1>3, FirstIn
<1> QED BY <1>2, <1>3, <1>4

LEMMA SumExists ==
    ASSUME NEW f, NEW S, IsFiniteSet(S)
    PROVE  \E h : IsSum(h, f, S)
<1> DEFINE H(s) == CHOOSE h : IsSum(h, f, s)
           Bad == {s \in SUBSET S : ~\E h : IsSum(h, f, s)}
<1> SUFFICES ASSUME Bad # {} PROVE FALSE
  OBVIOUS
<1>1. PICK s \in Bad : \A u \in Bad : u \subseteq s => u = s
  <2> Bad \in SUBSET (SUBSET S)
    OBVIOUS
  <2> HIDE DEF Bad
  <2> QED BY MinimalSubset
<1>2. ASSUME NEW u, u \subseteq s, u # s PROVE IsSum(H(u), f, u) /\ IsFiniteSet(u)
  <2>1. \E h : IsSum(h, f, u)
    BY <1>1, <1>2
  <2>2. IsFiniteSet(u)
    BY <1>2, FS_Subset, s \in SUBSET S, u \in SUBSET S
  <2> QED BY <2>1, <2>2
<1> DEFINE g == [u \in SUBSET s |-> IF u = {} THEN 0
                                    ELSE f[First(u)] + H(u \ {First(u)})[u \ {First(u)}]]
<1>3. ASSUME NEW v, v \subseteq s, v # s PROVE g[v] = H(v)[v]
  <2>1. H(v)[v] = IF v = {} THEN 0 ELSE f[First(v)] + H(v)[v \ {First(v)}]
    <3>1. IsSum(H(v), f, v)
      BY <1>2, <1>3
    <3> DEFINE h == H(v)
    <3> HIDE DEF h
    <3>2. h[v] = IF v = {} THEN 0 ELSE f[First(v)] + h[v \ {First(v)}]
      BY <3>1 DEF IsSum, h
    <3> QED BY <3>2 DEF h
  <2>2. CASE v = {}
    BY <2>1, <2>2
  <2>3. CASE v # {}
    <3> DEFINE w == v \ {First(v)}
    <3>1. w \subseteq v /\ w \subseteq s /\ w # s
      BY <1>3
    <3>2. H(w)[w] = H(v)[w]
      <4> HIDE DEF H, w
      <4> QED BY <1>2, <1>3, <3>1, SumUnique
    <3>3. g[v] = f[First(v)] + H(w)[w]
      BY <1>3, <2>3
    <3> QED BY <2>1, <2>3, <3>2, <3>3
  <2> QED BY <2>2, <2>3
<1>4. g = [u \in SUBSET s |-> IF u = {} THEN 0 ELSE f[First(u)] + g[u \ {First(u)}]]
  <2> SUFFICES ASSUME NEW u \in SUBSET s, u # {}
               PROVE  g[u \ {First(u)}] = H(u \ {First(u)})[u \ {First(u)}]
    <3> HIDE DEF H
    <3> QED OBVIOUS
  <2>1. u \ {First(u)} \subseteq s /\ u \ {First(u)} # s
    BY FirstIn
  <2> HIDE DEF g, H
  <2> QED BY <1>3, <2>1
<1>5. IsSum(g, f, s)
  <2> HIDE DEF g
  <2> QED BY <1>4 DEF IsSum
<1> QED BY <1>5

-----------------------------------------------------------------------------
(* The sum                                                                 *)

LEMMA SumEmpty == ASSUME NEW f PROVE SumFunctionOnSet(f, {}) = 0
<1> DEFINE h == CHOOSE h : IsSum(h, f, {})
<1>1. IsSum(h, f, {})
  BY SumExists, FS_EmptySet
<1>2. h[{}] = 0
  <2> HIDE DEF h
  <2> QED BY <1>1 DEF IsSum
<1> QED BY <1>2, SumChosen

LEMMA SumFirst ==
    ASSUME NEW f, NEW S, IsFiniteSet(S), S # {}
    PROVE  SumFunctionOnSet(f, S) = f[First(S)] + SumFunctionOnSet(f, S \ {First(S)})
<1> DEFINE r == S \ {First(S)}
           hS == CHOOSE h : IsSum(h, f, S)
           hr == CHOOSE h : IsSum(h, f, r)
<1>1. r \in SUBSET S /\ r \in SUBSET r /\ IsFiniteSet(r)
  BY FS_RemoveElement
<1>2. SumFunctionOnSet(f, S) = hS[S] /\ SumFunctionOnSet(f, r) = hr[r]
  <2> HIDE DEF r
  <2> QED BY SumChosen
<1>3. IsSum(hS, f, S) /\ IsSum(hr, f, r)
  <2> HIDE DEF r
  <2> QED BY <1>1, SumExists
<1> HIDE DEF hS, hr
<1>4. hS[S] = f[First(S)] + hS[r]
  BY <1>3 DEF IsSum
<1> HIDE DEF r
<1>5. hS[r] = hr[r]
  BY <1>1, <1>3, SumUnique
<1> QED BY <1>2, <1>4, <1>5 DEF r

\* What depends on the values in the set only: the type, and that no other
\* value matters.
LEMMA SumInt ==
    ASSUME NEW S, IsFiniteSet(S), NEW f, \A t \in S : f[t] \in Int
    PROVE  SumFunctionOnSet(f, S) \in Int
<1> DEFINE Bad == {s \in SUBSET S : SumFunctionOnSet(f, s) \notin Int}
<1> SUFFICES ASSUME Bad # {} PROVE FALSE
  OBVIOUS
<1>1. PICK s \in Bad : IsFiniteSet(s) /\ \A u \in Bad : u \subseteq s => u = s
  <2> Bad \in SUBSET (SUBSET S)
    OBVIOUS
  <2> HIDE DEF Bad
  <2> QED BY MinimalSubset
<1>2. s # {}
  BY SumEmpty
<1>3. SumFunctionOnSet(f, s \ {First(s)}) \in Int
  BY <1>1, <1>2, FirstIn
<1>4. SumFunctionOnSet(f, s) = f[First(s)] + SumFunctionOnSet(f, s \ {First(s)})
  BY <1>1, <1>2, SumFirst
<1> QED BY <1>2, <1>3, <1>4, FirstIn

LEMMA SumMonotone ==
    ASSUME NEW S, IsFiniteSet(S), NEW f, NEW g,
           \A t \in S : f[t] \in Int /\ g[t] \in Int /\ f[t] <= g[t]
    PROVE  SumFunctionOnSet(f, S) <= SumFunctionOnSet(g, S)
<1> DEFINE Bad == {s \in SUBSET S : ~(SumFunctionOnSet(f, s) <= SumFunctionOnSet(g, s))}
<1> SUFFICES ASSUME Bad # {} PROVE FALSE
  OBVIOUS
<1>1. PICK s \in Bad : IsFiniteSet(s) /\ \A u \in Bad : u \subseteq s => u = s
  <2> Bad \in SUBSET (SUBSET S)
    OBVIOUS
  <2> HIDE DEF Bad
  <2> QED BY MinimalSubset
<1>2. s # {}
  BY SumEmpty
<1> DEFINE r == s \ {First(s)}
<1>3. SumFunctionOnSet(f, r) <= SumFunctionOnSet(g, r)
  BY <1>1, <1>2, FirstIn
<1>4. /\ SumFunctionOnSet(f, s) = f[First(s)] + SumFunctionOnSet(f, r)
      /\ SumFunctionOnSet(g, s) = g[First(s)] + SumFunctionOnSet(g, r)
  BY <1>1, <1>2, SumFirst
<1>5. SumFunctionOnSet(f, r) \in Int /\ SumFunctionOnSet(g, r) \in Int
  BY <1>1, FS_RemoveElement, SumInt
<1>6. f[First(s)] \in Int /\ g[First(s)] \in Int /\ f[First(s)] <= g[First(s)]
  BY <1>2, FirstIn
<1> HIDE DEF r
<1> QED BY <1>3, <1>4, <1>5, <1>6

\* The sum of the pointwise sum of two functions.
LEMMA SumAdds ==
    ASSUME NEW S, IsFiniteSet(S), NEW f, NEW g, NEW h,
           \A t \in S : f[t] \in Int /\ g[t] \in Int /\ h[t] = f[t] + g[t]
    PROVE  SumFunctionOnSet(h, S) = SumFunctionOnSet(f, S) + SumFunctionOnSet(g, S)
<1> DEFINE Bad == {s \in SUBSET S : SumFunctionOnSet(h, s)
                                      # SumFunctionOnSet(f, s) + SumFunctionOnSet(g, s)}
<1> SUFFICES ASSUME Bad # {} PROVE FALSE
  OBVIOUS
<1>1. PICK s \in Bad : IsFiniteSet(s) /\ \A u \in Bad : u \subseteq s => u = s
  <2> Bad \in SUBSET (SUBSET S)
    OBVIOUS
  <2> HIDE DEF Bad
  <2> QED BY MinimalSubset
<1>2. s # {}
  <2> SUFFICES ASSUME s = {} PROVE FALSE
    OBVIOUS
  <2>1. \A e : SumFunctionOnSet(e, s) = 0
    BY SumEmpty
  <2> QED BY <2>1
<1> DEFINE r == s \ {First(s)}
<1>3. SumFunctionOnSet(h, r) = SumFunctionOnSet(f, r) + SumFunctionOnSet(g, r)
  BY <1>1, <1>2, FirstIn
<1>4. /\ SumFunctionOnSet(f, s) = f[First(s)] + SumFunctionOnSet(f, r)
      /\ SumFunctionOnSet(g, s) = g[First(s)] + SumFunctionOnSet(g, r)
      /\ SumFunctionOnSet(h, s) = h[First(s)] + SumFunctionOnSet(h, r)
  BY <1>1, <1>2, SumFirst
<1>5. SumFunctionOnSet(f, r) \in Int /\ SumFunctionOnSet(g, r) \in Int
  BY <1>1, FS_RemoveElement, SumInt
<1>6. f[First(s)] \in Int /\ g[First(s)] \in Int /\ h[First(s)] = f[First(s)] + g[First(s)]
  BY <1>2, FirstIn
<1> HIDE DEF r
<1> QED BY <1>3, <1>4, <1>5, <1>6

\* Any member can be taken out of the sum, not only the one the fold chooses.
LEMMA SumRemove ==
    ASSUME NEW S, IsFiniteSet(S), NEW f, \A t \in S : f[t] \in Int, NEW x0 \in S
    PROVE  SumFunctionOnSet(f, S) = f[x0] + SumFunctionOnSet(f, S \ {x0})
<1> DEFINE Wrong(s, x) == SumFunctionOnSet(f, s) # f[x] + SumFunctionOnSet(f, s \ {x})
           Bad == {s \in SUBSET S : \E x \in s : Wrong(s, x)}
<1> SUFFICES ASSUME Bad # {} PROVE FALSE
  OBVIOUS
<1>1. PICK s \in Bad : IsFiniteSet(s) /\ \A u \in Bad : u \subseteq s => u = s
  <2> Bad \in SUBSET (SUBSET S)
    OBVIOUS
  <2> HIDE DEF Bad
  <2> QED BY MinimalSubset
<1>2. PICK x \in s : Wrong(s, x)
  OBVIOUS
<1> DEFINE y == First(s)
           rest == s \ {x, y}
<1>3. y \in s /\ SumFunctionOnSet(f, s) = f[y] + SumFunctionOnSet(f, s \ {y})
  BY <1>1, SumFirst, FirstIn
<1>4. x # y
  BY <1>2, <1>3
<1> HIDE DEF y
<1>5. SumFunctionOnSet(f, s \ {y}) = f[x] + SumFunctionOnSet(f, rest)
  <2>1. (s \ {y}) \ {x} = rest /\ x \in s \ {y} /\ s \ {y} \in SUBSET S /\ s \ {y} # s
    BY <1>3, <1>4
  <2> QED BY <1>1, <2>1
<1>6. SumFunctionOnSet(f, s \ {x}) = f[y] + SumFunctionOnSet(f, rest)
  <2>1. (s \ {x}) \ {y} = rest /\ y \in s \ {x} /\ s \ {x} \in SUBSET S /\ s \ {x} # s
    BY <1>3, <1>4
  <2> QED BY <1>1, <2>1
<1>7. f[x] \in Int /\ f[y] \in Int
  BY <1>3
<1>8. SumFunctionOnSet(f, rest) \in Int
  BY <1>1, FS_Subset, SumInt, rest \in SUBSET s
<1> QED BY <1>2, <1>3, <1>5, <1>6, <1>7, <1>8

\* Sums of functions that agree are equal.
LEMMA SumSame ==
    ASSUME NEW S, IsFiniteSet(S), NEW f, NEW g, \A t \in S : f[t] \in Int /\ f[t] = g[t]
    PROVE  SumFunctionOnSet(f, S) = SumFunctionOnSet(g, S)
<1>1. SumFunctionOnSet(f, S) <= SumFunctionOnSet(g, S)
  BY SumMonotone
<1>2. SumFunctionOnSet(g, S) <= SumFunctionOnSet(f, S)
  BY SumMonotone
<1> QED BY <1>1, <1>2, SumInt

\* A step that changes one counter changes the sum by as much.
LEMMA SumChange ==
    ASSUME NEW S, IsFiniteSet(S), NEW x \in S, NEW f, NEW g,
           \A t \in S : f[t] \in Int /\ g[t] \in Int,
           \A t \in S : t # x => g[t] = f[t]
    PROVE  SumFunctionOnSet(g, S) = SumFunctionOnSet(f, S) + g[x] - f[x]
<1> DEFINE r == S \ {x}
<1>1. /\ SumFunctionOnSet(f, S) = f[x] + SumFunctionOnSet(f, r)
      /\ SumFunctionOnSet(g, S) = g[x] + SumFunctionOnSet(g, r)
  BY SumRemove
<1>2. IsFiniteSet(r)
  BY FS_RemoveElement
<1>3. SumFunctionOnSet(f, r) \in Int /\ SumFunctionOnSet(f, r) = SumFunctionOnSet(g, r)
  BY <1>2, SumInt, SumSame
<1> HIDE DEF r
<1> QED BY <1>1, <1>3

LEMMA SumZero ==
    ASSUME NEW S, IsFiniteSet(S), NEW f, \A t \in S : f[t] = 0
    PROVE  SumFunctionOnSet(f, S) = 0
<1>1. SumFunctionOnSet(f, S) = SumFunctionOnSet(f, S) + SumFunctionOnSet(f, S)
  BY SumAdds
<1> QED BY <1>1, SumInt

LEMMA SumNat ==
    ASSUME NEW S, IsFiniteSet(S), NEW f, \A t \in S : f[t] \in Nat
    PROVE  SumFunctionOnSet(f, S) \in Nat
<1> DEFINE z == [t \in S |-> 0]
<1>1. SumFunctionOnSet(z, S) = 0
  BY SumZero
<1>2. SumFunctionOnSet(z, S) <= SumFunctionOnSet(f, S)
  BY SumMonotone
<1>3. SumFunctionOnSet(f, S) \in Int
  BY SumInt
<1> QED BY <1>1, <1>2, <1>3

\* The sum of a set is that of a part and of the rest.
LEMMA SumSplit ==
    ASSUME NEW S, IsFiniteSet(S), NEW f, \A t \in S : f[t] \in Int, NEW T \in SUBSET S
    PROVE  SumFunctionOnSet(f, S) = SumFunctionOnSet(f, T) + SumFunctionOnSet(f, S \ T)
<1> DEFINE on(s)  == SumFunctionOnSet(f, s \cap T)
           off(s) == SumFunctionOnSet(f, s \ T)
           Bad    == {s \in SUBSET S : SumFunctionOnSet(f, s) # on(s) + off(s)}
<1>1. Bad = {}
  <2> SUFFICES ASSUME Bad # {} PROVE FALSE
    OBVIOUS
  <2>1. PICK s \in Bad : IsFiniteSet(s) /\ \A u \in Bad : u \subseteq s => u = s
    <3> Bad \in SUBSET (SUBSET S)
      OBVIOUS
    <3> HIDE DEF Bad
    <3> QED BY MinimalSubset
  <2>2. s # {}
    <3> SUFFICES ASSUME s = {} PROVE FALSE
      OBVIOUS
    <3>1. s \cap T = s /\ s \ T = s
      OBVIOUS
    <3>2. SumFunctionOnSet(f, s) = 0
      BY SumEmpty
    <3> QED BY <3>1, <3>2
  <2> DEFINE x == First(s)
             r == s \ {x}
  <2>3. x \in s /\ f[x] \in Int
    BY <2>2, FirstIn
  <2>4. SumFunctionOnSet(f, r) = on(r) + off(r)
    BY <2>1, <2>3
  <2>5. SumFunctionOnSet(f, s) = f[x] + SumFunctionOnSet(f, r)
    BY <2>1, <2>2, SumFirst
  <2>6. ASSUME NEW U, x \in U, U \in SUBSET s
        PROVE  SumFunctionOnSet(f, U) = f[x] + SumFunctionOnSet(f, U \ {x})
    <3>1. IsFiniteSet(U) /\ \A t \in U : f[t] \in Int
      BY <2>1, <2>6, FS_Subset
    <3> HIDE DEF x
    <3> QED BY <2>6, <3>1, SumRemove
  <2>7. \/ on(s) = f[x] + on(r) /\ off(s) = off(r)
        \/ on(s) = on(r) /\ off(s) = f[x] + off(r)
    <3>1. CASE x \in T
      <4>1. x \in s \cap T /\ (s \cap T) \ {x} = r \cap T /\ s \ T = r \ T
        BY <2>3, <3>1
      <4>2. SumFunctionOnSet(f, s \cap T) = f[x] + SumFunctionOnSet(f, (s \cap T) \ {x})
        BY <4>1, <2>6
      <4> QED BY <4>1, <4>2
    <3>2. CASE x \notin T
      <4>1. x \in s \ T /\ (s \ T) \ {x} = r \ T /\ s \cap T = r \cap T
        BY <2>3, <3>2
      <4>2. SumFunctionOnSet(f, s \ T) = f[x] + SumFunctionOnSet(f, (s \ T) \ {x})
        BY <4>1, <2>6
      <4> QED BY <4>1, <4>2
    <3> QED BY <3>1, <3>2
  <2>8. on(r) \in Int /\ off(r) \in Int
    <3>1. /\ IsFiniteSet(r \cap T) /\ IsFiniteSet(r \ T)
          /\ \A t \in s : f[t] \in Int
      BY <2>1, FS_Subset, r \ T \in SUBSET s, r \cap T \in SUBSET s
    <3>2. (\A t \in r \cap T : f[t] \in Int) /\ (\A t \in r \ T : f[t] \in Int)
      BY <3>1
    <3> HIDE DEF r
    <3> QED BY <3>1, <3>2, SumInt
  <2>9. SumFunctionOnSet(f, s) # on(s) + off(s)
    OBVIOUS
  <2> HIDE DEF x, r, on, off, Bad
  <2> QED BY <2>3, <2>4, <2>5, <2>7, <2>8, <2>9
<1>2. S \cap T = T /\ S \in SUBSET S
  OBVIOUS
<1>3. SumFunctionOnSet(f, S) = on(S) + off(S)
  BY <1>1, <1>2
<1> QED BY <1>2, <1>3

\* Fewer counters that are not negative have a smaller sum.
LEMMA SumOfSubset ==
    ASSUME NEW S, IsFiniteSet(S), NEW f, \A t \in S : f[t] \in Nat, NEW T \in SUBSET S
    PROVE  SumFunctionOnSet(f, T) <= SumFunctionOnSet(f, S)
<1>1. SumFunctionOnSet(f, S) = SumFunctionOnSet(f, T) + SumFunctionOnSet(f, S \ T)
  BY SumSplit
<1>2. IsFiniteSet(T) /\ IsFiniteSet(S \ T)
  BY FS_Subset, FS_Difference
<1>3. SumFunctionOnSet(f, T) \in Nat /\ SumFunctionOnSet(f, S \ T) \in Nat
  BY <1>2, SumNat
<1> QED BY <1>1, <1>3

-----------------------------------------------------------------------------
(* Loops                                                                   *)

\* What the first state of a loop satisfies, and every turn keeps, holds of
\* the state after every turn.
LEMMA LoopKeeps ==
    ASSUME NEW n \in Nat, NEW f, NEW S, f[0] \in S[0],
           \A k \in 1..n : f[k - 1] \in S[k - 1] => f[k] \in S[k]
    PROVE  \A k \in 0..n : f[k] \in S[k]
<1> DEFINE Bad == {k \in 0..n : f[k] \notin S[k]}
<1> SUFFICES ASSUME Bad # {} PROVE FALSE
  OBVIOUS
<1>1. PICK k \in Bad : \A j \in Bad : k <= j
  <2> Bad \in SUBSET Nat
    OBVIOUS
  <2> HIDE DEF Bad
  <2> QED BY Least
<1>2. k # 0 /\ k \in 1..n /\ k - 1 \in 0..n /\ k - 1 \notin Bad
  BY <1>1
<1> QED BY <1>1, <1>2

\* A loop of n turns has a run: a function that a recursion on their number
\* defines exists, when every turn can be taken.
IsRun(f, n, a, g) == f = [k \in 0..n |-> IF k = 0 THEN a ELSE g[<<k, f[k - 1]>>]]

LEMMA LoopRuns ==
    ASSUME NEW n \in Nat, NEW a, NEW S, NEW g, a \in S[0],
           \A k \in 1..n : \A b \in S[k - 1] : g[<<k, b>>] \in S[k]
    PROVE  \E f : IsRun(f, n, a, g) /\ \A k \in 0..n : f[k] \in S[k]
<1> DEFINE Run(f, m) == f = [k \in 0..m |-> IF k = 0 THEN a ELSE g[<<k, f[k - 1]>>]]
           Bad == {m \in 0..n : ~\E f : Run(f, m)}
<1>1. Bad = {}
  <2> SUFFICES ASSUME Bad # {} PROVE FALSE
    OBVIOUS
  <2>1. PICK m \in Bad : \A j \in Bad : m <= j
    <3> Bad \in SUBSET Nat
      OBVIOUS
    <3> HIDE DEF Bad
    <3> QED BY Least
  <2>2. m # 0
    <3>1. Run([k \in 0..0 |-> a], 0)
      OBVIOUS
    <3> HIDE DEF Run
    <3> QED BY <2>1, <3>1
  <2>3. m \in 1..n /\ m - 1 \in 0..n /\ m - 1 \notin Bad
    <3> HIDE DEF Run
    <3> QED BY <2>1, <2>2
  <2>4. PICK f : Run(f, m - 1)
    <3> HIDE DEF Run
    <3> QED BY <2>3
  <2> DEFINE h == [k \in 0..m |-> IF k < m THEN f[k] ELSE g[<<m, f[m - 1]>>]]
  <2>5. \A k \in 0..(m - 1) : h[k] = f[k] /\ f[k] = IF k = 0 THEN a ELSE g[<<k, f[k - 1]>>]
    BY <2>3, <2>4
  <2>6. h[m] = g[<<m, f[m - 1]>>] /\ h[m - 1] = f[m - 1]
    BY <2>3
  <2>7. \A k \in 0..m : h[k] = IF k = 0 THEN a ELSE g[<<k, h[k - 1]>>]
    <3> HIDE DEF h
    <3> TAKE k \in 0..m
    <3>1. CASE k = m
      BY <2>3, <2>6, <3>1
    <3>2. CASE k < m
      <4>1. k \in 0..(m - 1) /\ (k # 0 => k - 1 \in 0..(m - 1))
        BY <3>2
      <4> QED BY <2>5, <4>1
    <3> QED BY <3>1, <3>2
  <2>8. Run(h, m)
    <3>1. h = [k \in 0..m |-> h[k]]
      OBVIOUS
    <3> HIDE DEF h
    <3> QED BY <2>7, <3>1
  <2> HIDE DEF Run, h
  <2> QED BY <2>1, <2>8
<1>2. PICK f : Run(f, n)
  <2> HIDE DEF Run
  <2> QED BY <1>1
<1>3. \A k \in 0..n : f[k] = IF k = 0 THEN a ELSE g[<<k, f[k - 1]>>]
  BY <1>2
<1>4. f[0] \in S[0] /\ \A k \in 1..n : f[k - 1] \in S[k - 1] => f[k] \in S[k]
  <2>1. f[0] = a
    BY <1>3, 0 \in 0..n
  <2>2. ASSUME NEW k \in 1..n, f[k - 1] \in S[k - 1] PROVE f[k] \in S[k]
    <3>1. f[k] = g[<<k, f[k - 1]>>]
      BY <1>3
    <3>2. \A b \in S[k - 1] : g[<<k, b>>] \in S[k]
      OBVIOUS
    <3> QED BY <2>2, <3>1, <3>2
  <2> QED BY <2>1, <2>2
<1>5. \A k \in 0..n : f[k] \in S[k]
  <2> HIDE DEF Run
  <2> QED BY <1>4, LoopKeeps
<1> QED BY <1>2, <1>5 DEF IsRun

=============================================================================
