------------------------- MODULE BouncerThreadProofs -------------------------
(***************************************************************************)
(* Proofs about the counters of BouncerThread, for any number of workers,  *)
(* datagrams and passes: no counter ever exceeds what was really counted,  *)
(* and the collection is exact for every worker it has never overlapped.   *)
(*                                                                         *)
(* CountInv bounds the value a worker has loaded and the values a          *)
(* collection has copied, AccountInv follows each field through copy,      *)
(* clear and add of a collection that no update overlaps, CollectInv the   *)
(* sum of a pass from worker to worker.                                    *)
(***************************************************************************)
EXTENDS BouncerThread, SumTheorems

\* Fields of the worker being collected whose copy is in ret.
Copied(f) == (mpc = "copy" /\ f \notin todo) \/ mpc \in {"clear", "add"}

CountInv ==
    /\ \A w \in Workers, f \in Fields : counter[w][f] <= counted[w][f]
    /\ \A w \in Workers : wpc[w] = "store" => reg[w] <= counted[w][CountOrder[pos[w]]]
    /\ \A f \in Fields : Copied(f) => ret[f] <= counted[cur][f]

\* What a collection has taken from a field without having reported it.
Taken(w, f) ==
    IF cur = w /\ (mpc = "add" \/ (mpc = "clear" /\ f \notin todo)) THEN ret[f] ELSE 0

\* The copy of a field that is still in the counter.
Fresh(f) == (mpc = "copy" /\ f \notin todo) \/ (mpc = "clear" /\ f \in todo)

Account(w) ==
    /\ ~(Counting(w) /\ Collecting(w))
    /\ wpc[w] = "store" => reg[w] = counter[w][CountOrder[pos[w]]]
    /\ \A f \in Fields : reported[w][f] + Taken(w, f) + counter[w][f] = counted[w][f]
    /\ cur = w => \A f \in Fields : Fresh(f) => ret[f] = counter[w][f]

AccountInv == \A w \in Workers : w \notin raced => Account(w)

IInv == TypeOK /\ CountInv /\ AccountInv

\* run() updates each of the four fields, and adds a natural number to it.
LEMMA CountOrderFields == \A k \in 1..4 : CountOrder[k] \in Fields
BY DEF CountOrder, Fields

LEMMA AddedNat == \A w \in Workers, f \in Fields : TypeOK => Added(w, f) \in Nat
<1> SUFFICES ASSUME NEW w \in Workers, NEW f \in Fields, TypeOK PROVE Added(w, f) \in Nat
  OBVIOUS
<1>1. n[w] \in Nat
  BY DEF TypeOK
<1> QED BY <1>1 DEF Added, Fields

\* Store() changes one field of one record, in counter and counted alike.
LEMMA StoreEffect ==
  ASSUME NEW w \in Workers, NEW f, f = CountOrder[pos[w]], TypeOK, Store(w)
  PROVE  /\ f \in Fields /\ Added(w, f) \in Nat
         /\ counter' \in [Workers -> Counters] /\ counted' \in [Workers -> Counters]
         /\ counter'[w][f] = reg[w] + Added(w, f)
         /\ counted'[w][f] = counted[w][f] + Added(w, f)
         /\ \A v \in Workers, g \in Fields : v # w \/ g # f =>
                counter'[v][g] = counter[v][g] /\ counted'[v][g] = counted[v][g]
<1>1. pos[w] \in 1..4 /\ reg[w] \in Nat
  BY DEF TypeOK
<1>2. counter \in [Workers -> Counters] /\ counted \in [Workers -> Counters]
  BY DEF TypeOK
<1>3. f \in Fields
  BY <1>1, CountOrderFields
<1>4. Added(w, f) \in Nat
  BY <1>3, AddedNat
<1>5. counted[w][f] \in Nat
  BY <1>2, <1>3 DEF Counters
<1>6. reg[w] + Added(w, f) \in Nat /\ counted[w][f] + Added(w, f) \in Nat
  BY <1>1, <1>4, <1>5
<1>7. /\ counter' = [counter EXCEPT ![w][f] = reg[w] + Added(w, f)]
      /\ counted' = [counted EXCEPT ![w][f] = counted[w][f] + Added(w, f)]
  BY DEF Store
<1>8. /\ counter' \in [Workers -> Counters]
      /\ counter'[w][f] = reg[w] + Added(w, f)
      /\ \A v \in Workers, g \in Fields : v # w \/ g # f => counter'[v][g] = counter[v][g]
  BY <1>2, <1>3, <1>6, <1>7 DEF Counters
<1>9. /\ counted' \in [Workers -> Counters]
      /\ counted'[w][f] = counted[w][f] + Added(w, f)
      /\ \A v \in Workers, g \in Fields : v # w \/ g # f => counted'[v][g] = counted[v][g]
  BY <1>2, <1>3, <1>6, <1>7 DEF Counters
<1> QED BY <1>3, <1>4, <1>8, <1>9

\* Clear() zeroes one field of the worker being collected.
LEMMA ClearEffect ==
  ASSUME TypeOK, Clear
  PROVE  \E f \in todo :
            /\ f \in Fields
            /\ counter' \in [Workers -> Counters]
            /\ counter'[cur][f] = 0
            /\ \A v \in Workers, g \in Fields : v # cur \/ g # f => counter'[v][g] = counter[v][g]
            /\ todo' = todo \ {f}
            /\ mpc' = IF todo = {f} THEN "add" ELSE "clear"
<1>1. mpc = "clear" /\ cur \in Workers /\ todo \subseteq Fields
  BY DEF TypeOK, Clear
<1>2. counter \in [Workers -> Counters]
  BY DEF TypeOK
<1>3. PICK f \in todo : /\ counter' = [counter EXCEPT ![cur][f] = 0]
                        /\ todo' = todo \ {f}
                        /\ IF todo = {f} THEN mpc' = "add" ELSE UNCHANGED mpc
  BY DEF Clear
<1>4. /\ counter' \in [Workers -> Counters]
      /\ counter'[cur][f] = 0
      /\ \A v \in Workers, g \in Fields : v # cur \/ g # f => counter'[v][g] = counter[v][g]
  BY <1>1, <1>2, <1>3 DEF Counters
<1> QED BY <1>1, <1>3, <1>4

LEMMA InitIInv == Init => IInv
<1> SUFFICES ASSUME Init PROVE IInv
  OBVIOUS
<1> USE DEF Init, Zero
<1>1. TypeOK
  BY DEF TypeOK, Counters
<1>2. CountInv
  BY DEF CountInv, Copied
<1>3. AccountInv
  BY DEF AccountInv, Account, Counting, Taken, Fresh
<1> QED BY <1>1, <1>2, <1>3 DEF IInv

\* A step that touches no counter and in which no worker begins to count.
LEMMA AccountKept ==
    ASSUME AccountInv,
           UNCHANGED <<counter, reg, pos, mpc, cur, todo, ret, counted, reported, raced>>,
           \A v \in Workers : wpc'[v] = wpc[v] \/ wpc'[v] \in {"check", "recv", "done"}
    PROVE  AccountInv'
<1> SUFFICES ASSUME NEW v \in Workers, v \notin raced' PROVE Account(v)'
  BY DEF AccountInv
<1>1. v \notin raced /\ Account(v)
  BY DEF AccountInv
<1>2. Counting(v)' => Counting(v)
  BY DEF Counting
<1>3. Collecting(v)' <=> Collecting(v)
  BY DEF Collecting
<1>4. \A f \in Fields : Taken(v, f)' = Taken(v, f) /\ (Fresh(f)' <=> Fresh(f))
  BY DEF Taken, Fresh
<1>5. wpc'[v] = "store" => wpc[v] = "store"
  OBVIOUS
<1> QED BY <1>1, <1>2, <1>3, <1>4, <1>5 DEF Account

LEMMA DatagramStep == ASSUME NEW w \in Workers, IInv, Datagram(w) PROVE IInv'
<1> USE BouncerAssumption DEF IInv, Datagram, worker, collector, history
<1>1. TypeOK'
  <2>1. PICK s \in Sizes : socket' = [socket EXCEPT ![w] = Append(@, s)]
    OBVIOUS
  <2>2. socket' \in [Workers -> Seq(Sizes)]
    BY <2>1 DEF TypeOK
  <2>3. packets' \in Nat
    BY DEF TypeOK
  <2> QED BY <2>2, <2>3 DEF TypeOK
<1>2. CountInv'
  BY DEF TypeOK, Counters, CountInv, Copied
<1>3. AccountInv'
  BY AccountKept
<1> QED BY <1>1, <1>2, <1>3

LEMMA ReceiveStep == ASSUME NEW w \in Workers, IInv, Receive(w) PROVE IInv'
<1> USE BouncerAssumption DEF IInv, Receive, worker, collector, history
<1>1. TypeOK'
  <2>1. socket[w] \in Seq(Sizes) /\ socket[w] # <<>>
    BY DEF TypeOK
  <2>2. Head(socket[w]) \in Nat /\ Tail(socket[w]) \in Seq(Sizes)
    <3>1. Head(socket[w]) \in Sizes /\ Tail(socket[w]) \in Seq(Sizes)
      BY <2>1
    <3> QED BY <3>1
  <2>3. socket' \in [Workers -> Seq(Sizes)] /\ request' \in [Workers -> Nat]
    BY <2>2 DEF TypeOK
  <2>4. n' \in [Workers -> Nat] /\ reply' \in [Workers -> Nat]
    BY <2>2 DEF TypeOK
  <2>5. wpc' \in [Workers -> {"recv", "echo", "load", "store", "check", "done"}]
    BY DEF TypeOK
  <2> QED BY <2>3, <2>4, <2>5 DEF TypeOK
<1>2. CountInv'
  BY DEF TypeOK, Counters, CountInv, Copied
<1>3. AccountInv'
  <2> SUFFICES ASSUME NEW v \in Workers, v \notin raced'
               PROVE  Account(v)'
    BY DEF AccountInv
  <2>1. Account(v)
    BY DEF AccountInv
  <2>2. (wpc[v])' \in {wpc[v], "echo"}
    BY DEF TypeOK
  <2> QED BY <2>1, <2>2 DEF Account, Counting, Collecting, Taken, Fresh
<1> QED BY <1>1, <1>2, <1>3

LEMMA WaitReadableStep == ASSUME NEW w \in Workers, IInv, WaitReadable(w) PROVE IInv'
<1> USE BouncerAssumption DEF IInv, WaitReadable, worker, collector, history
<1>1. TypeOK'
  BY DEF TypeOK, Counters
<1>2. CountInv'
  BY DEF TypeOK, Counters, CountInv, Copied
<1>3. AccountInv'
  <2>1. \A v \in Workers : wpc'[v] = wpc[v] \/ wpc'[v] = "check"
    BY DEF TypeOK
  <2> QED BY <2>1, AccountKept
<1> QED BY <1>1, <1>2, <1>3

LEMMA EchoStep == ASSUME NEW w \in Workers, IInv, Echo(w) PROVE IInv'
<1> USE BouncerAssumption DEF IInv, Echo, worker, collector, history
<1>1. TypeOK'
  <2>1. reply' \in [Workers -> Nat]
    BY DEF TypeOK
  <2>2. pos' \in [Workers -> 1..4]
    BY DEF TypeOK
  <2>3. wpc' \in [Workers -> {"recv", "echo", "load", "store", "check", "done"}]
    BY DEF TypeOK
  <2>4. raced' \subseteq Workers
    BY DEF TypeOK
  <2> QED BY <2>1, <2>2, <2>3, <2>4 DEF TypeOK
<1>2. CountInv'
  BY DEF TypeOK, Counters, CountInv, Copied
<1>3. AccountInv'
  <2> SUFFICES ASSUME NEW v \in Workers, v \notin raced'
               PROVE  Account(v)'
    BY DEF AccountInv
  <2>1. v \notin raced /\ Account(v)
    BY DEF AccountInv
  <2>2. v = w => ~Collecting(v) /\ wpc'[v] = "load" /\ wpc[v] = "echo"
    BY DEF TypeOK
  <2>3. v # w => wpc'[v] = wpc[v] /\ pos'[v] = pos[v]
    BY DEF TypeOK
  <2>4. ~(Counting(v) /\ Collecting(v))'
    BY <2>1, <2>2, <2>3 DEF Account, Counting, Collecting
  <2>5. wpc'[v] = "store" => reg[v] = counter[v][CountOrder[pos'[v]]]
    BY <2>1, <2>2, <2>3 DEF Account
  <2>6. \A g \in Fields : (Taken(v, g)' = Taken(v, g)) /\ (Fresh(g)' <=> Fresh(g))
    BY DEF Taken, Fresh
  <2> QED BY <2>1, <2>4, <2>5, <2>6 DEF Account
<1> QED BY <1>1, <1>2, <1>3

LEMMA LoadStep == ASSUME NEW w \in Workers, IInv, Load(w) PROVE IInv'
<1> USE BouncerAssumption DEF IInv, Load, worker, collector, history
<1>1. TypeOK'
  <2>1. CountOrder[pos[w]] \in Fields
    BY CountOrderFields DEF TypeOK
  <2>2. counter[w][CountOrder[pos[w]]] \in Nat
    BY <2>1 DEF TypeOK, Counters
  <2>3. reg' \in [Workers -> Nat]
    BY <2>2 DEF TypeOK
  <2>4. wpc' \in [Workers -> {"recv", "echo", "load", "store", "check", "done"}]
    BY DEF TypeOK
  <2> QED BY <2>3, <2>4 DEF TypeOK
<1>2. CountInv'
  <2>1. CountOrder[pos[w]] \in Fields
    BY CountOrderFields DEF TypeOK
  <2>2. counter[w][CountOrder[pos[w]]] <= counted[w][CountOrder[pos[w]]]
    BY <2>1 DEF CountInv
  <2>3. reg'[w] = counter[w][CountOrder[pos[w]]]
    BY DEF TypeOK
  <2>4. \A v \in Workers : v # w => reg'[v] = reg[v] /\ wpc'[v] = wpc[v]
    BY DEF TypeOK
  <2>5. \A v \in Workers : wpc'[v] = "store" => reg'[v] <= counted[v][CountOrder[pos[v]]]
    BY <2>2, <2>3, <2>4 DEF CountInv
  <2> QED BY <2>5 DEF CountInv, Copied
<1>3. AccountInv'
  <2> SUFFICES ASSUME NEW v \in Workers, v \notin raced'
               PROVE  Account(v)'
    BY DEF AccountInv
  <2>1. Account(v)
    BY DEF AccountInv
  <2>2. reg'[w] = counter[w][CountOrder[pos[w]]] /\ Counting(w)
    BY DEF TypeOK, Counting
  <2>3. v # w => reg'[v] = reg[v] /\ wpc'[v] = wpc[v]
    BY DEF TypeOK
  <2> QED BY <2>1, <2>2, <2>3 DEF Account, Counting, Collecting, Taken, Fresh
<1> QED BY <1>1, <1>2, <1>3

LEMMA StoreStep == ASSUME NEW w \in Workers, IInv, Store(w) PROVE IInv'
<1> DEFINE f == CountOrder[pos[w]]
<1>0. /\ f \in Fields /\ Added(w, f) \in Nat
      /\ counter' \in [Workers -> Counters] /\ counted' \in [Workers -> Counters]
      /\ counter'[w][f] = reg[w] + Added(w, f)
      /\ counted'[w][f] = counted[w][f] + Added(w, f)
      /\ \A v \in Workers, g \in Fields : v # w \/ g # f =>
             counter'[v][g] = counter[v][g] /\ counted'[v][g] = counted[v][g]
  BY StoreEffect DEF IInv
<1> HIDE DEF f
<1> USE BouncerAssumption DEF IInv, Store, worker, collector, history
<1>1. TypeOK'
  <2>1. f \in Fields /\ reg[w] \in Nat /\ counted[w][f] \in Nat
    BY CountOrderFields DEF TypeOK, Counters, f
  <2>4. wpc[w] = "store"
    OBVIOUS
  <2>7. pos' \in [Workers -> 1..4]
    <3>1. pos[w] \in 1..4 /\ pos \in [Workers -> 1..4]
      BY DEF TypeOK
    <3>2. (IF pos[w] = 4 THEN 1 ELSE pos[w] + 1) \in 1..4
      BY <3>1
    <3>3. pos' = [pos EXCEPT ![w] = IF pos[w] = 4 THEN 1 ELSE pos[w] + 1]
      OBVIOUS
    <3> QED BY ONLY <3>1, <3>2, <3>3
  <2>9. reg' \in [Workers -> Nat]
    BY DEF TypeOK
  <2>8. wpc' \in [Workers -> {"recv", "echo", "load", "store", "check", "done"}]
    BY DEF TypeOK
  <2> QED BY <1>0, <2>7, <2>8, <2>9 DEF TypeOK
<1>2. CountInv'
  <2>1. f \in Fields /\ reg[w] \in Nat /\ counted[w][f] \in Nat
    BY CountOrderFields DEF TypeOK, Counters, f
  <2>4. wpc[w] = "store"
    OBVIOUS
  <2>7. reg[w] <= counted[w][f]
    BY <2>4 DEF CountInv, f
  <2>8. \A v \in Workers, g \in Fields : counter'[v][g] <= counted'[v][g]
    BY <2>1, <1>0, <2>7 DEF CountInv
  <2>9. \A v \in Workers : wpc'[v] = "store" =>
            v # w /\ reg'[v] = reg[v] /\ pos'[v] = pos[v] /\ wpc[v] = "store"
    BY DEF TypeOK
  <2>10. \A v \in Workers : wpc'[v] = "store" => reg'[v] <= counted'[v][CountOrder[pos'[v]]]
    <3> SUFFICES ASSUME NEW v \in Workers, wpc'[v] = "store"
                 PROVE  reg'[v] <= counted'[v][CountOrder[pos'[v]]]
      OBVIOUS
    <3>1. CountOrder[pos[v]] \in Fields
      BY CountOrderFields DEF TypeOK
    <3>2. counted'[v][CountOrder[pos[v]]] = counted[v][CountOrder[pos[v]]]
      BY <1>0, <2>9, <3>1
    <3> QED BY <2>9, <3>2 DEF CountInv
  <2>11. \A g \in Fields : counted[cur][g] <= counted'[cur][g]
    <3>1. \A g \in Fields : cur = w /\ g = f => counted[cur][g] <= counted'[cur][g]
      BY <2>1, <1>0
    <3>2. \A g \in Fields : cur # w \/ g # f => counted'[cur][g] = counted[cur][g]
      BY <1>0 DEF TypeOK
    <3>3. \A g \in Fields : counted[cur][g] \in Nat
      BY DEF TypeOK, Counters
    <3> QED BY <3>1, <3>2, <3>3
  <2>12. \A g \in Fields : Copied(g)' => ret'[g] <= counted'[cur'][g]
    <3> SUFFICES ASSUME NEW g \in Fields, Copied(g)' PROVE ret[g] <= counted'[cur][g]
      OBVIOUS
    <3>1. Copied(g)
      BY DEF Copied
    <3>2. ret[g] <= counted[cur][g]
      BY <3>1 DEF CountInv
    <3>3. ret[g] \in Nat /\ counted[cur][g] \in Nat /\ counted'[cur][g] \in Nat
      BY <1>0 DEF TypeOK, Counters
    <3> QED BY <2>11, <3>2, <3>3
  <2> QED BY <2>8, <2>10, <2>12 DEF CountInv
<1>3. AccountInv'
  <2>1. f \in Fields /\ reg[w] \in Nat /\ counted[w][f] \in Nat
    BY CountOrderFields DEF TypeOK, Counters, f
  <2>4. wpc[w] = "store"
    OBVIOUS

  <2> SUFFICES ASSUME NEW v \in Workers, v \notin raced'
               PROVE  Account(v)'
    BY DEF AccountInv
  <2>7. Account(v)
    BY DEF AccountInv
  <2>8. CASE v = w
    <3>1. Counting(v) /\ ~Collecting(v)
      BY <2>4, <2>7, <2>8 DEF Account, Counting
    <3>2. reg[w] = counter[w][f]
      BY <2>4, <2>7, <2>8 DEF Account, f
    <3>3. wpc'[v] # "store"
      BY <2>8 DEF TypeOK
    <3>4. ~(Counting(v) /\ Collecting(v))'
      BY <3>1 DEF Collecting
    <3>5. ASSUME NEW g \in Fields
          PROVE  reported[v][g] + Taken(v, g) + counter'[v][g] = counted'[v][g]
      <4>1. /\ reported[v][g] \in Nat /\ counter[v][g] \in Nat /\ counted[v][g] \in Nat
            /\ ret[g] \in Nat
        BY DEF TypeOK, Counters
      <4>2. Taken(v, g) \in Nat
        BY <4>1 DEF Taken
      <4>3. reported[v][g] + Taken(v, g) + counter[v][g] = counted[v][g]
        BY <2>7 DEF Account
      <4>4. CASE g = f
        BY <2>1, <1>0, <2>8, <3>2, <4>1, <4>2, <4>3, <4>4
      <4>5. CASE g # f
        BY <1>0, <4>3, <4>5
      <4> QED BY <4>4, <4>5
    <3>6. \A g \in Fields : Taken(v, g)' = Taken(v, g)
      BY DEF Taken
    <3>7. cur = v => \A g \in Fields : ~Fresh(g)
      BY <3>1 DEF Fresh, Collecting
    <3>8. \A g \in Fields : Fresh(g)' <=> Fresh(g)
      BY DEF Fresh
    <3> QED BY <3>3, <3>4, <3>5, <3>6, <3>7, <3>8 DEF Account
  <2>9. CASE v # w
    <3>1. wpc'[v] = wpc[v] /\ reg'[v] = reg[v] /\ pos'[v] = pos[v]
      BY <2>9 DEF TypeOK
    <3>2. CountOrder[pos[v]] \in Fields
      BY CountOrderFields DEF TypeOK
    <3>3. \A g \in Fields : counter'[v][g] = counter[v][g] /\ counted'[v][g] = counted[v][g]
      BY <1>0, <2>9
    <3>4. \A g \in Fields : (Taken(v, g)' = Taken(v, g)) /\ (Fresh(g)' <=> Fresh(g))
      BY DEF Taken, Fresh
    <3>5. Counting(v)' = Counting(v) /\ Collecting(v)' = Collecting(v)
      BY <3>1 DEF Counting, Collecting
    <3> QED BY <2>7, <3>1, <3>2, <3>3, <3>4, <3>5 DEF Account
  <2> QED BY <2>8, <2>9
<1> QED BY <1>1, <1>2, <1>3

LEMMA CheckStep == ASSUME NEW w \in Workers, IInv, Check(w) PROVE IInv'
<1> USE BouncerAssumption DEF IInv, Check, ForgetDatagram, worker, collector, history
<1>1. TypeOK'
  <2>1. lag' \in [Workers -> Nat]
    BY DEF TypeOK
  <2>2. wpc' \in [Workers -> {"recv", "echo", "load", "store", "check", "done"}]
    BY DEF TypeOK
  <2>3. request' \in [Workers -> Nat] /\ n' \in [Workers -> Nat] /\ reply' \in [Workers -> Nat]
    BY DEF TypeOK
  <2> QED BY <2>1, <2>2, <2>3 DEF TypeOK
<1>2. CountInv'
  BY DEF TypeOK, Counters, CountInv, Copied
<1>3. AccountInv'
  <2> SUFFICES ASSUME NEW v \in Workers, v \notin raced'
               PROVE  Account(v)'
    BY DEF AccountInv
  <2>1. Account(v)
    BY DEF AccountInv
  <2>2. v = w => wpc'[v] \in {"recv", "done"}
    BY DEF TypeOK
  <2>3. v # w => wpc'[v] = wpc[v]
    BY DEF TypeOK
  <2> QED BY <2>1, <2>2, <2>3 DEF Account, Counting, Collecting, Taken, Fresh
<1> QED BY <1>1, <1>2, <1>3

LEMMA SecondPassesStep == ASSUME IInv, SecondPasses PROVE IInv'
<1> USE BouncerAssumption DEF IInv, SecondPasses, worker, collector, history
<1>1. TypeOK'
  <2>1. lag' \in [Workers -> Nat]
    <3>1. \A v \in Workers : lag[v] \in Nat
      BY DEF TypeOK
    <3>2. lag' = [v \in Workers |-> IF lag[v] < MaxLag THEN lag[v] + 1 ELSE lag[v]]
      OBVIOUS
    <3>3. \A v \in Workers : (IF lag[v] < MaxLag THEN lag[v] + 1 ELSE lag[v]) \in Nat
      BY <3>1
    <3> QED BY ONLY <3>2, <3>3
  <2> QED BY <2>1 DEF TypeOK
<1>2. CountInv'
  BY DEF TypeOK, Counters, CountInv, Copied
<1>3. AccountInv'
  BY AccountKept
<1> QED BY <1>1, <1>2, <1>3

LEMMA SampleStep == ASSUME IInv, Sample PROVE IInv'
<1> USE BouncerAssumption DEF IInv, Sample, Zero, worker, collector, history
<1>1. TypeOK'
  BY DEF TypeOK, Counters
<1>2. CountInv'
  BY DEF TypeOK, Counters, CountInv, Copied
<1>3. AccountInv'
  BY DEF TypeOK, Counters, AccountInv, Account, Counting, Collecting, Taken, Fresh
<1> QED BY <1>1, <1>2, <1>3

LEMMA PickStep == ASSUME IInv, Pick PROVE IInv'
<1> USE BouncerAssumption DEF IInv, Pick, worker, collector, history
<1>1. TypeOK'
  BY DEF TypeOK, Counters
<1>2. CountInv'
  BY DEF TypeOK, Counters, CountInv, Copied
<1>3. AccountInv'
  <2> SUFFICES ASSUME NEW v \in Workers, v \notin raced' PROVE Account(v)'
    BY DEF AccountInv
  <2>1. v \notin raced /\ Account(v) /\ ~(Counting(v)' /\ cur' = v)
    BY DEF AccountInv, Counting
  <2>2. \A f \in Fields : /\ Taken(v, f) = 0 /\ Taken(v, f)' = 0 /\ ~(Fresh(f)')
                         /\ counter'[v][f] = counter[v][f] /\ counted'[v][f] = counted[v][f]
                         /\ reported'[v][f] = reported[v][f]
    BY DEF Taken, Fresh
  <2>3. wpc'[v] = wpc[v] /\ reg'[v] = reg[v] /\ pos'[v] = pos[v] /\ counter' = counter
    OBVIOUS
  <2>4. ~(Counting(v)' /\ Collecting(v)')
    BY <2>1 DEF Collecting
  <2> QED BY <2>1, <2>2, <2>3, <2>4 DEF Account
<1> QED BY <1>1, <1>2, <1>3

LEMMA CopyStep == ASSUME IInv, Copy PROVE IInv'
<1> USE BouncerAssumption DEF IInv, Copy, worker, collector, history
<1>1. TypeOK'
  BY DEF TypeOK, Counters
<1>2. CountInv'
  BY DEF TypeOK, Counters, CountInv, Copied
<1>3. AccountInv'
  <2> SUFFICES ASSUME NEW v \in Workers, v \notin raced'
               PROVE  Account(v)'
    BY DEF AccountInv
  <2>1. Account(v)
    BY DEF AccountInv
  <2>2. PICK f \in todo : /\ ret' = [ret EXCEPT ![f] = counter[cur][f]]
                          /\ IF todo = {f} THEN todo' = Fields /\ mpc' = "clear"
                                           ELSE todo' = todo \ {f} /\ UNCHANGED mpc
    OBVIOUS
  <2>3. f \in Fields /\ ret \in [Fields -> Nat]
    BY DEF TypeOK, Counters
  <2>4. ret'[f] = counter[cur][f] /\ \A g \in Fields : g # f => ret'[g] = ret[g]
    BY <2>2, <2>3
  <2>5. mpc' \in {"copy", "clear"} /\ (mpc' = "clear" => todo' = Fields)
    BY <2>2
  <2>6. Counting(v)' = Counting(v) /\ Collecting(v)' = Collecting(v)
    BY <2>5 DEF Counting, Collecting
  <2>7. \A g \in Fields : Taken(v, g) = 0 /\ Taken(v, g)' = 0
    BY <2>5 DEF Taken
  <2>8. cur = v => \A g \in Fields : Fresh(g)' => ret'[g] = counter[v][g]
    <3> SUFFICES ASSUME cur = v, NEW g \in Fields PROVE ret'[g] = counter[v][g] \/ ~Fresh(g)'
      OBVIOUS
    <3>1. CASE g = f
      BY <2>4, <3>1
    <3>2. CASE g # f /\ g \notin todo
      BY <2>1, <2>4, <3>2 DEF Account, Fresh
    <3>3. CASE g # f /\ g \in todo
      BY <2>2, <3>3 DEF Fresh
    <3> QED BY <3>1, <3>2, <3>3
  <2> QED BY <2>1, <2>6, <2>7, <2>8 DEF Account
<1> QED BY <1>1, <1>2, <1>3

LEMMA ClearStep == ASSUME IInv, Clear PROVE IInv'
<1> USE BouncerAssumption DEF IInv, Clear, worker, collector, history
<1>1. TypeOK'
  <2>1. PICK f \in todo :
            /\ f \in Fields
            /\ counter' \in [Workers -> Counters]
            /\ counter'[cur][f] = 0
            /\ \A v \in Workers, g \in Fields : v # cur \/ g # f => counter'[v][g] = counter[v][g]
            /\ todo' = todo \ {f}
            /\ mpc' = IF todo = {f} THEN "add" ELSE "clear"
    BY ClearEffect
  <2>2. mpc' \in {"clear", "add"}
    BY <2>1
  <2> QED BY <2>1, <2>2 DEF TypeOK
<1>2. CountInv'
  <2>1. PICK f \in todo :
            /\ f \in Fields
            /\ counter' \in [Workers -> Counters]
            /\ counter'[cur][f] = 0
            /\ \A v \in Workers, g \in Fields : v # cur \/ g # f => counter'[v][g] = counter[v][g]
            /\ todo' = todo \ {f}
            /\ mpc' = IF todo = {f} THEN "add" ELSE "clear"
    BY ClearEffect
  <2>2. \A w \in Workers, g \in Fields : counter'[w][g] <= counted[w][g]
    <3> SUFFICES ASSUME NEW w \in Workers, NEW g \in Fields
                 PROVE  counter'[w][g] <= counted[w][g]
      OBVIOUS
    <3>1. counted[w][g] \in Nat /\ counter[w][g] <= counted[w][g]
      BY DEF TypeOK, Counters, CountInv
    <3>2. CASE w = cur /\ g = f
      BY <2>1, <3>1, <3>2
    <3>3. CASE w # cur \/ g # f
      BY <2>1, <3>1, <3>3
    <3> QED BY <3>2, <3>3
  <2> QED BY <2>2 DEF CountInv, Copied
<1>3. AccountInv'
  <2>1. PICK f \in todo :
            /\ f \in Fields
            /\ counter' \in [Workers -> Counters]
            /\ counter'[cur][f] = 0
            /\ \A v \in Workers, g \in Fields : v # cur \/ g # f => counter'[v][g] = counter[v][g]
            /\ todo' = todo \ {f}
            /\ mpc' = IF todo = {f} THEN "add" ELSE "clear"
    BY ClearEffect

  <2> SUFFICES ASSUME NEW v \in Workers, v \notin raced'
               PROVE  Account(v)'
    BY DEF AccountInv
  <2>2. Account(v) /\ mpc = "clear"
    BY DEF AccountInv
  <2>3. mpc' \in {"clear", "add"}
    BY <2>1
  <2>4. Counting(v)' = Counting(v) /\ (Collecting(v)' => Collecting(v))
    BY <2>3 DEF Counting, Collecting
  <2>5. CASE v # cur
    <3>1. \A g \in Fields : counter'[v][g] = counter[v][g]
      BY <2>1, <2>5
    <3>2. CountOrder[pos[v]] \in Fields
      BY CountOrderFields DEF TypeOK
    <3>3. \A g \in Fields : Taken(v, g) = 0 /\ Taken(v, g)' = 0
      BY <2>5 DEF Taken
    <3> QED BY <2>2, <2>4, <2>5, <3>1, <3>2, <3>3 DEF Account
  <2>6. CASE v = cur
    <3>1. ~Counting(v)
      BY <2>2, <2>6 DEF Account, Collecting
    <3>2. ASSUME NEW g \in Fields
          PROVE  reported[v][g] + Taken(v, g)' + counter'[v][g] = counted[v][g]
      <4>1. reported[v][g] \in Nat /\ counter[v][g] \in Nat /\ ret[g] \in Nat
        BY DEF TypeOK, Counters
      <4>2. reported[v][g] + Taken(v, g) + counter[v][g] = counted[v][g]
        BY <2>2 DEF Account
      <4>3. CASE g = f
        <5>1. Taken(v, g) = 0 /\ ret[g] = counter[v][g]
          BY <2>1, <2>2, <2>6, <4>3 DEF Taken, Fresh, Account
        <5>2. Taken(v, g)' = ret[g] /\ counter'[v][g] = 0
          BY <2>1, <2>3, <2>6, <4>3 DEF Taken
        <5> QED BY <4>1, <4>2, <5>1, <5>2
      <4>4. CASE g # f /\ g \in todo
        <5>1. mpc' = "clear" /\ g \in todo'
          BY <2>1, <4>4
        <5>2. Taken(v, g) = 0 /\ Taken(v, g)' = 0
          BY <2>2, <4>4, <5>1 DEF Taken
        <5> QED BY <2>1, <4>2, <4>4, <5>2
      <4>5. CASE g # f /\ g \notin todo
        <5>1. g \notin todo'
          BY <2>1, <4>5
        <5>2. Taken(v, g) = ret[g] /\ Taken(v, g)' = ret[g]
          BY <2>2, <2>3, <2>6, <4>5, <5>1 DEF Taken
        <5> QED BY <2>1, <4>2, <4>5, <5>2
      <4> QED BY <4>3, <4>4, <4>5
    <3>3. ASSUME NEW g \in Fields, Fresh(g)' PROVE ret[g] = counter'[v][g]
      <4>1. g \in todo' /\ g \in todo /\ g # f
        BY <2>1, <2>3, <3>3 DEF Fresh
      <4>2. ret[g] = counter[v][g]
        BY <2>2, <2>6, <4>1 DEF Account, Fresh
      <4> QED BY <2>1, <4>1, <4>2
    <3>4. wpc[v] # "store" /\ ~Counting(v)'
      BY <2>4, <3>1 DEF Counting
    <3> QED BY <2>6, <3>2, <3>3, <3>4 DEF Account
  <2> QED BY <2>5, <2>6
<1> QED BY <1>1, <1>2, <1>3

LEMMA AddStep == ASSUME IInv, Add PROVE IInv'
<1> USE BouncerAssumption DEF IInv, Add, Zero, worker, collector, history
<1>1. TypeOK'
  <2>0. cur \in Workers /\ ret \in [Fields -> Nat] /\ reported \in [Workers -> [Fields -> Nat]]
    BY DEF TypeOK, Counters
  <2>1. reported' = [reported EXCEPT ![cur] = [f \in Fields |-> reported[cur][f] + ret[f]]]
    OBVIOUS
  <2>2. [f \in Fields |-> reported[cur][f] + ret[f]] \in [Fields -> Nat]
    BY ONLY <2>0
  <2>3. reported' \in [Workers -> Counters]
    BY ONLY <2>0, <2>1, <2>2 DEF Counters
  <2>4. total' \in Counters /\ ret' \in Counters
    <3>1. total \in [Fields -> Nat] /\ total' = [f \in Fields |-> total[f] + ret[f]]
      BY DEF TypeOK, Counters
    <3>2. ret' = [f \in Fields |-> 0]
      OBVIOUS
    <3> QED BY ONLY <2>0, <3>1, <3>2 DEF Counters
  <2> QED BY <2>3, <2>4 DEF TypeOK
<1>2. CountInv'
  BY DEF TypeOK, Counters, CountInv, Copied
<1>3. AccountInv'
  <2>0. cur \in Workers /\ ret \in [Fields -> Nat] /\ reported \in [Workers -> [Fields -> Nat]]
    BY DEF TypeOK, Counters
  <2>1. reported' = [reported EXCEPT ![cur] = [f \in Fields |-> reported[cur][f] + ret[f]]]
    OBVIOUS
  <2>2. [f \in Fields |-> reported[cur][f] + ret[f]] \in [Fields -> Nat]
    BY ONLY <2>0

  <2> SUFFICES ASSUME NEW v \in Workers, v \notin raced'
               PROVE  Account(v)'
    BY DEF AccountInv
  <2>3. Account(v) /\ mpc = "add" /\ mpc' \in {"sleep", "pick"}
    BY DEF AccountInv
  <2>4. ~Collecting(v)' /\ \A g \in Fields : ~Fresh(g)'
    BY <2>3 DEF Collecting, Fresh
  <2>5. ASSUME NEW g \in Fields
        PROVE  reported'[v][g] + Taken(v, g)' + counter[v][g] = counted[v][g]
    <3>1. Taken(v, g)' = 0
      BY <2>3 DEF Taken
    <3>2. reported[v][g] + Taken(v, g) + counter[v][g] = counted[v][g]
      BY <2>3 DEF Account
    <3>3. /\ reported[v][g] \in Nat /\ counter[v][g] \in Nat /\ ret[g] \in Nat
      BY <2>0 DEF TypeOK, Counters
    <3>4. CASE v = cur
      <4>1. Taken(v, g) = ret[g]
        BY <2>3, <3>4 DEF Taken
      <4>2. reported'[v][g] = reported[v][g] + ret[g]
        BY ONLY <2>0, <2>1, <3>4
      <4> QED BY ONLY <3>1, <3>2, <3>3, <4>1, <4>2
    <3>5. CASE v # cur
      <4>1. Taken(v, g) = 0
        BY <3>5 DEF Taken
      <4>2. reported'[v][g] = reported[v][g]
        BY ONLY <2>0, <2>1, <3>5
      <4> QED BY ONLY <3>1, <3>2, <3>3, <4>1, <4>2
    <3> QED BY <3>4, <3>5
  <2> QED BY <2>3, <2>4, <2>5 DEF Account
<1> QED BY <1>1, <1>2, <1>3

LEMMA InterruptStep == ASSUME IInv, Interrupt PROVE IInv'
<1> USE BouncerAssumption DEF IInv, Interrupt, worker, collector, history
<1>1. TypeOK'
  BY DEF TypeOK, Counters
<1>2. CountInv'
  BY DEF TypeOK, Counters, CountInv, Copied
<1>3. AccountInv'
  BY DEF TypeOK, Counters, AccountInv, Account, Counting, Collecting, Taken, Fresh
<1> QED BY <1>1, <1>2, <1>3

LEMMA StoppedStep == ASSUME IInv, Stopped PROVE IInv'
<1> USE BouncerAssumption DEF IInv, Stopped, worker, collector, history
<1>1. TypeOK'
  BY DEF TypeOK, Counters
<1>2. CountInv'
  BY DEF TypeOK, Counters, CountInv, Copied
<1>3. AccountInv'
  BY DEF TypeOK, Counters, AccountInv, Account, Counting, Collecting, Taken, Fresh
<1> QED BY <1>1, <1>2, <1>3

LEMMA StutterStep == IInv /\ UNCHANGED vars => IInv'
BY DEF IInv, TypeOK, CountInv, AccountInv, Account, Copied, Taken, Fresh, Counting, Collecting,
       vars, worker, collector, history

LEMMA NextStep == IInv /\ [Next]_vars => IInv'
<1> SUFFICES ASSUME IInv, [Next]_vars PROVE IInv'
  OBVIOUS
<1>1. ASSUME NEW w \in Workers, Datagram(w) \/ Worker(w) PROVE IInv'
  BY <1>1, DatagramStep, ReceiveStep, WaitReadableStep, EchoStep, LoadStep, StoreStep,
     CheckStep DEF Worker
<1>2. CASE SecondPasses \/ Main
  BY <1>2, SecondPassesStep, SampleStep, PickStep, CopyStep, ClearStep, AddStep,
     InterruptStep, StoppedStep DEF Main
<1>3. CASE UNCHANGED vars
  BY <1>3, StutterStep
<1> QED BY <1>1, <1>2, <1>3 DEF Next

\* The inductive invariant holds in every reachable state.
THEOREM Invariance == Spec => []IInv
BY InitIInv, NextStep, PTL DEF Spec

\* Type correctness of workers and collector.
THEOREM TypeCorrect == Spec => []TypeOK
<1>1. IInv => TypeOK
  BY DEF IInv
<1> QED BY <1>1, Invariance, PTL

\* However updates and clearing interleave, neither a counter nor a value
\* collected from it exceeds what the worker counted.
THEOREM NeverOvercounts == Spec => []CounterBounded
<1>1. IInv => CounterBounded
  BY DEF IInv, CountInv, CounterBounded, Copied
<1> QED BY <1>1, Invariance, PTL

\* Without an overlap nothing is lost and nothing is reported twice.
THEOREM ExactWithoutRace == Spec => []ExactUnlessRaced
<1>1. IInv => ExactUnlessRaced
  <2> SUFFICES ASSUME IInv, NEW w \in Workers, NEW f \in Fields, w \notin raced,
                      mpc \in {"copy", "clear", "add"} => cur # w
               PROVE  reported[w][f] + counter[w][f] = counted[w][f]
    BY DEF ExactUnlessRaced
  <2>1. Taken(w, f) = 0
    BY DEF Taken
  <2>2. reported[w][f] + Taken(w, f) + counter[w][f] = counted[w][f]
    BY DEF IInv, AccountInv, Account
  <2>3. reported[w][f] \in Nat
    BY DEF IInv, TypeOK, Counters
  <2> QED BY <2>1, <2>2, <2>3
<1> QED BY <1>1, Invariance, PTL

-----------------------------------------------------------------------------
(* The sum of a pass                                                       *)

\* All workers' counts of one field.
CountsOf(f) == [w \in Workers |-> counted[w][f]]

\* The sum so far is of the workers that are no longer left, and the one being
\* collected is still left: it is added once.
CollectInv ==
    /\ mpc \in {"copy", "clear", "add"} => cur \in left
    /\ \A f \in Fields : total[f] <= SumFunctionOnSet(CountsOf(f), Workers \ left)

LEMMA InitCollectInv == Init => CollectInv
<1> SUFFICES ASSUME Init PROVE CollectInv
  OBVIOUS
<1>1. ASSUME NEW f \in Fields
      PROVE  total[f] <= SumFunctionOnSet(CountsOf(f), Workers \ left)
  <2>1. \A w \in Workers \ left : CountsOf(f)[w] = 0
    BY DEF Init, Zero, CountsOf
  <2>2. IsFiniteSet(Workers \ left)
    BY BouncerAssumption, FS_Difference
  <2>3. SumFunctionOnSet(CountsOf(f), Workers \ left) = 0
    BY <2>1, <2>2, SumZero
  <2> QED BY <2>3 DEF Init, Zero
<1> QED BY <1>1 DEF Init, CollectInv

\* What workers have counted only grows, and so does its sum over any of them.
LEMMA CountedGrows ==
    ASSUME TypeOK, TypeOK', [Next]_vars, NEW f \in Fields, NEW S \in SUBSET Workers
    PROVE  /\ SumFunctionOnSet(CountsOf(f), S) \in Int
           /\ SumFunctionOnSet(CountsOf(f)', S) \in Int
           /\ SumFunctionOnSet(CountsOf(f), S) <= SumFunctionOnSet(CountsOf(f)', S)
<1>1. IsFiniteSet(S)
  BY BouncerAssumption, FS_Subset
<1>2. \A w \in S : counted[w][f] \in Nat /\ counted'[w][f] \in Nat
  BY DEF TypeOK, Counters
<1>3. \A w \in S : counted[w][f] <= counted'[w][f]
  <2>1. ASSUME NEW w \in Workers, Store(w) PROVE \A v \in S : counted[v][f] <= counted'[v][f]
    <3> DEFINE g == CountOrder[pos[w]]
    <3>1. /\ Added(w, g) \in Nat /\ counted'[w][g] = counted[w][g] + Added(w, g)
          /\ \A v \in Workers, h \in Fields : v # w \/ h # g => counted'[v][h] = counted[v][h]
      BY <2>1, StoreEffect
    <3> HIDE DEF g
    <3>2. ASSUME NEW v \in S PROVE counted[v][f] <= counted'[v][f]
      BY <1>2, <3>1
    <3> QED BY <3>2
  <2>2. CASE ~\E w \in Workers : Store(w)
    <3>1. UNCHANGED counted
      BY <2>2 DEF Next, Datagram, SecondPasses, Main, Worker, Receive, WaitReadable, Echo, Load,
          Check, Sample, Pick, Copy, Clear, Add, Interrupt, Stopped, history, vars
    <3> QED BY <1>2, <3>1
  <2> QED BY <2>1, <2>2
<1>4. \A w \in S : /\ CountsOf(f)[w] \in Int /\ CountsOf(f)'[w] \in Int
                   /\ CountsOf(f)[w] <= CountsOf(f)'[w]
  BY <1>2, <1>3 DEF CountsOf
<1> QED BY <1>1, <1>4, SumInt, SumMonotone

LEMMA NextCollectInv == IInv /\ CollectInv /\ [Next]_vars => CollectInv'
<1> SUFFICES ASSUME IInv, CollectInv, [Next]_vars PROVE CollectInv'
  OBVIOUS
<1>0. TypeOK /\ TypeOK' /\ left \subseteq Workers /\ left' \subseteq Workers
  BY NextStep DEF IInv, TypeOK
<1> SUFFICES /\ mpc' \in {"copy", "clear", "add"} => cur' \in left'
             /\ \A f \in Fields :
                    total'[f] <= SumFunctionOnSet(CountsOf(f)', Workers \ left')
  BY DEF CollectInv
<1> DEFINE Counts(f, S) == SumFunctionOnSet(CountsOf(f), S)
<1>1. CASE Sample
  <2>1. ASSUME NEW f \in Fields
        PROVE  total'[f] <= SumFunctionOnSet(CountsOf(f)', Workers \ left')
    <3>1. Workers \ left' = {} /\ total'[f] = 0
      BY <1>1 DEF Sample, Zero
    <3>2. \A e : SumFunctionOnSet(e, Workers \ left') = 0
      BY <3>1, SumEmpty
    <3> QED BY <3>1, <3>2
  <2> QED BY <1>1, <2>1 DEF Sample
<1>2. CASE Add
  <2>1. /\ cur \in left /\ left' = left \ {cur} /\ UNCHANGED counted
        /\ \A f \in Fields : total'[f] = total[f] + ret[f] /\ ret[f] <= counted[cur][f]
        /\ mpc' \notin {"copy", "clear", "add"}
    BY <1>2 DEF Add, CollectInv, IInv, CountInv, Copied
  <2>2. ASSUME NEW f \in Fields
        PROVE  total'[f] <= SumFunctionOnSet(CountsOf(f)', Workers \ left')
    <3> DEFINE S == Workers \ left'
    <3>1. CountsOf(f)' = CountsOf(f)
      BY <2>1 DEF CountsOf
    <3>2. IsFiniteSet(S) /\ cur \in S /\ S \ {cur} = Workers \ left
      BY <1>0, <2>1, BouncerAssumption, FS_Difference
    <3>3. \A w \in S : CountsOf(f)[w] \in Int
      BY <1>0 DEF TypeOK, Counters, CountsOf
    <3>4. SumFunctionOnSet(CountsOf(f), S)
              = CountsOf(f)[cur] + SumFunctionOnSet(CountsOf(f), Workers \ left)
      <4> HIDE DEF S
      <4> QED BY <3>2, <3>3, SumRemove
    <3>5. SumFunctionOnSet(CountsOf(f), Workers \ left) \in Int
      BY <1>0, CountedGrows
    <3>6. /\ total[f] \in Int /\ ret[f] \in Int /\ counted[cur][f] \in Int
          /\ CountsOf(f)[cur] = counted[cur][f]
      BY <1>0 DEF TypeOK, Counters, CountsOf
    <3>7. total[f] <= SumFunctionOnSet(CountsOf(f), Workers \ left)
      BY DEF CollectInv
    <3> QED BY <2>1, <3>1, <3>4, <3>5, <3>6, <3>7
  <2> QED BY <2>1, <2>2
<1>3. CASE ~Sample /\ ~Add
  <2>1. UNCHANGED <<total, left>>
    BY <1>3 DEF Next, Datagram, SecondPasses, Main, Worker, Receive, WaitReadable, Echo, Load,
        Store, Check, Pick, Copy, Clear, Interrupt, Stopped, worker, collector, history, vars
  <2>2. mpc' \in {"copy", "clear", "add"} => cur' \in left'
    <3>1. CASE Pick
      BY <3>1 DEF Pick
    <3>2. CASE ~Pick
      <4>1. /\ cur' = cur
            /\ mpc' \in {"copy", "clear", "add"} => mpc \in {"copy", "clear", "add"}
        BY <1>3, <3>2 DEF Next, Datagram, SecondPasses, Main, Worker, Receive, WaitReadable, Echo,
            Load, Store, Check, Copy, Clear, Interrupt, Stopped, worker, collector, history, vars
      <4> QED BY <2>1, <4>1 DEF CollectInv
    <3> QED BY <3>1, <3>2
  <2>3. ASSUME NEW f \in Fields
        PROVE  total'[f] <= SumFunctionOnSet(CountsOf(f)', Workers \ left')
    <3>1. /\ SumFunctionOnSet(CountsOf(f), Workers \ left) \in Int
          /\ SumFunctionOnSet(CountsOf(f)', Workers \ left) \in Int
          /\ SumFunctionOnSet(CountsOf(f), Workers \ left)
                 <= SumFunctionOnSet(CountsOf(f)', Workers \ left)
      BY <1>0, CountedGrows
    <3>2. total[f] <= SumFunctionOnSet(CountsOf(f), Workers \ left)
      BY DEF CollectInv
    <3>3. total[f] \in Int
      BY <1>0 DEF TypeOK, Counters
    <3> QED BY <2>1, <3>1, <3>2, <3>3
  <2> QED BY <2>2, <2>3
<1> QED BY <1>1, <1>2, <1>3

\* The status line of getCounter(), which adds workers collected at different
\* times while all of them go on counting, never shows more than all workers have
\* counted, for any number of workers and passes.
THEOREM SumNeverOvercounts == Spec => []ReportBounded
<1>1. Spec => []CollectInv
  <2>1. IInv /\ CollectInv /\ [Next]_vars => CollectInv'
    BY NextCollectInv
  <2> QED BY Invariance, InitCollectInv, <2>1, PTL DEF Spec
<1>2. IInv /\ CollectInv => ReportBounded
  <2> SUFFICES ASSUME IInv, CollectInv, NEW f \in Fields
               PROVE  total[f] <= SumFunction(CountsOf(f))
    BY DEF ReportBounded, CountsOf
  <2> DEFINE done == Workers \ left
  <2>1. IsFiniteSet(Workers) /\ IsFiniteSet(done) /\ IsFiniteSet(left) /\ left \subseteq Workers
    BY BouncerAssumption, FS_Difference, FS_Subset DEF IInv, TypeOK
  <2>2. total[f] <= SumFunctionOnSet(CountsOf(f), done)
    BY DEF CollectInv
  <2>7. total[f] \in Int
    BY DEF IInv, TypeOK, Counters
  <2>3. \A w \in Workers : CountsOf(f)[w] \in Nat
    BY DEF IInv, TypeOK, Counters, CountsOf
  <2>4. SumFunctionOnSet(CountsOf(f), done) <= SumFunctionOnSet(CountsOf(f), Workers)
    BY <2>1, <2>3, SumOfSubset
  <2>5. /\ SumFunctionOnSet(CountsOf(f), done) \in Int
        /\ SumFunctionOnSet(CountsOf(f), Workers) \in Int
    BY <2>1, <2>3, SumInt
  <2>6. SumFunction(CountsOf(f)) = SumFunctionOnSet(CountsOf(f), Workers)
    BY DEF SumFunction, CountsOf
  <2> HIDE DEF done
  <2> QED BY <2>2, <2>4, <2>5, <2>6, <2>7
<1> QED BY <1>1, <1>2, Invariance, PTL

=============================================================================
