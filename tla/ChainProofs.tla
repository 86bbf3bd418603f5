---------------------------- MODULE ChainProofs ----------------------------
(***************************************************************************)
(* Proofs about ChainDatabase, for every block tree, every set of          *)
(* transactions and every size of the undo history.                        *)
(***************************************************************************)
EXTENDS ChainDatabase, NumberLemmas, SequenceTheorems, TLAPS

-----------------------------------------------------------------------------
(***************************************************************************)
(* Recursion along previous: the functions Num, Path and Replayed exist,   *)
(* because going back from a block ends at NoBlock.  A partial solution is *)
(* one on a set of blocks that is closed under previous; two of them agree *)
(* where both are defined, and together they cover the tree.               *)
(***************************************************************************)
Closed(S) == S \subseteq Blocks /\ \A b \in S : Prev[b] \in S \cup {NoBlock}

Solves(D, base, G, S, f) ==
  /\ f \in [S \cup {NoBlock} -> D]
  /\ f[NoBlock] = base
  /\ \A b \in S : f[b] = G[<<f[Prev[b]], b>>]

HasSolution(D, base, G) ==
  \E f \in [Ids -> D] :
    f[NoBlock] = base /\ \A b \in Blocks : f[b] = G[<<f[Prev[b]], b>>]

\* What every block inherits from its predecessor holds of all blocks: a set
\* of exceptions that contains the predecessors of its members is empty.
LEMMA NoException ==
  ASSUME NEW X \in SUBSET Blocks, \A b \in X : Prev[b] \in X
  PROVE  X = {}
BY BlockAssumption

\* Partial solutions agree.
LEMMA SolutionsAgree ==
  ASSUME NEW D, NEW base, NEW G, NEW S, NEW T, NEW f, NEW g,
         Closed(S), Closed(T), Solves(D, base, G, S, f), Solves(D, base, G, T, g)
  PROVE  \A b \in (S \cap T) \cup {NoBlock} : f[b] = g[b]
<1> DEFINE X == {b \in S \cap T : f[b] # g[b]}
<1>1. X \in SUBSET Blocks
  BY DEF Closed
<1>2. \A b \in X : Prev[b] \in X
  <2> SUFFICES ASSUME NEW b \in X, Prev[b] \notin X PROVE FALSE
    OBVIOUS
  <2>1. Prev[b] \in (S \cap T) \cup {NoBlock}
    BY BlockAssumption DEF Closed
  <2>2. f[Prev[b]] = g[Prev[b]]
    BY <2>1 DEF Solves
  <2> QED BY <2>2 DEF Solves
<1>3. X = {}
  BY <1>1, <1>2, NoException
<1> QED BY <1>3 DEF Solves

\* Every block is in a closed set with a partial solution.
LEMMA SolutionsCover ==
  ASSUME NEW D, NEW base \in D, NEW G \in [D \X Blocks -> D], NEW c \in Blocks
  PROVE  \E S, f : c \in S /\ Closed(S) /\ Solves(D, base, G, S, f)
<1> DEFINE X == {b \in Blocks : ~ \E S, f : b \in S /\ Closed(S) /\ Solves(D, base, G, S, f)}
<1>1. \A b \in X : Prev[b] \in X
  <2> SUFFICES ASSUME NEW b \in X, Prev[b] \notin X PROVE FALSE
    OBVIOUS
  <2>0. b \in Blocks /\ b # NoBlock
    BY BlockAssumption
  <2>1. \E S, f : Prev[b] \in S \cup {NoBlock} /\ Closed(S) /\ Solves(D, base, G, S, f)
    <3>1. CASE Prev[b] = NoBlock
      <4> DEFINE f0 == [x \in {} \cup {NoBlock} |-> base]
      <4>1. Closed({}) /\ Solves(D, base, G, {}, f0)
        BY DEF Closed, Solves
      <4> QED BY <3>1, <4>1
    <3>2. CASE Prev[b] # NoBlock
      <4>1. Prev[b] \in Blocks
        BY <3>2, BlockAssumption DEF Ids
      <4> QED BY <4>1
    <3> QED BY <3>1, <3>2
  <2>2. PICK S, f : Prev[b] \in S \cup {NoBlock} /\ Closed(S) /\ Solves(D, base, G, S, f)
    BY <2>1
  <2>3. b \notin S
    BY <2>2
  <2> DEFINE S2 == S \cup {b}
             f2 == [x \in S2 \cup {NoBlock} |-> IF x = b THEN G[<<f[Prev[b]], b>>] ELSE f[x]]
  <2>4. Closed(S2)
    BY <2>0, <2>2 DEF Closed
  <2>5. f[Prev[b]] \in D /\ G[<<f[Prev[b]], b>>] \in D
    BY <2>0, <2>2 DEF Solves
  <2>6. \A x \in S \cup {NoBlock} : f2[x] = f[x]
    BY <2>0, <2>3
  <2>7. Solves(D, base, G, S2, f2)
    <3>1. f2 \in [S2 \cup {NoBlock} -> D]
      BY <2>2, <2>5 DEF Solves
    <3>2. f2[b] = G[<<f2[Prev[b]], b>>]
      BY <2>2, <2>6
    <3>3. \A x \in S : f2[x] = G[<<f2[Prev[x]], x>>]
      BY <2>2, <2>6 DEF Solves, Closed
    <3>4. f2[NoBlock] = base
      BY <2>2, <2>6 DEF Solves
    <3> QED BY <3>1, <3>2, <3>3, <3>4 DEF Solves
  <2> QED BY <2>4, <2>7
<1>2. X = {}
  <2> HIDE DEF X
  <2>1. X \in SUBSET Blocks
    BY DEF X
  <2> QED BY <1>1, <2>1, NoException
<1> QED BY <1>2

\* There is a solution on the whole tree.
LEMMA TreeRecursion ==
  ASSUME NEW D, NEW base \in D, NEW G \in [D \X Blocks -> D]
  PROVE  HasSolution(D, base, G)
<1> DEFINE Has(b, v) == \E S, f : b \in S /\ Closed(S) /\ Solves(D, base, G, S, f) /\ v = f[b]
           h == [b \in Ids |-> IF b = NoBlock THEN base ELSE CHOOSE v : Has(b, v)]
<1>1. \A b \in Blocks : Has(b, h[b])
  <2> SUFFICES ASSUME NEW b \in Blocks PROVE Has(b, h[b])
    OBVIOUS
  <2>1. \E v : Has(b, v)
    BY SolutionsCover
  <2>2. b \in Ids /\ b # NoBlock
    BY BlockAssumption DEF Ids
  <2>3. h[b] = CHOOSE v : Has(b, v)
    BY <2>2
  <2> HIDE DEF Has, h
  <2> QED BY <2>1, <2>3
<1>2. h[NoBlock] = base
  BY DEF Ids
<1> HIDE DEF h
<1>3. \A b \in Blocks : h[b] \in D /\ h[b] = G[<<h[Prev[b]], b>>]
  <2> SUFFICES ASSUME NEW b \in Blocks PROVE h[b] \in D /\ h[b] = G[<<h[Prev[b]], b>>]
    OBVIOUS
  <2>1. PICK S, f : b \in S /\ Closed(S) /\ Solves(D, base, G, S, f) /\ h[b] = f[b]
    BY <1>1
  <2>2. h[Prev[b]] = f[Prev[b]]
    <3>1. CASE Prev[b] = NoBlock
      BY <1>2, <2>1, <3>1 DEF Solves
    <3>2. CASE Prev[b] # NoBlock
      <4>1. Prev[b] \in S /\ Prev[b] \in Blocks
        BY <2>1, <3>2 DEF Closed
      <4>2. PICK T, g : Prev[b] \in T /\ Closed(T) /\ Solves(D, base, G, T, g) /\ h[Prev[b]] = g[Prev[b]]
        BY <1>1, <4>1
      <4> QED BY <2>1, <4>1, <4>2, SolutionsAgree
    <3> QED BY <3>1, <3>2
  <2> QED BY <2>1, <2>2 DEF Solves
<1>4. h \in [Ids -> D]
  BY <1>2, <1>3 DEF h, Ids
<1> QED BY <1>2, <1>3, <1>4 DEF HasSolution

-----------------------------------------------------------------------------
(* block numbers and chains *)

\* The number of a block is one more than its predecessor's.
LEMMA NumFacts ==
  /\ Num \in [Ids -> Nat]
  /\ Num[NoBlock] = 0
  /\ \A b \in Blocks : Prev[b] \in Ids /\ b \in Ids /\ b # NoBlock /\ Num[b] = Num[Prev[b]] + 1
<1> DEFINE G == [p \in Nat \X Blocks |-> p[1] + 1]
           Solution(f) == f = [b \in Ids |-> IF b = NoBlock THEN 0 ELSE f[Prev[b]] + 1]
<1>0. \A b \in Blocks : Prev[b] \in Ids /\ b \in Ids /\ b # NoBlock
  BY BlockAssumption DEF Ids
<1>1. G \in [Nat \X Blocks -> Nat]
  OBVIOUS
<1>2. PICK f \in [Ids -> Nat] : f[NoBlock] = 0 /\ \A b \in Blocks : f[b] = G[<<f[Prev[b]], b>>]
  <2> HIDE DEF G
  <2>1. 0 \in Nat
    OBVIOUS
  <2>2. HasSolution(Nat, 0, G)
    BY <1>1, <2>1, TreeRecursion, Zenon
  <2> QED BY <2>2 DEF HasSolution
<1>3. \A b \in Blocks : f[b] = f[Prev[b]] + 1
  BY <1>0, <1>2
<1>4. Solution(f)
  BY <1>0, <1>2, <1>3 DEF Ids
<1> HIDE DEF G
<1>5. Solution(Num)
  BY <1>4, Zenon DEF Num
<1>6. \A b \in Blocks : Num[b] = Num[Prev[b]] + 1
  BY <1>0, <1>5
<1>7. Num[NoBlock] = 0
  BY <1>5 DEF Ids
<1>8. {b \in Blocks : Num[b] \notin Nat} = {}
  <2> DEFINE X == {b \in Blocks : Num[b] \notin Nat}
  <2>1. \A b \in X : Prev[b] \in X
    BY <1>0, <1>6, <1>7 DEF Ids
  <2> QED BY <2>1, NoException
<1>9. \A b \in Ids : Num[b] \in Nat
  BY <1>7, <1>8 DEF Ids
<1>10. Num \in [Ids -> Nat]
  BY <1>5, <1>9
<1> QED BY <1>0, <1>6, <1>7, <1>10

\* The chain of a block is the chain of its predecessor and the block; it
\* begins with a block that has no predecessor.
LEMMA PathFacts ==
  /\ \A b \in Ids : Path[b] \in Seq(Blocks) /\ Len(Path[b]) = Num[b]
  /\ \A b \in Blocks : Path[b] = Append(Path[Prev[b]], b)
  /\ \A b \in Blocks : Num[b] >= 1 /\ Prev[Path[b][1]] = NoBlock
<1> DEFINE G == [p \in Seq(Blocks) \X Blocks |-> Append(p[1], p[2])]
           Solution(f) == f = [b \in Ids |-> IF b = NoBlock THEN <<>> ELSE Append(f[Prev[b]], b)]
<1>1. G \in [Seq(Blocks) \X Blocks -> Seq(Blocks)] /\ <<>> \in Seq(Blocks)
  OBVIOUS
<1>2. PICK f \in [Ids -> Seq(Blocks)] :
        f[NoBlock] = <<>> /\ \A b \in Blocks : f[b] = G[<<f[Prev[b]], b>>]
  <2> HIDE DEF G
  <2>1. HasSolution(Seq(Blocks), <<>>, G)
    BY <1>1, TreeRecursion, Zenon
  <2> QED BY <2>1 DEF HasSolution
<1>3. \A b \in Blocks : f[b] = Append(f[Prev[b]], b)
  BY <1>2, NumFacts
<1>4. Solution(f)
  BY <1>2, <1>3, NumFacts DEF Ids
<1> HIDE DEF G
<1>5. Solution(Path)
  BY <1>4, Zenon DEF Path
<1>6. \A b \in Blocks : Path[b] = Append(Path[Prev[b]], b)
  BY <1>5, NumFacts
<1>7. Path[NoBlock] = <<>>
  BY <1>5 DEF Ids
<1>8. \A b \in Blocks : Path[b] \in Seq(Blocks) /\ Len(Path[b]) = Num[b]
  <2> DEFINE X == {b \in Blocks : ~(Path[b] \in Seq(Blocks) /\ Len(Path[b]) = Num[b])}
  <2>1. \A b \in X : Prev[b] \in X
    <3> SUFFICES ASSUME NEW b \in Blocks, Prev[b] \notin X
                 PROVE  Path[b] \in Seq(Blocks) /\ Len(Path[b]) = Num[b]
      OBVIOUS
    <3>1. Path[Prev[b]] \in Seq(Blocks) /\ Len(Path[Prev[b]]) = Num[Prev[b]]
      <4>1. CASE Prev[b] = NoBlock
        <5>1. Path[NoBlock] \in Seq(Blocks) /\ Len(Path[NoBlock]) = 0
          BY <1>7
        <5>2. Num[NoBlock] = 0
          BY NumFacts
        <5> QED BY <4>1, <5>1, <5>2
      <4>2. CASE Prev[b] # NoBlock
        BY <4>2, NumFacts DEF Ids
      <4> QED BY <4>1, <4>2
    <3>2. Num[b] = Num[Prev[b]] + 1 /\ Path[b] = Append(Path[Prev[b]], b)
      BY <1>6, NumFacts
    <3> QED BY <3>1, <3>2
  <2>2. X = {}
    BY <2>1, NoException
  <2> QED BY <2>2
<1>9. \A b \in Ids : Path[b] \in Seq(Blocks) /\ Len(Path[b]) = Num[b]
  <2>1. Path[NoBlock] \in Seq(Blocks) /\ Len(Path[NoBlock]) = Num[NoBlock]
    BY <1>7, NumFacts
  <2> QED BY <1>8, <2>1 DEF Ids
<1>10. \A b \in Blocks : Num[b] >= 1
  BY NumFacts
<1>11. \A b \in Blocks : Prev[Path[b][1]] = NoBlock
  <2> DEFINE X == {b \in Blocks : Prev[Path[b][1]] # NoBlock}
  <2>1. \A b \in X : Prev[b] \in X
    <3> SUFFICES ASSUME NEW b \in Blocks, Prev[b] \notin X PROVE Prev[Path[b][1]] = NoBlock
      OBVIOUS
    <3>1. CASE Prev[b] = NoBlock
      BY <1>6, <1>7, <3>1
    <3>2. CASE Prev[b] # NoBlock
      <4>1. Prev[b] \in Blocks /\ Prev[Path[Prev[b]][1]] = NoBlock
        BY <3>2, NumFacts DEF Ids
      <4>2. Path[Prev[b]] \in Seq(Blocks) /\ Len(Path[Prev[b]]) >= 1
        BY <1>9, <1>10, <4>1, NumFacts
      <4>3. Path[b][1] = Path[Prev[b]][1]
        BY <1>6, <4>2
      <4> QED BY <4>1, <4>3
    <3> QED BY <3>1, <3>2
  <2>2. X = {}
    BY <2>1, NoException
  <2> QED BY <2>2
<1> QED BY <1>6, <1>9, <1>10, <1>11

\* fetch_branch_from returns two branches that are not empty.
LEMMA BranchFacts ==
  ASSUME NEW first \in Blocks, NEW second \in Blocks
  PROVE  BranchFrom(first, second) \in Seq(Blocks) /\ BranchFrom(first, second) # <<>>
<1> DEFINE m == Min({Num[first], Num[second]})
           I == {i \in 1 .. m : Prev[Path[first][i]] = Prev[Path[second][i]]}
           n == DivergeAt(first, second)
<1>1. Num[first] \in Nat /\ Num[second] \in Nat /\ Num[first] >= 1 /\ Num[second] >= 1
  BY NumFacts, PathFacts
<1>2. m \in Nat /\ m >= 1 /\ m <= Num[first]
  <2>1. m \in {Num[first], Num[second]} /\ m <= Num[first]
    BY <1>1, MinMaxOfTwo, Num[first] \in Int, Num[second] \in Int
  <2> QED BY <1>1, <2>1
<1> HIDE DEF m
<1>3. 1 \in I /\ I \subseteq Nat /\ \A i \in I : i <= m
  BY <1>2, PathFacts
<1>4. n = Max(I)
  BY DEF DivergeAt, m
<1> HIDE DEF I, n
<1>5. n \in I
  BY <1>2, <1>3, <1>4, MaxOfBounded
<1>6. n \in 1 .. Num[first]
  <2>1. n \in 1 .. m
    BY <1>5 DEF I
  <2> QED BY <1>1, <1>2, <2>1
<1>7. BranchFrom(first, second) = SubSeq(Path[first], n, Num[first])
  BY DEF BranchFrom, n
<1>8. Path[first] \in Seq(Blocks) /\ Len(Path[first]) = Num[first]
  BY PathFacts, NumFacts
<1> QED BY <1>1, <1>6, <1>7, <1>8

-----------------------------------------------------------------------------
(***************************************************************************)
(* The loops over transactions.  A loop is a function from the number of   *)
(* passes to what they have made; step is the body of the loop as a        *)
(* function on D, a set the body does not leave.                           *)
(***************************************************************************)
Loop(D, d, ts, step, n, f) ==
  /\ f \in [0..n -> D]
  /\ f[0] = d
  /\ \A i \in 1..n : f[i] = step[<<f[i - 1], ts[i]>>]

\* Every loop over a sequence comes to its end.
LEMMA LoopExists ==
  ASSUME NEW D, NEW d \in D, NEW ts \in Seq(Txs), NEW step \in [D \X Txs -> D]
  PROVE  \E f : Loop(D, d, ts, step, Len(ts), f)
<1> DEFINE n == Len(ts)
           T == {i \in 0..n : \E f : Loop(D, d, ts, step, i, f)}
<1>0. n \in Nat /\ \A i \in 1..n : ts[i] \in Txs
  OBVIOUS
<1>1. 0 \in T
  <2> DEFINE f == [i \in 0..0 |-> d]
  <2>1. Loop(D, d, ts, step, 0, f)
    BY DEF Loop
  <2> QED BY <1>0, <2>1
<1>2. \A i \in 1..n : i - 1 \in T => i \in T
  <2> SUFFICES ASSUME NEW i \in 1..n, i - 1 \in T PROVE i \in T
    OBVIOUS
  <2>1. PICK f : Loop(D, d, ts, step, i - 1, f)
    OBVIOUS
  <2> DEFINE g == [j \in 0..i |-> IF j = i THEN step[<<f[i - 1], ts[i]>>] ELSE f[j]]
  <2>2. i \in Nat /\ i # 0 /\ i - 1 \in 0..(i - 1) /\ f[i - 1] \in D /\ ts[i] \in Txs
    BY <1>0, <2>1 DEF Loop
  <2>3. step[<<f[i - 1], ts[i]>>] \in D
    BY <2>2
  <2>4. \A j \in 0..(i - 1) : g[j] = f[j] /\ f[j] \in D
    BY <2>1, <2>2 DEF Loop
  <2>5. g \in [0..i -> D]
    BY <2>1, <2>2, <2>3 DEF Loop
  <2>6. g[i] = step[<<g[i - 1], ts[i]>>]
    <3>1. i \in 0..i /\ g[i - 1] = f[i - 1]
      BY <2>2, <2>4
    <3>2. g[i] = step[<<f[i - 1], ts[i]>>]
      BY <3>1
    <3> HIDE DEF g
    <3> QED BY <3>1, <3>2
  <2>7. \A j \in 1..(i - 1) : g[j] = step[<<g[j - 1], ts[j]>>]
    BY <2>1, <2>2, <2>4 DEF Loop
  <2>8. Loop(D, d, ts, step, i, g)
    <3>1. g[0] = d
      BY <2>1, <2>2, <2>4 DEF Loop
    <3> HIDE DEF g
    <3>2. \A j \in 1..i : j = i \/ j \in 1..(i - 1)
      BY <2>2
    <3>3. \A j \in 1..i : g[j] = step[<<g[j - 1], ts[j]>>]
      BY <2>6, <2>7, <3>2
    <3> QED BY <2>5, <3>1, <3>3 DEF Loop
  <2> QED BY <2>8
<1> HIDE DEF T, n
<1>3. n \in T
  BY <1>0, <1>1, <1>2, IntervalInduction, Zenon
<1> QED BY <1>3 DEF T, n

\* The transactions of a block lead from d to a state of D if each of them
\* does, and applying one more transaction is one more step.
TxRun(d, ts, skip, f) ==
  f = [i \in 0..Len(ts) |-> IF i = 0 THEN d ELSE TxStep(f[i - 1], ts[i], skip)]

\* The loop of ApplyTxs exists when each step stays in a set D, and its last
\* value is what ApplyTxs returns.
LEMMA ApplyTxsRun ==
  ASSUME NEW D, NEW d \in D, NEW ts \in Seq(Txs), NEW skip,
         \A e \in D, t \in Txs : TxStep(e, t, skip) \in D
  PROVE  \E f : TxRun(d, ts, skip, f) /\ ApplyTxs(d, ts, skip) = f[Len(ts)]
<1> DEFINE step == [p \in D \X Txs |-> TxStep(p[1], p[2], skip)]
           after == CHOOSE f : TxRun(d, ts, skip, f)
<1>1. step \in [D \X Txs -> D]
  OBVIOUS
<1>2. \E f : Loop(D, d, ts, step, Len(ts), f)
  <2> HIDE DEF step
  <2> QED BY <1>1, LoopExists
<1>3. PICK f : Loop(D, d, ts, step, Len(ts), f)
  BY <1>2
<1>4. \A i \in 1..Len(ts) : f[i] = TxStep(f[i - 1], ts[i], skip)
  <2> TAKE i \in 1..Len(ts)
  <2>1. ts[i] \in Txs /\ i - 1 \in 0..Len(ts)
    OBVIOUS
  <2>2. f[i - 1] \in D /\ f[i] = step[<<f[i - 1], ts[i]>>]
    BY <1>3, <2>1 DEF Loop
  <2> QED BY <2>1, <2>2
<1>5. TxRun(d, ts, skip, f)
  BY <1>3, <1>4 DEF Loop, TxRun
<1>6. TxRun(d, ts, skip, after)
  BY <1>5
<1>7. ApplyTxs(d, ts, skip) = after[Len(ts)]
  BY Zenon DEF ApplyTxs, TxRun
<1> QED BY <1>6, <1>7, Zenon

\* The loop over a block's transactions stays in a set that each transaction
\* stays in.
LEMMA ApplyTxsIn ==
  ASSUME NEW D, NEW d \in D, NEW ts \in Seq(Txs), NEW skip,
         \A e \in D, t \in Txs : TxStep(e, t, skip) \in D
  PROVE  ApplyTxs(d, ts, skip) \in D
<1>1. PICK f : TxRun(d, ts, skip, f) /\ ApplyTxs(d, ts, skip) = f[Len(ts)]
  BY ApplyTxsRun
<1> DEFINE n == Len(ts)
           T == {i \in 0..n : f[i] \in D}
<1>2. n \in Nat /\ \A i \in 1..n : ts[i] \in Txs
  OBVIOUS
<1>3. 0 \in T
  BY <1>1, <1>2 DEF TxRun
<1>4. \A i \in 1..n : i - 1 \in T => i \in T
  BY <1>1, <1>2 DEF TxRun
<1> HIDE DEF T, n
<1>5. n \in T
  BY <1>2, <1>3, <1>4, IntervalInduction, Zenon
<1> QED BY <1>1, <1>5 DEF T, n

\* A block without transactions leaves the state to the rest of _apply_block.
LEMMA ApplyNoTxs ==
  ASSUME NEW D, NEW d \in D, NEW ts \in Seq(Txs), Len(ts) = 0, NEW skip,
         \A e \in D, t \in Txs : TxStep(e, t, skip) \in D
  PROVE  ApplyTxs(d, ts, skip) = d
<1>1. PICK f : TxRun(d, ts, skip, f) /\ ApplyTxs(d, ts, skip) = f[Len(ts)]
  BY ApplyTxsRun
<1> QED BY <1>1 DEF TxRun

StepsAdd(d, ts, t, skip) ==
  ApplyTxs(d, Append(ts, t), skip) = TxStep(ApplyTxs(d, ts, skip), t, skip)

\* Applying one more transaction is one more step of the loop.
LEMMA ApplyTxsAppend ==
  ASSUME NEW D, NEW d \in D, NEW ts \in Seq(Txs), NEW skip, NEW t \in Txs,
         \A e \in D, u \in Txs : TxStep(e, u, skip) \in D
  PROVE  StepsAdd(d, ts, t, skip)
<1> DEFINE n == Len(ts)
           us == Append(ts, t)
<1>2. n \in Nat /\ us \in Seq(Txs) /\ Len(us) = n + 1 /\ us[n + 1] = t /\ \A i \in 1..n : us[i] = ts[i]
  OBVIOUS
<1>3. PICK f : TxRun(d, ts, skip, f) /\ ApplyTxs(d, ts, skip) = f[n]
  BY ApplyTxsRun
<1>4. PICK g : TxRun(d, us, skip, g) /\ ApplyTxs(d, us, skip) = g[n + 1]
  <2> HIDE DEF us
  <2> QED BY <1>2, ApplyTxsRun
<1> HIDE DEF us, n
<1>5. /\ f[0] = d /\ \A i \in 1..n : f[i] = TxStep(f[i - 1], ts[i], skip)
      /\ g[0] = d /\ \A i \in 1..(n + 1) : g[i] = TxStep(g[i - 1], us[i], skip)
  <2>1. f = [i \in 0..n |-> IF i = 0 THEN d ELSE TxStep(f[i - 1], ts[i], skip)]
    BY <1>3 DEF TxRun, n
  <2>2. g = [i \in 0..(n + 1) |-> IF i = 0 THEN d ELSE TxStep(g[i - 1], us[i], skip)]
    BY <1>2, <1>4 DEF TxRun
  <2>3. 0 \in 0..n /\ 0 \in 0..(n + 1)
    BY <1>2
  <2>4. f[0] = d /\ g[0] = d
    BY <2>1, <2>2, <2>3
  <2>5. \A i \in 1..n : i \in 0..n /\ i # 0
    BY <1>2
  <2>6. \A i \in 1..(n + 1) : i \in 0..(n + 1) /\ i # 0
    BY <1>2
  <2>7. \A i \in 1..n : f[i] = TxStep(f[i - 1], ts[i], skip)
    BY <2>1, <2>5
  <2>8. \A i \in 1..(n + 1) : g[i] = TxStep(g[i - 1], us[i], skip)
    BY <2>2, <2>6
  <2> QED BY <2>4, <2>7, <2>8
<1> DEFINE T == {i \in 0..n : f[i] = g[i]}
<1>6. 0 \in T
  BY <1>2, <1>5
<1>7. \A i \in 1..n : i - 1 \in T => i \in T
  BY <1>2, <1>5
<1> HIDE DEF T
<1>8. n \in T
  BY <1>2, <1>6, <1>7, IntervalInduction, Zenon
<1>9. f[n] = g[n]
  BY <1>8 DEF T
<1>10. n + 1 \in 1..(n + 1) /\ (n + 1) - 1 = n
  BY <1>2
<1>11. g[n + 1] = TxStep(g[n], t, skip)
  BY <1>2, <1>5, <1>10
<1> QED BY <1>3, <1>4, <1>9, <1>11 DEF us, StepsAdd

-----------------------------------------------------------------------------
(***************************************************************************)
(* The states of the object database: no witness has confirmed more than   *)
(* the head block.  OnlyOnce: a transaction that was applied is still in   *)
(* the index, or has expired.                                              *)
(***************************************************************************)
DbStates ==
  {d \in DbType : /\ d.lib <= Num[d.head]
                  /\ \A w \in Witnesses : d.confirmed[w] <= Num[d.head]}

OnlyOnce(d) ==
  \A t \in Txs : /\ d.times[t] <= 1
                 /\ \/ d.times[t] = 0
                    \/ t \in d.dedupe
                    \/ d.head # NoBlock /\ Expires[t] < d.time

\* The state that stands for an exception is not a state of the database.
LEMMA FailedIsNoState ==
  /\ Failed \notin DbType
  /\ Genesis \in DbStates /\ OnlyOnce(Genesis)
<1>1. Failed \notin DbType
  <2>1. "failed" \in DOMAIN Failed
    BY DEF Failed
  <2>2. \A d \in DbType : "failed" \notin DOMAIN d
    BY DEF DbType
  <2> QED BY <2>1, <2>2
<1>2. Genesis \in DbType
  BY DEF Genesis, DbType, Ids
<1> QED BY <1>1, <1>2, NumFacts DEF Genesis, DbStates, OnlyOnce

\* What a transaction changes, and what it leaves alone.
IsAfterTx(d, t, skip, e) ==
  /\ e \in DbType
  /\ e.head = d.head /\ e.time = d.time /\ e.lib = d.lib /\ e.confirmed = d.confirmed
  /\ e.dedupe = IF skip THEN d.dedupe ELSE d.dedupe \cup {t}
  /\ e.times = [d.times EXCEPT ![t] = @ + 1]

\* The components of the state after a transaction.
LEMMA AfterTxFacts ==
  ASSUME NEW d \in DbType, NEW t \in Txs, NEW skip
  PROVE  IsAfterTx(d, t, skip, AfterTx(d, t, skip))
<1> DEFINE e == AfterTx(d, t, skip)
<1>1. DOMAIN d = {"head", "time", "lib", "confirmed", "dedupe", "times"}
  BY DEF DbType
<1>2. /\ DOMAIN e = {"head", "time", "lib", "confirmed", "dedupe", "times"}
      /\ e.head = d.head /\ e.time = d.time /\ e.lib = d.lib /\ e.confirmed = d.confirmed
      /\ e.dedupe = IF skip THEN d.dedupe ELSE d.dedupe \cup {t}
      /\ e.times = [d.times EXCEPT ![t] = @ + 1]
  BY <1>1 DEF AfterTx
<1>4. /\ d.head \in Ids /\ d.time \in Nat /\ d.lib \in Nat /\ d.confirmed \in [Witnesses -> Nat]
      /\ d.dedupe \in SUBSET Txs /\ d.times \in [Txs -> Nat]
  BY DEF DbType
<1>6. e \in DbType
  <2> DEFINE X == IF skip THEN d.dedupe ELSE d.dedupe \cup {t}
             Y == [d.times EXCEPT ![t] = @ + 1]
  <2>1. X \in SUBSET Txs /\ Y \in [Txs -> Nat]
    BY <1>4
  <2>2. e = [d EXCEPT !.dedupe = X, !.times = Y]
    BY DEF AfterTx
  <2> HIDE DEF X, Y
  <2> QED BY <2>1, <2>2 DEF DbType
<1> QED BY <1>2, <1>6 DEF IsAfterTx

\* The states that applying transactions to d without the index being
\* skipped can lead to.
TxStates(d) ==
  {e \in DbStates : /\ e.head = d.head /\ e.time = d.time /\ e.lib = d.lib
                    /\ e.confirmed = d.confirmed}

\* A transaction makes a state of a state, or fails.
LEMMA TxStepType ==
  ASSUME NEW d \in DbStates, NEW e \in TxStates(d) \cup {Failed}, NEW t \in Txs,
         NEW skip \in BOOLEAN
  PROVE  TxStep(e, t, skip) \in TxStates(d) \cup {Failed}
<1> SUFFICES ASSUME e \in TxStates(d), TxStep(e, t, skip) = AfterTx(e, t, skip)
             PROVE  AfterTx(e, t, skip) \in TxStates(d)
  BY DEF TxStep
<1>1. e \in DbType
  BY DEF TxStates, DbStates
<1> DEFINE a == AfterTx(e, t, skip)
<1>2. /\ a \in DbType
      /\ a.head = e.head /\ a.time = e.time /\ a.lib = e.lib /\ a.confirmed = e.confirmed
  <2>1. IsAfterTx(e, t, skip, a)
    BY <1>1, AfterTxFacts
  <2> QED BY <2>1 DEF IsAfterTx
<1> HIDE DEF a
<1>3. a \in TxStates(d)
  BY <1>2 DEF TxStates, DbStates
<1> QED BY <1>3 DEF a

\* A transaction that is not in the index was not applied before, if it has
\* not expired.
LEMMA TxStepOnce ==
  ASSUME NEW d \in DbStates, OnlyOnce(d), NEW t \in Txs, CanApplyTx(d, t, FALSE)
  PROVE  OnlyOnce(AfterTx(d, t, FALSE)) /\ AfterTx(d, t, FALSE) \in DbStates
<1> DEFINE e == AfterTx(d, t, FALSE)
<1>1. d \in DbType /\ d.times \in [Txs -> Nat]
  BY DEF DbStates, DbType
<1>2. /\ e \in DbType
      /\ e.head = d.head /\ e.time = d.time /\ e.lib = d.lib /\ e.confirmed = d.confirmed
      /\ e.dedupe = d.dedupe \cup {t}
      /\ e.times = [d.times EXCEPT ![t] = @ + 1]
  <2>1. IsAfterTx(d, t, FALSE, e)
    BY <1>1, AfterTxFacts
  <2> QED BY <2>1 DEF IsAfterTx
<1>3. d.times[t] = 0
  <2>1. t \notin d.dedupe /\ (d.head # NoBlock => d.time <= Expires[t])
    BY DEF CanApplyTx
  <2>2. d.time \in Nat /\ Expires[t] \in Nat
    BY TxAssumption DEF DbStates, DbType
  <2> QED BY <2>1, <2>2 DEF OnlyOnce
<1> HIDE DEF e
<1>4. \A u \in Txs : e.times[u] = IF u = t THEN 1 ELSE d.times[u]
  BY <1>1, <1>2, <1>3
<1>5. OnlyOnce(e)
  BY <1>2, <1>4 DEF OnlyOnce
<1>6. e \in DbStates
  BY <1>2 DEF DbStates
<1> QED BY <1>5, <1>6 DEF e

\* update_last_irreversible_block finds a number some witness has confirmed.
LEMMA LastIrreversibleType ==
  ASSUME NEW c \in [Witnesses -> Nat], NEW top \in Nat, \A w \in Witnesses : c[w] <= top
  PROVE  LastIrreversible(c) \in Nat /\ LastIrreversible(c) <= top
<1> DEFINE k == (3 * Cardinality(Witnesses)) \div 10
<1>1. Cardinality(Witnesses) \in Nat /\ Cardinality(Witnesses) # 0
  BY TxAssumption, FS_CardinalityType, FS_EmptySet
<1>2. k \in Nat /\ k < Cardinality(Witnesses)
  BY <1>1, DivBounds, 3 * Cardinality(Witnesses) \in Nat
<1> HIDE DEF k
<1>3. PICK n : IsNth(Witnesses, c, k, n)
  BY <1>2, TxAssumption, NthElement
<1>4. LastIrreversible(c) \in {c[w] : w \in Witnesses}
  BY <1>3 DEF IsNth, LastIrreversible, k
<1> QED BY <1>4

\* A block that applies makes its state from the one of its predecessor.
LEMMA AdvanceFacts ==
  ASSUME NEW d \in DbStates, NEW b \in Blocks, Prev[b] = d.head, d.time < Slot[b]
  PROVE  /\ Advance(d, b) \in DbStates /\ Advance(d, b).head = b
         /\ OnlyOnce(d) => OnlyOnce(Advance(d, b))
<1> DEFINE confirmed == [d.confirmed EXCEPT ![WitnessOf[b]] = Num[b]]
           lib == Max({d.lib, LastIrreversible(confirmed)})
           e == [d EXCEPT !.head = b, !.time = Slot[b], !.confirmed = confirmed, !.lib = lib]
           a == [e EXCEPT !.dedupe = ClearExpired(e)]
<1>1. Advance(d, b) = a
  BY DEF Advance
<1>2. /\ d.head \in Ids /\ d.time \in Nat /\ d.lib \in Nat /\ d.confirmed \in [Witnesses -> Nat]
      /\ d.dedupe \in SUBSET Txs /\ d.times \in [Txs -> Nat]
      /\ DOMAIN d = {"head", "time", "lib", "confirmed", "dedupe", "times"}
      /\ d.lib <= Num[d.head] /\ \A w \in Witnesses : d.confirmed[w] <= Num[d.head]
  BY DEF DbStates, DbType
<1>3. b \in Ids /\ b # NoBlock /\ Num[b] = Num[d.head] + 1 /\ Num[b] \in Nat /\ Num[d.head] \in Nat
  BY <1>2, NumFacts
<1>4. WitnessOf[b] \in Witnesses /\ Slot[b] \in Nat
  BY BlockAssumption
<1>5. confirmed \in [Witnesses -> Nat] /\ \A w \in Witnesses : confirmed[w] <= Num[b]
  BY <1>2, <1>3, <1>4
<1> HIDE DEF confirmed
<1>6. lib \in Nat /\ lib <= Num[b]
  <2>1. LastIrreversible(confirmed) \in Nat /\ LastIrreversible(confirmed) <= Num[b]
    BY <1>3, <1>5, LastIrreversibleType
  <2>2. lib \in {d.lib, LastIrreversible(confirmed)}
    BY <1>2, <2>1, MinMaxOfTwo, d.lib \in Int, LastIrreversible(confirmed) \in Int
  <2> HIDE DEF lib
  <2> QED BY <1>2, <1>3, <2>1, <2>2
<1> HIDE DEF lib
<1>7. /\ DOMAIN e = {"head", "time", "lib", "confirmed", "dedupe", "times"}
      /\ e.head = b /\ e.time = Slot[b] /\ e.confirmed = confirmed /\ e.lib = lib
      /\ e.dedupe = d.dedupe /\ e.times = d.times
  BY <1>2
<1>8. e \in DbType
  BY <1>2, <1>3, <1>4, <1>5, <1>6 DEF DbType, DbStates
<1>9. ClearExpired(e) = {t \in d.dedupe : Slot[b] <= Expires[t]}
  BY <1>7 DEF ClearExpired
<1> HIDE DEF e
<1>10. /\ a.head = b /\ a.time = Slot[b] /\ a.confirmed = confirmed /\ a.lib = lib
       /\ a.dedupe = {t \in d.dedupe : Slot[b] <= Expires[t]} /\ a.times = d.times
  BY <1>7, <1>9
<1>11. a \in DbType
  <2>1. ClearExpired(e) \in SUBSET Txs
    BY <1>2, <1>9
  <2> QED BY <1>8, <2>1 DEF DbType
<1> HIDE DEF a
<1>12. a \in DbStates
  BY <1>5, <1>6, <1>10, <1>11 DEF DbStates
<1>13. ASSUME OnlyOnce(d) PROVE OnlyOnce(a)
  <2> SUFFICES ASSUME NEW t \in Txs
               PROVE  /\ a.times[t] <= 1
                      /\ a.times[t] = 0 \/ t \in a.dedupe \/ (a.head # NoBlock /\ Expires[t] < a.time)
    BY DEF OnlyOnce
  <2>1. d.times[t] <= 1 /\ (d.times[t] = 0 \/ t \in d.dedupe \/ Expires[t] < d.time)
    BY <1>13 DEF OnlyOnce
  <2>2. Expires[t] \in Nat
    BY TxAssumption
  <2> QED BY <1>2, <1>3, <1>4, <1>10, <2>1, <2>2
<1> QED BY <1>1, <1>10, <1>12, <1>13

\* _apply_block either throws or makes the state of the block; without the
\* check being skipped it applies nothing twice.
LEMMA ApplyBlockFacts ==
  ASSUME NEW d \in DbStates, NEW b \in Blocks, NEW skip \in BOOLEAN, ApplyBlock(d, b, skip) # Failed
  PROVE  /\ ApplyBlock(d, b, skip) \in DbStates /\ ApplyBlock(d, b, skip).head = b
         /\ Prev[b] = d.head
         /\ OnlyOnce(d) /\ ~skip => OnlyOnce(ApplyBlock(d, b, skip))
<1> DEFINE ts == TxsOf[b]
           e == ApplyTxs(d, ts, skip)
<1>1. ts \in Seq(Txs)
  BY BlockAssumption
<1>2. HeaderOK(d, b) /\ e # Failed /\ ApplyBlock(d, b, skip) = Advance(e, b)
  BY DEF ApplyBlock
<1>3. Prev[b] = d.head /\ d.time < Slot[b]
  BY <1>2 DEF HeaderOK
<1> HIDE DEF ts
<1>4. e \in TxStates(d)
  <2> DEFINE D == TxStates(d) \cup {Failed}
  <2>1. d \in D
    BY DEF TxStates
  <2>2. \A x \in D, t \in Txs : TxStep(x, t, skip) \in D
    BY TxStepType
  <2> HIDE DEF D
  <2>3. e \in D
    BY <1>1, <2>1, <2>2, ApplyTxsIn
  <2> QED BY <1>2, <2>3 DEF D
<1>5. e \in DbStates /\ Prev[b] = e.head /\ e.time < Slot[b]
  BY <1>3, <1>4 DEF TxStates
<1>6. ASSUME OnlyOnce(d), ~skip PROVE OnlyOnce(e)
  <2> DEFINE D == {x \in DbStates : OnlyOnce(x)} \cup {Failed}
  <2>1. d \in D
    BY <1>6
  <2>2. \A x \in D, t \in Txs : TxStep(x, t, FALSE) \in D
    BY TxStepOnce, Zenon DEF TxStep
  <2> HIDE DEF D
  <2>3. ApplyTxs(d, ts, FALSE) \in D
    BY <1>1, <2>1, <2>2, ApplyTxsIn
  <2>4. e \in D
    BY <1>6, <2>3
  <2> QED BY <1>2, <2>4 DEF D
<1> HIDE DEF e
<1> QED BY <1>2, <1>3, <1>5, <1>6, AdvanceFacts

-----------------------------------------------------------------------------
(* the reference, and the stack of committed states *)

\* Replaying a chain applies its last block to the replay of the rest.
LEMMA ReplayedFacts ==
  /\ Replayed[NoBlock] = Genesis
  /\ \A b \in Blocks : Replayed[b] = IF Replayed[Prev[b]] = Failed THEN Failed
                                     ELSE ApplyBlock(Replayed[Prev[b]], b, FALSE)
<1> DEFINE D == DbStates \cup {Failed}
           Go(d, b) == IF d = Failed THEN Failed ELSE ApplyBlock(d, b, FALSE)
           G == [p \in D \X Blocks |-> Go(p[1], p[2])]
           Solution(f) == f = [b \in Ids |-> IF b = NoBlock THEN Genesis ELSE Go(f[Prev[b]], b)]
<1>1. \A d \in D, b \in Blocks : Go(d, b) \in D
  BY ApplyBlockFacts
<1> HIDE DEF Go
<1>2. G \in [D \X Blocks -> D] /\ Genesis \in D
  BY <1>1, FailedIsNoState
<1>3. HasSolution(D, Genesis, G)
  <2> HIDE DEF D, G
  <2> QED BY <1>2, TreeRecursion, Zenon
<1>4. PICK f \in [Ids -> D] : f[NoBlock] = Genesis /\ \A b \in Blocks : f[b] = G[<<f[Prev[b]], b>>]
  BY <1>3 DEF HasSolution
<1>5. \A b \in Blocks : f[b] = Go(f[Prev[b]], b)
  BY <1>4, NumFacts
<1>6. Solution(f)
  BY <1>4, <1>5, NumFacts DEF Ids
<1>7. Solution(Replayed)
  BY <1>6, Zenon DEF Replayed, Go
<1> QED BY <1>7, NumFacts DEF Ids, Go

\* Trimming keeps some of the states.
LEMMA OpenedIn ==
  ASSUME NEW S, NEW u \in Seq(S), undo_max \in Nat, NEW nested \in Int
  PROVE  Opened(u, nested) \in Seq(S) /\ Opened(u, nested + 1) \in Seq(S)
<1>1. \A n \in Int : KeepNewest(u, n) \in Seq(S)
  <2> SUFFICES ASSUME NEW n \in Int PROVE KeepNewest(u, n) \in Seq(S)
    OBVIOUS
  <2>1. CASE n <= 0
    BY <2>1 DEF KeepNewest
  <2>2. CASE n > 0 /\ Len(u) > n
    <3>1. Len(u) - n + 1 \in 1 .. Len(u) /\ Len(u) \in Nat
      BY <2>2
    <3>2. SubSeq(u, Len(u) - n + 1, Len(u)) \in Seq(S)
      BY <3>1
    <3> QED BY <2>2, <3>2 DEF KeepNewest
  <2>3. CASE n > 0 /\ ~(Len(u) > n)
    BY <2>3 DEF KeepNewest
  <2> QED BY <2>1, <2>2, <2>3
<1> QED BY <1>1 DEF Opened

\* Opening the sessions of a block's transactions keeps only states that were
\* in the history.
LEMMA OpenedForIn ==
  ASSUME NEW S, NEW u \in Seq(S), undo_max \in Nat, NEW nested \in Int, NEW d, NEW ts, NEW skip
  PROVE  OpenedFor(u, d, ts, nested, skip) \in Seq(S)
BY OpenedIn, Zenon DEF OpenedFor

-----------------------------------------------------------------------------
(***************************************************************************)
(* _push_transaction and the loops around it.  Queues(S): what they work   *)
(* on.  Matching(d, S): the part of it where the pending state is the one  *)
(* that the queued transactions make of d.                                 *)
(***************************************************************************)
Queues(S) == [session : BOOLEAN, undo : Seq(S), db : DbStates, txs : Seq(Txs)]

Matching(d, S) ==
  {p \in Queues(S) : /\ p.db = ApplyTxs(d, p.txs, FALSE)
                     /\ OnlyOnce(p.db)
                     /\ p.txs # <<>> => p.session}

IsAfterPush(p, t, skip, S, q) ==
  /\ q \in Queues(S) /\ q.session
  /\ IF CanApplyTx(p.db, t, skip)
     THEN q.db = AfterTx(p.db, t, skip) /\ q.txs = Append(p.txs, t)
     ELSE q.db = p.db /\ q.txs = p.txs

\* The transaction is queued if it applies, and only then changes the state.
LEMMA PushTxFacts ==
  ASSUME NEW S, NEW p \in Queues(S), NEW t \in Txs, NEW skip, undo_max \in Nat
  PROVE  IsAfterPush(p, t, skip, S, PushTx(p, t, skip))
<1> DEFINE ok == CanApplyTx(p.db, t, skip)
           u0 == IF p.session THEN p.undo ELSE Opened(p.undo, 0)
           u == Opened(u0, 1)
           v == OpenedFor(u, p.db, <<t>>, 1, skip)
           e == IF ok THEN AfterTx(p.db, t, skip) ELSE p.db
           ts == IF ok THEN Append(p.txs, t) ELSE p.txs
<1>1. p.session \in BOOLEAN /\ p.undo \in Seq(S) /\ p.db \in DbStates /\ p.txs \in Seq(Txs)
  BY DEF Queues
<1>2. v \in Seq(S)
  <2>1. u0 \in Seq(S)
    BY <1>1, OpenedIn
  <2> HIDE DEF u0
  <2>2. u \in Seq(S)
    BY <2>1, OpenedIn
  <2> HIDE DEF u
  <2> QED BY <2>2, OpenedForIn
<1>3. e \in DbStates
  <2>1. p.db \in DbType
    BY <1>1 DEF DbStates
  <2>2. IsAfterTx(p.db, t, skip, AfterTx(p.db, t, skip))
    BY <2>1, AfterTxFacts
  <2> QED BY <1>1, <2>2 DEF IsAfterTx, DbStates
<1>4. ts \in Seq(Txs)
  BY <1>1
<1>5. PushTx(p, t, skip) = [session |-> TRUE, undo |-> v, db |-> e, txs |-> ts]
  BY DEF PushTx
<1> HIDE DEF v
<1>6. PushTx(p, t, skip) \in Queues(S)
  <2> HIDE DEF e, ts
  <2> QED BY <1>2, <1>3, <1>4, <1>5 DEF Queues
<1> QED BY <1>5, <1>6 DEF IsAfterPush

\* Applying one more transaction is one more step, applying none is none.
LEMMA ApplyOneMore ==
  ASSUME NEW d \in DbStates, NEW ts \in Seq(Txs), NEW t \in Txs
  PROVE  ApplyTxs(d, Append(ts, t), FALSE) = TxStep(ApplyTxs(d, ts, FALSE), t, FALSE)
<1> DEFINE D == TxStates(d) \cup {Failed}
<1>1. d \in D
  BY DEF TxStates
<1>2. \A x \in D, y \in Txs : TxStep(x, y, FALSE) \in D
  BY TxStepType
<1> HIDE DEF D
<1>3. StepsAdd(d, ts, t, FALSE)
  BY <1>1, <1>2, ApplyTxsAppend
<1> QED BY <1>3 DEF StepsAdd

\* An empty queue of pending transactions makes nothing of the head state.
LEMMA ApplyNothing ==
  ASSUME NEW d \in DbStates
  PROVE  ApplyTxs(d, <<>>, FALSE) = d
<1> DEFINE D == TxStates(d) \cup {Failed}
<1>1. d \in D
  BY DEF TxStates
<1>2. \A x \in D, y \in Txs : TxStep(x, y, FALSE) \in D
  BY TxStepType
<1>3. <<>> \in Seq(Txs) /\ Len(<<>>) = 0
  OBVIOUS
<1> HIDE DEF D
<1> QED BY <1>1, <1>2, <1>3, ApplyNoTxs

\* With the check for duplicates, the pending state stays the one that the
\* queue makes of the head state.
LEMMA PushTxMatches ==
  ASSUME NEW S, NEW d \in DbStates, NEW p \in Matching(d, S), NEW t \in Txs, undo_max \in Nat
  PROVE  PushTx(p, t, FALSE) \in Matching(d, S)
<1> DEFINE q == PushTx(p, t, FALSE)
<1>1. p \in Queues(S) /\ p.db = ApplyTxs(d, p.txs, FALSE) /\ OnlyOnce(p.db)
      /\ p.db \in DbStates /\ p.txs \in Seq(Txs)
  BY DEF Matching, Queues
<1>2. IsAfterPush(p, t, FALSE, S, q)
  BY <1>1, PushTxFacts
<1> HIDE DEF q
<1>3. q \in Queues(S) /\ q.session
  BY <1>2 DEF IsAfterPush
<1>4. CASE CanApplyTx(p.db, t, FALSE)
  <2>1. q.db = AfterTx(p.db, t, FALSE) /\ q.txs = Append(p.txs, t)
    BY <1>2, <1>4 DEF IsAfterPush
  <2>2. OnlyOnce(q.db)
    BY <1>1, <1>4, <2>1, TxStepOnce
  <2>3. p.db # Failed
    BY <1>1, FailedIsNoState DEF DbStates
  <2>4. q.db = TxStep(p.db, t, FALSE)
    BY <1>4, <2>1, <2>3 DEF TxStep
  <2>5. ApplyTxs(d, Append(p.txs, t), FALSE) = TxStep(ApplyTxs(d, p.txs, FALSE), t, FALSE)
    BY <1>1, ApplyOneMore
  <2>6. q.db = ApplyTxs(d, q.txs, FALSE)
    BY <1>1, <2>1, <2>4, <2>5
  <2> QED BY <1>3, <2>2, <2>6 DEF Matching, q
<1>5. CASE ~CanApplyTx(p.db, t, FALSE)
  <2>1. q.db = p.db /\ q.txs = p.txs
    BY <1>2, <1>5 DEF IsAfterPush
  <2> QED BY <1>1, <1>3, <2>1 DEF Matching, q
<1> QED BY <1>4, <1>5

\* The loop of the restorer, and the one of _generate_block, lead to a value
\* of D if each pass does.
RequeueRun(p, ts, f) ==
  f = [i \in 0..Len(ts) |-> IF i = 0 THEN p ELSE RequeueTx(f[i - 1], ts[i])]

\* The loop of the restorer stays in a set that each of its passes stays in.
LEMMA RequeueIn ==
  ASSUME NEW D, NEW p \in D, NEW ts \in Seq(Txs),
         \A q \in D, t \in Txs : RequeueTx(q, t) \in D
  PROVE  Requeue(p, ts) \in D
<1> DEFINE step == [q \in D \X Txs |-> RequeueTx(q[1], q[2])]
           after == CHOOSE f : RequeueRun(p, ts, f)
           n == Len(ts)
<1>1. step \in [D \X Txs -> D]
  OBVIOUS
<1>2. PICK f : Loop(D, p, ts, step, n, f)
  <2> HIDE DEF step
  <2> QED BY <1>1, LoopExists
<1>3. \A i \in 1..n : f[i] = RequeueTx(f[i - 1], ts[i])
  <2> TAKE i \in 1..n
  <2>1. ts[i] \in Txs /\ i - 1 \in 0..n
    OBVIOUS
  <2>2. f[i - 1] \in D /\ f[i] = step[<<f[i - 1], ts[i]>>]
    BY <1>2, <2>1 DEF Loop
  <2> QED BY <2>1, <2>2
<1>4. RequeueRun(p, ts, f)
  BY <1>2, <1>3 DEF Loop, RequeueRun
<1>5. RequeueRun(p, ts, after)
  BY <1>4
<1>6. Requeue(p, ts) = after[n]
  BY Zenon DEF Requeue, RequeueRun
<1> HIDE DEF after
<1> DEFINE T == {i \in 0..n : after[i] \in D}
<1>7. n \in Nat /\ \A i \in 1..n : ts[i] \in Txs
  OBVIOUS
<1>8. 0 \in T
  BY <1>5, <1>7 DEF RequeueRun
<1>9. \A i \in 1..n : i - 1 \in T => i \in T
  BY <1>5, <1>7 DEF RequeueRun
<1> HIDE DEF T, n
<1>10. n \in T
  BY <1>7, <1>8, <1>9, IntervalInduction, Zenon
<1> QED BY <1>6, <1>10 DEF T

SelectRun(p, ts, f) ==
  f = [i \in 0..Len(ts) |-> IF i = 0 THEN p ELSE SelectTx(f[i - 1], ts[i])]

\* So does the loop of _generate_block over the pending transactions.
LEMMA SelectIn ==
  ASSUME NEW D, NEW p \in D, NEW ts \in Seq(Txs),
         \A q \in D, t \in Txs : SelectTx(q, t) \in D
  PROVE  Select(p, ts) \in D
<1> DEFINE step == [q \in D \X Txs |-> SelectTx(q[1], q[2])]
           after == CHOOSE f : SelectRun(p, ts, f)
           n == Len(ts)
<1>1. step \in [D \X Txs -> D]
  OBVIOUS
<1>2. PICK f : Loop(D, p, ts, step, n, f)
  <2> HIDE DEF step
  <2> QED BY <1>1, LoopExists
<1>3. \A i \in 1..n : f[i] = SelectTx(f[i - 1], ts[i])
  <2> TAKE i \in 1..n
  <2>1. ts[i] \in Txs /\ i - 1 \in 0..n
    OBVIOUS
  <2>2. f[i - 1] \in D /\ f[i] = step[<<f[i - 1], ts[i]>>]
    BY <1>2, <2>1 DEF Loop
  <2> QED BY <2>1, <2>2
<1>4. SelectRun(p, ts, f)
  BY <1>2, <1>3 DEF Loop, SelectRun
<1>5. SelectRun(p, ts, after)
  BY <1>4
<1>6. Select(p, ts) = after[n]
  BY Zenon DEF Select, SelectRun
<1> HIDE DEF after
<1> DEFINE T == {i \in 0..n : after[i] \in D}
<1>7. n \in Nat /\ \A i \in 1..n : ts[i] \in Txs
  OBVIOUS
<1>8. 0 \in T
  BY <1>5, <1>7 DEF SelectRun
<1>9. \A i \in 1..n : i - 1 \in T => i \in T
  BY <1>5, <1>7 DEF SelectRun
<1> HIDE DEF T, n
<1>10. n \in T
  BY <1>7, <1>8, <1>9, IntervalInduction, Zenon
<1> QED BY <1>6, <1>10 DEF T

-----------------------------------------------------------------------------
(* the fork database *)

ForkStates ==
  {f \in [index : SUBSET Blocks, linked : SUBSET Blocks, head : Ids, head_linked : BOOLEAN,
          max : Nat] :
     f.linked \subseteq f.index /\ (f.head_linked => f.head # NoBlock)}

\* Every operation of the fork database leads from a state to a state.
LEMMA DiscardType ==
  ASSUME NEW f \in ForkStates, NEW gone
  PROVE  Discard(f, gone) \in ForkStates /\ Discard(f, gone).head = f.head
<1> DEFINE i == f.index \ gone
           l == {x \in f.linked : x \notin gone /\ Prev[x] \notin gone}
           h == f.head_linked /\ Prev[f.head] \notin gone
<1>1. Discard(f, gone) = [f EXCEPT !.index = i, !.linked = l, !.head_linked = h]
  BY DEF Discard
<1>2. i \in SUBSET Blocks /\ l \in SUBSET Blocks /\ l \subseteq i
  BY DEF ForkStates
<1>3. h \in BOOLEAN /\ (h => f.head # NoBlock)
  BY DEF ForkStates
<1> HIDE DEF i, l, h
<1> QED BY <1>1, <1>2, <1>3 DEF ForkStates

\* set_head keeps the type of the fork database.
LEMMA ForkSetHeadType ==
  ASSUME NEW f \in ForkStates, NEW b \in Ids
  PROVE  ForkSetHead(f, b) \in ForkStates
<1> DEFINE h == b \in f.linked
<1>1. ForkSetHead(f, b) = [f EXCEPT !.head = b, !.head_linked = h]
  BY DEF ForkSetHead
<1>2. h \in BOOLEAN /\ (h => b # NoBlock)
  BY NumFacts DEF ForkStates
<1> HIDE DEF h
<1> QED BY <1>1, <1>2 DEF ForkStates

\* So does pop_block, when the head is linked.
LEMMA ForkPopType ==
  ASSUME NEW f \in ForkStates, f.head_linked
  PROVE  ForkPop(f) \in ForkStates
<1>1. f.head \in Blocks
  BY DEF ForkStates, Ids
<1>2. Prev[f.head] \in Ids
  BY <1>1, NumFacts
<1> QED BY <1>2, ForkSetHeadType DEF ForkPop

\* So does set_max_size, which drops blocks.
LEMMA ForkSetMaxSizeType ==
  ASSUME NEW f \in ForkStates, NEW size \in Nat
  PROVE  ForkSetMaxSize(f, size) \in ForkStates
<1> DEFINE g == [f EXCEPT !.max = size]
<1>1. g \in ForkStates
  BY DEF ForkStates
<1> HIDE DEF g
<1> QED BY <1>1, DiscardType DEF ForkSetMaxSize, g

\* So does _push_block, and it leaves a head behind it.
LEMMA ForkPushType ==
  ASSUME NEW f \in ForkStates, NEW b \in Blocks
  PROVE  ForkPush(f, b) \in ForkStates /\ ForkPush(f, b).head \in Blocks
<1> DEFINE links == f.head # NoBlock /\ Prev[b] # NoBlock
           l == IF links /\ b \notin f.index THEN f.linked \cup {b} ELSE f.linked
           i == f.index \cup {b}
           g == [f EXCEPT !.index = i, !.linked = l]
           h == [g EXCEPT !.head = b, !.head_linked = links]
           gone == {x \in h.index : Num[x] < Num[b] - Min({h.max, Num[b]})}
<1>1. ForkPush(f, b) = IF f.head = NoBlock THEN h
                       ELSE IF Num[b] > Num[f.head] THEN Discard(h, gone) ELSE g
  BY DEF ForkPush
<1>2. l \in SUBSET i /\ i \in SUBSET Blocks /\ links \in BOOLEAN /\ b \in Ids /\ b # NoBlock
  BY NumFacts DEF ForkStates
<1> HIDE DEF links, l, i
<1>3. g \in ForkStates /\ g.head = f.head
  BY <1>2 DEF ForkStates
<1> HIDE DEF g
<1>4. h \in ForkStates /\ h.head = b
  BY <1>2, <1>3 DEF ForkStates
<1> HIDE DEF h, gone
<1>5. Discard(h, gone) \in ForkStates /\ Discard(h, gone).head = b
  BY <1>4, DiscardType
<1>6. f.head # NoBlock => f.head \in Blocks
  BY DEF ForkStates, Ids
<1> QED BY <1>1, <1>3, <1>4, <1>5, <1>6

\* So do reset and start_block.
LEMMA ForkStartType ==
  EmptyFork \in ForkStates /\ \A b \in Blocks : ForkStart(EmptyFork, b) \in ForkStates
<1>1. EmptyFork \in ForkStates
  BY TxAssumption DEF EmptyFork, ForkStates, Ids
<1> SUFFICES ASSUME NEW b \in Blocks PROVE ForkStart(EmptyFork, b) \in ForkStates
  BY <1>1
<1> DEFINE i == EmptyFork.index \cup {b}
<1>2. ForkStart(EmptyFork, b) = [EmptyFork EXCEPT !.index = i, !.head = b, !.head_linked = FALSE]
  BY DEF ForkStart
<1>3. i \in SUBSET Blocks /\ EmptyFork.linked \subseteq i /\ b \in Ids
  BY <1>1, NumFacts DEF ForkStates
<1> HIDE DEF i
<1> QED BY <1>1, <1>2, <1>3 DEF ForkStates

-----------------------------------------------------------------------------
(***************************************************************************)
(* The type invariant, in an inductive form: a fork switch has a branch to *)
(* come back to, and while it goes forward one to follow.  The states of   *)
(* the database that a node keeps are db, undo and disk; HistoryIn says    *)
(* that they belong to a set.                                              *)
(***************************************************************************)
Entries == [id : Ids, data : Ids]

TaskFields == {"at", "block", "keep", "before", "todo", "good", "failed", "i", "last"}

TaskOK(t) ==
  /\ DOMAIN t = TaskFields
  /\ t.at \in Places /\ t.block \in Ids /\ t.keep \in Seq(Txs)
  /\ t.todo \in Seq(Blocks) /\ t.good \in Seq(Blocks)
  /\ t.at \in Loops => t.good # <<>> /\ t.block \in Blocks
  /\ t.at \in {"switch_pop", "switch_apply"} => t.todo # <<>>

HistoryIn(S) == db \in S /\ undo \in Seq(S) /\ disk \in S

RestOK ==
  /\ pending_db \in DbStates /\ pending_session \in BOOLEAN
  /\ pending \in Seq(Txs) /\ popped \in Seq(Txs)
  /\ undo_max \in Nat
  /\ fork \in ForkStates
  /\ log \in [Nums -> Entries] /\ unflushed \in [num : Nums \cup {0}, was : Entries]
  /\ TaskOK(task)

ChainInv == HistoryIn(DbStates) /\ RestOK

\* S keeps the states that applying blocks makes of its members.
ClosedUnderBlocks(S) ==
  /\ S \subseteq DbStates
  /\ \A d \in S, b \in Blocks :
       ApplyBlock(d, b, Replaying) # Failed => ApplyBlock(d, b, Replaying) \in S

\* Applying a block keeps the head state and the undo history in a set of
\* states closed under blocks.
LEMMA AppliedHistory ==
  ASSUME NEW S, ClosedUnderBlocks(S), db \in S, undo_max \in Nat,
         NEW b \in Blocks, NEW id, NEW f, NEW u \in Seq(S), Applied(b, id, f, u)
  PROVE  db' \in S /\ undo' \in Seq(S)
<1>1. db' \in S
  BY DEF Applied, ClosedUnderBlocks
<1> DEFINE v == OpenedFor(u, db, TxsOf[b], 0, Replaying)
<1>2. v \in Seq(S) /\ undo' = Append(v, db)
  BY OpenedForIn, 0 \in Int DEF Applied
<1> HIDE DEF v
<1> QED BY <1>1, <1>2

\* A block that fails keeps them where they were.
LEMMA NotAppliedHistory ==
  ASSUME NEW S, db \in S, undo_max \in Nat,
         NEW b \in Blocks, NEW f, NEW u \in Seq(S), NotApplied(b, f, u)
  PROVE  db' \in S /\ undo' \in Seq(S)
<1>1. OpenedFor(u, db, TxsOf[b], 0, Replaying) \in Seq(S) /\ Opened(u, 0) \in Seq(S)
  BY OpenedForIn, OpenedIn, 0 \in Int
<1> QED BY <1>1 DEF NotApplied

\* What applying a block does to everything but the history.
LEMMA AppliedRest ==
  ASSUME ChainInv, NEW b \in Blocks, NEW id \in Blocks, NEW f \in ForkStates, NEW u,
         Applied(b, id, f, u)
  PROVE  /\ undo_max' \in Nat
         /\ fork' \in ForkStates
         /\ log' \in [Nums -> Entries] /\ unflushed' \in [num : Nums \cup {0}, was : Entries]
<1> DEFINE size == Num[b] - db.lib + 1
<1>1. db \in DbStates
  BY DEF ChainInv, HistoryIn
<1>2. Prev[b] = db.head
  BY DEF Applied, ApplyBlock, HeaderOK
<1>3. size \in Nat
  BY <1>1, <1>2, NumFacts DEF DbStates, DbType
<1>4. undo_max' = size /\ fork' = ForkSetMaxSize(f, size)
  BY DEF Applied
<1> HIDE DEF size
<1>5. fork' \in ForkStates
  BY <1>3, <1>4, ForkSetMaxSizeType
<1>6. log \in [Nums -> Entries] /\ Num[id] \in Nums /\ [id |-> id, data |-> b] \in Entries
  BY NumFacts DEF ChainInv, RestOK, Nums, Entries
<1>7. log' = [log EXCEPT ![Num[id]] = [id |-> id, data |-> b]]
  BY DEF Applied, Store
<1>8. log' \in [Nums -> Entries]
  BY <1>6, <1>7
<1>9. unflushed' = [num |-> Num[id], was |-> log[Num[id]]] /\ log[Num[id]] \in Entries
  BY <1>6 DEF Applied
<1>10. unflushed' \in [num : Nums \cup {0}, was : Entries]
  BY <1>6, <1>9
<1> QED BY <1>3, <1>4, <1>5, <1>8, <1>10

\* push_block up to its first loop, from a stack u.
LEMMA EnterHistory ==
  ASSUME ChainInv, NEW S, ClosedUnderBlocks(S), HistoryIn(S),
         NEW b \in Blocks, NEW u \in Seq(S), EnterPushBlock(b, u)
  PROVE  db' \in S /\ undo' \in Seq(S) /\ disk' = disk
<1>1. db \in S /\ undo_max \in Nat
  BY DEF ChainInv, RestOK, HistoryIn
<1>2. CASE RejectBlock(b, u) \/ CacheBlock(b, u) \/ StartSwitch(b, u)
  BY <1>1, <1>2 DEF RejectBlock, CacheBlock, StartSwitch
<1>3. CASE ExtendHead(b, u)
  <2>1. disk' = disk
    BY <1>3 DEF ExtendHead
  <2>2. \/ \E f : Applied(b, b, f, u)
        \/ \E f : NotApplied(b, f, u)
    BY <1>3 DEF ExtendHead
  <2> QED BY <1>1, <2>1, <2>2, AppliedHistory, NotAppliedHistory
<1> QED BY <1>2, <1>3 DEF EnterPushBlock

\* What a call keeps, and how its task begins.
LEMMA CallingType ==
  ASSUME ChainInv, NEW b \in Blocks
  PROVE  /\ TaskOK(Calling(b)) /\ Calling(b).i = task.i /\ Calling(b).at = "restore_pending"
         /\ TaskOK([Calling(b) EXCEPT !.failed = TRUE])
         /\ [Calling(b) EXCEPT !.failed = TRUE].i = task.i
         /\ [Calling(b) EXCEPT !.failed = TRUE].at = "restore_pending"
<1>1. TaskOK(task) /\ pending \in Seq(Txs) /\ b \in Ids
  BY NumFacts DEF ChainInv, RestOK, HistoryIn
<1>2. "restore_pending" \in Places /\ "restore_pending" \notin Loops
      /\ "restore_pending" \notin {"switch_pop", "switch_apply"}
  BY DEF Places, Loops
<1>3. TaskOK(Calling(b)) /\ Calling(b).i = task.i /\ Calling(b).at = "restore_pending"
  BY <1>1, <1>2 DEF TaskOK, TaskFields, Calling
<1> DEFINE c == Calling(b)
           e == [c EXCEPT !.failed = TRUE]
<1> HIDE DEF c
<1>4. TaskOK(c) /\ c.i = task.i /\ c.at = "restore_pending"
  BY <1>3 DEF c
<1>5. TaskOK(e) /\ e.i = task.i /\ e.at = "restore_pending"
  BY <1>2, <1>4 DEF TaskOK, TaskFields
<1> QED BY <1>3, <1>5 DEF c

\* What _push_block does, up to the first loop, to everything but the
\* history.
LEMMA EnterRest ==
  ASSUME ChainInv, NEW b \in Blocks, NEW u, EnterPushBlock(b, u)
  PROVE  RestOK' /\ task'.i = task.i /\ pending_db' = pending_db
         /\ task'.at \in {"restore_pending", "switch_pop"}
<1> DEFINE f == ForkPush(fork, b)
           c == Calling(b)
           e == [c EXCEPT !.failed = TRUE]
<1>1. fork \in ForkStates /\ pending_db \in DbStates /\ popped \in Seq(Txs) /\ undo_max \in Nat
      /\ log \in [Nums -> Entries] /\ unflushed \in [num : Nums \cup {0}, was : Entries]
  BY DEF ChainInv, RestOK
<1>2. f \in ForkStates /\ f.head \in Blocks
  BY <1>1, ForkPushType
<1>3. /\ TaskOK(c) /\ c.i = task.i /\ c.at = "restore_pending"
      /\ TaskOK(e) /\ e.i = task.i /\ e.at = "restore_pending"
  BY CallingType
<1>4. pending' \in Seq(Txs) /\ pending_session' \in BOOLEAN
  <2>1. pending' = <<>> /\ pending_session' = FALSE
    BY DEF EnterPushBlock, ClearPending
  <2>2. pending' \in Seq(Txs)
    BY <2>1
  <2>3. pending_session' \in BOOLEAN
    BY <2>1, Zenon
  <2> QED BY <2>2, <2>3
<1> DEFINE TaskGoal == TaskOK(task') /\ task'.i = task.i /\ task'.at \in {"restore_pending", "switch_pop"}
           MemoryGoal == /\ pending_db' = pending_db /\ popped' = popped /\ undo_max' \in Nat
                         /\ fork' \in ForkStates
                         /\ log' \in [Nums -> Entries]
                         /\ unflushed' \in [num : Nums \cup {0}, was : Entries]
<1> SUFFICES TaskGoal /\ MemoryGoal
  BY <1>1, <1>4 DEF RestOK
<1>5. CASE RejectBlock(b, u)
  <2>1. task' = e /\ UNCHANGED <<pending_db, popped, undo_max, fork, log, unflushed>>
    BY <1>5 DEF RejectBlock, logVars
  <2> HIDE DEF e
  <2>2. TaskGoal
    BY <1>3, <2>1
  <2>3. MemoryGoal
    BY <1>1, <2>1
  <2> QED BY <2>2, <2>3
<1>6. CASE CacheBlock(b, u)
  <2>1. task' = c /\ fork' = f /\ UNCHANGED <<pending_db, popped, undo_max, log, unflushed>>
    BY <1>6 DEF CacheBlock, logVars
  <2> HIDE DEF c, f
  <2>2. TaskGoal
    BY <1>3, <2>1
  <2>3. MemoryGoal
    BY <1>1, <1>2, <2>1
  <2> QED BY <2>2, <2>3
<1>7. CASE StartSwitch(b, u)
  <2>1. fork' = f /\ UNCHANGED <<pending_db, popped, undo_max, log, unflushed>>
    BY <1>7 DEF StartSwitch, logVars
  <2> DEFINE todo == BranchFrom(f.head, db.head)
             good == BranchFrom(db.head, f.head)
             s == [c EXCEPT !.at = "switch_pop", !.todo = todo, !.good = good]
  <2>2. task' = IF BranchesKnown(f, f.head, db.head) THEN s ELSE e
    BY <1>7 DEF StartSwitch
  <2>3. ASSUME BranchesKnown(f, f.head, db.head)
        PROVE  TaskOK(s) /\ s.i = task.i /\ s.at = "switch_pop"
    <3>1. db.head \in Blocks
      BY <1>2, <2>3 DEF BranchesKnown, ForkStates
    <3>2. todo \in Seq(Blocks) /\ todo # <<>> /\ good \in Seq(Blocks) /\ good # <<>>
      BY <1>2, <3>1, BranchFacts
    <3>3. c.block = b /\ b \in Blocks
      BY DEF Calling, ChainInv, RestOK, TaskOK, TaskFields
    <3> HIDE DEF todo, good, c
    <3>4. "switch_pop" \in Places
      BY DEF Places, Loops
    <3> QED BY <1>3, <3>2, <3>3, <3>4 DEF TaskOK, TaskFields
  <2> HIDE DEF s, e, f
  <2>4. TaskGoal
    BY <1>3, <2>2, <2>3
  <2>5. MemoryGoal
    BY <1>1, <1>2, <2>1
  <2> QED BY <2>4, <2>5
<1>8. CASE ExtendHead(b, u)
  <2>1. pending_db' = pending_db /\ popped' = popped
    BY <1>8 DEF ExtendHead
  <2>2. CASE Applied(b, b, f, u) /\ task' = c
    <3>1. /\ undo_max' \in Nat
          /\ fork' \in ForkStates
          /\ log' \in [Nums -> Entries] /\ unflushed' \in [num : Nums \cup {0}, was : Entries]
      BY <1>2, <2>2, AppliedRest
    <3> HIDE DEF c
    <3>2. TaskGoal
      BY <1>3, <2>2
    <3> QED BY <2>1, <3>1, <3>2
  <2>3. CASE NotApplied(b, Discard(f, {b}), u) /\ task' = e
    <3>1. Discard(f, {b}) \in ForkStates
      BY <1>2, DiscardType
    <3>2. fork' = Discard(f, {b}) /\ UNCHANGED <<undo_max, log, unflushed>>
      BY <2>3 DEF NotApplied, logVars
    <3> HIDE DEF e, f
    <3>3. TaskGoal
      BY <1>3, <2>3
    <3>4. MemoryGoal
      BY <1>1, <2>1, <3>1, <3>2
    <3> QED BY <3>3, <3>4
  <2> QED BY <1>8, <2>2, <2>3 DEF ExtendHead
<1> QED BY <1>5, <1>6, <1>7, <1>8 DEF EnterPushBlock

-----------------------------------------------------------------------------
(***************************************************************************)
(* One lemma per action: the states it keeps stay in S, and the rest keeps *)
(* its type.                                                               *)
(***************************************************************************)
HistoryStaysIn(S) == db' \in S /\ undo' \in Seq(S) /\ disk' \in S

\* pop_block takes the newest state from the stack.
LEMMA PopBlockHistory ==
  ASSUME ChainInv, NEW S, HistoryIn(S), PopBlock
  PROVE  /\ db' \in S /\ undo' \in Seq(S) /\ popped' \in Seq(Txs)
         /\ ForkPop(fork) \in ForkStates
<1>1. undo \in Seq(S) /\ undo # <<>> /\ fork \in ForkStates /\ fork.head_linked
  BY DEF HistoryIn, PopBlock, PopThrows, ChainInv, RestOK
<1>2. Last(undo) \in S /\ Front(undo) \in Seq(S)
  BY <1>1 DEF Last, Front
<1>3. db.head \in Blocks
  BY DEF PopBlock, PopThrows, HeadBlockFound, ChainInv, HistoryIn, DbStates, DbType, Ids
<1>4. TxsOf[db.head] \in Seq(Txs) /\ popped \in Seq(Txs)
  BY <1>3, BlockAssumption DEF ChainInv, RestOK
<1>5. popped' \in Seq(Txs)
  BY <1>4 DEF PopBlock
<1>6. ForkPop(fork) \in ForkStates
  BY <1>1, ForkPopType
<1> QED BY <1>2, <1>5, <1>6 DEF PopBlock

\* A pass of the loops that pop to the common block.
LEMMA PopToCommonStep ==
  ASSUME ChainInv, NEW S, HistoryIn(S), PopToCommon
  PROVE  HistoryStaysIn(S) /\ RestOK'
<1>1. /\ TaskOK(task) /\ task.at \in {"switch_pop", "bad_pop"}
      /\ UNCHANGED <<pending_db, pending_session, pending, undo_max, log, unflushed, disk>>
  BY DEF PopToCommon, pendingVars, logVars, ChainInv, RestOK
<1>2. task.good # <<>> /\ task.block \in Blocks
  BY <1>1 DEF TaskOK, Loops
<1>3. /\ \A x \in {"switch_pop", "bad_pop", "switch_apply", "good_apply", "restore_pending"} :
           x \in Places
      /\ "restore_pending" \notin Loops
  BY DEF Places, Loops
<1>4. ASSUME PopBlock, fork' = ForkPop(fork),
             task' = [task EXCEPT
               !.at = IF db'.head # Common THEN @
                      ELSE IF @ = "switch_pop" THEN "switch_apply" ELSE "good_apply"]
      PROVE  HistoryStaysIn(S) /\ RestOK'
  <2> DEFINE x == IF db'.head # Common THEN task.at
                  ELSE IF task.at = "switch_pop" THEN "switch_apply" ELSE "good_apply"
  <2>1. /\ x \in {"switch_pop", "bad_pop", "switch_apply", "good_apply"}
        /\ x \in {"switch_pop", "switch_apply"} => task.at = "switch_pop"
    BY <1>1
  <2>2. task' = [task EXCEPT !.at = x]
    BY <1>4
  <2> HIDE DEF x
  <2>3. TaskOK(task')
    BY <1>1, <1>2, <1>3, <2>1, <2>2 DEF TaskOK, TaskFields
  <2>4. db' \in S /\ undo' \in Seq(S) /\ popped' \in Seq(Txs) /\ fork' \in ForkStates
    BY <1>4, PopBlockHistory
  <2>5. HistoryStaysIn(S)
    BY <1>1, <2>4 DEF HistoryStaysIn, HistoryIn
  <2>6. RestOK'
    BY <1>1, <2>3, <2>4 DEF RestOK, ChainInv
  <2> QED BY <2>5, <2>6
<1>5. ASSUME PopFails, task' = [task EXCEPT !.at = "restore_pending", !.failed = TRUE]
      PROVE  HistoryStaysIn(S) /\ RestOK'
  <2>1. TaskOK(task')
    BY <1>1, <1>2, <1>3, <1>5 DEF TaskOK, TaskFields
  <2>2. fork' \in ForkStates
    BY <1>5, ForkPopType DEF PopFails, ChainInv, RestOK
  <2>3. UNCHANGED <<db, undo, popped>>
    BY <1>5 DEF PopFails
  <2>4. HistoryStaysIn(S)
    BY <1>1, <2>3 DEF HistoryStaysIn, HistoryIn
  <2>5. RestOK'
    BY <1>1, <2>1, <2>2, <2>3 DEF RestOK, ChainInv
  <2> QED BY <2>4, <2>5
<1> QED BY <1>4, <1>5 DEF PopToCommon

\* The sequences a branch goes through.
LEMMA BranchSteps ==
  ASSUME NEW s \in Seq(Blocks), s # <<>>
  PROVE  /\ Head(s) \in Blocks /\ Last(s) \in Blocks /\ Tail(s) \in Seq(Blocks)
         /\ Len(s) # 1 => Tail(s) # <<>>
<1>1. Len(s) \in Nat /\ Len(s) >= 1 /\ Head(s) \in Blocks
  OBVIOUS
<1>2. Last(s) \in Blocks
  BY <1>1 DEF Last
<1>3. Tail(s) \in Seq(Blocks) /\ Len(Tail(s)) = Len(s) - 1
  OBVIOUS
<1>4. Len(s) # 1 => Len(Tail(s)) # 0
  BY <1>1, <1>3
<1> QED BY <1>1, <1>2, <1>3, <1>4

\* A pass of the loop that applies the new branch, with the failure that
\* gives it up.
LEMMA SwitchApplyStep ==
  ASSUME ChainInv, NEW S, ClosedUnderBlocks(S), HistoryIn(S), SwitchApply
  PROVE  HistoryStaysIn(S) /\ RestOK'
<1> DEFINE b == Head(task.todo)
           gone == Range(task.todo)
           f == ForkSetHead(Discard(fork, gone), Last(task.good))
<1>1. /\ TaskOK(task) /\ task.at = "switch_apply"
      /\ UNCHANGED <<pending_db, pending_session, pending, popped, disk>>
  BY DEF SwitchApply, pendingVars, ChainInv, RestOK
<1>2. /\ task.good \in Seq(Blocks) /\ task.good # <<>> /\ task.block \in Blocks
      /\ task.todo \in Seq(Blocks) /\ task.todo # <<>>
  BY <1>1 DEF TaskOK, Loops
<1>3. /\ \A x \in {"switch_apply", "bad_pop", "good_apply", "restore_pending"} : x \in Places
      /\ "restore_pending" \notin Loops
  BY DEF Places, Loops
<1>4. b \in Blocks /\ Last(task.good) \in Ids
  BY <1>2, BranchSteps, NumFacts
<1>5. db \in S /\ undo \in Seq(S) /\ disk \in S /\ undo_max \in Nat /\ fork \in ForkStates
  BY DEF HistoryIn, ChainInv, RestOK
<1>6. ASSUME Applied(b, b, fork, undo),
             task' = [task EXCEPT
                !.at = IF Len(task.todo) = 1 THEN "restore_pending" ELSE @,
                !.todo = Tail(@)]
      PROVE  HistoryStaysIn(S) /\ RestOK'
  <2>1. db' \in S /\ undo' \in Seq(S)
    BY <1>4, <1>5, <1>6, AppliedHistory
  <2>2. /\ undo_max' \in Nat
        /\ fork' \in ForkStates
        /\ log' \in [Nums -> Entries] /\ unflushed' \in [num : Nums \cup {0}, was : Entries]
    BY <1>4, <1>5, <1>6, AppliedRest
  <2> DEFINE x == IF Len(task.todo) = 1 THEN "restore_pending" ELSE "switch_apply"
             ts == Tail(task.todo)
  <2>3. /\ ts \in Seq(Blocks) /\ x \in {"switch_apply", "restore_pending"}
        /\ x # "restore_pending" => ts # <<>>
    BY <1>2, BranchSteps
  <2>4. task' = [task EXCEPT !.at = x, !.todo = ts]
    BY <1>1, <1>6
  <2> HIDE DEF x, ts
  <2>5. TaskOK(task')
    BY <1>1, <1>2, <1>3, <2>3, <2>4 DEF TaskOK, TaskFields
  <2>6. HistoryStaysIn(S)
    BY <1>1, <1>5, <2>1 DEF HistoryStaysIn
  <2>7. RestOK'
    BY <1>1, <2>2, <2>5 DEF RestOK, ChainInv
  <2> QED BY <2>6, <2>7
<1>7. ASSUME NotApplied(b, f, undo),
             task' = [task EXCEPT
                !.at = IF db.head = Common THEN "good_apply" ELSE "bad_pop",
                !.todo = <<>>,
                !.failed = TRUE]
      PROVE  HistoryStaysIn(S) /\ RestOK'
  <2>1. db' \in S /\ undo' \in Seq(S)
    BY <1>4, <1>5, <1>7, NotAppliedHistory
  <2>2. f \in ForkStates
    BY <1>4, <1>5, DiscardType, ForkSetHeadType
  <2>3. fork' \in ForkStates /\ UNCHANGED <<undo_max, log, unflushed>>
    BY <1>7, <2>2 DEF NotApplied, logVars
  <2> DEFINE x == IF db.head = Common THEN "good_apply" ELSE "bad_pop"
  <2>4. x \in {"good_apply", "bad_pop"}
    OBVIOUS
  <2>5. task' = [task EXCEPT !.at = x, !.todo = <<>>, !.failed = TRUE]
    BY <1>7
  <2> HIDE DEF x
  <2>6. <<>> \in Seq(Blocks)
    OBVIOUS
  <2>7. TaskOK(task')
    BY <1>1, <1>2, <1>3, <2>4, <2>5, <2>6 DEF TaskOK, TaskFields
  <2>8. HistoryStaysIn(S)
    BY <1>1, <1>5, <2>1 DEF HistoryStaysIn
  <2>9. RestOK'
    BY <1>1, <2>3, <2>7 DEF RestOK, ChainInv
  <2> QED BY <2>8, <2>9
<1> QED BY <1>6, <1>7 DEF SwitchApply

\* A pass of the loop that restores the good branch.
LEMMA GoodApplyStep ==
  ASSUME ChainInv, NEW S, ClosedUnderBlocks(S), HistoryIn(S), GoodApply
  PROVE  HistoryStaysIn(S) /\ RestOK'
<1> DEFINE g == Head(task.good)
<1>1. /\ TaskOK(task) /\ task.at = "good_apply"
      /\ UNCHANGED <<pending_db, pending_session, pending, popped, disk>>
  BY DEF GoodApply, pendingVars, ChainInv, RestOK
<1>2. task.good \in Seq(Blocks) /\ task.good # <<>> /\ task.block \in Blocks
  BY <1>1 DEF TaskOK, Loops
<1>3. /\ \A x \in {"good_apply", "restore_pending"} : x \in Places
      /\ "restore_pending" \notin Loops
  BY DEF Places, Loops
<1>4. g \in Blocks
  BY <1>2, BranchSteps
<1>5. db \in S /\ undo \in Seq(S) /\ disk \in S /\ undo_max \in Nat /\ fork \in ForkStates
  BY DEF HistoryIn, ChainInv, RestOK
<1>6. ASSUME Applied(g, task.block, fork, undo),
             task' = [task EXCEPT
                !.at = IF Len(task.good) = 1 THEN "restore_pending" ELSE @,
                !.good = Tail(@)]
      PROVE  HistoryStaysIn(S) /\ RestOK'
  <2>1. db' \in S /\ undo' \in Seq(S)
    BY <1>4, <1>5, <1>6, AppliedHistory
  <2>2. /\ undo_max' \in Nat
        /\ fork' \in ForkStates
        /\ log' \in [Nums -> Entries] /\ unflushed' \in [num : Nums \cup {0}, was : Entries]
    BY <1>2, <1>4, <1>5, <1>6, AppliedRest
  <2> DEFINE x == IF Len(task.good) = 1 THEN "restore_pending" ELSE "good_apply"
             ts == Tail(task.good)
  <2>3. /\ ts \in Seq(Blocks) /\ x \in {"good_apply", "restore_pending"}
        /\ x # "restore_pending" => ts # <<>>
    BY <1>2, BranchSteps
  <2>4. task' = [task EXCEPT !.at = x, !.good = ts]
    BY <1>1, <1>6
  <2> HIDE DEF x, ts
  <2>5. TaskOK(task')
    BY <1>1, <1>2, <1>3, <2>3, <2>4 DEF TaskOK, TaskFields
  <2>6. HistoryStaysIn(S)
    BY <1>1, <1>5, <2>1 DEF HistoryStaysIn
  <2>7. RestOK'
    BY <1>1, <2>2, <2>5 DEF RestOK, ChainInv
  <2> QED BY <2>6, <2>7
<1>7. ASSUME NotApplied(g, fork, undo), task' = [task EXCEPT !.at = "restore_pending"]
      PROVE  HistoryStaysIn(S) /\ RestOK'
  <2>1. db' \in S /\ undo' \in Seq(S)
    BY <1>4, <1>5, <1>7, NotAppliedHistory
  <2>2. fork' \in ForkStates /\ UNCHANGED <<undo_max, log, unflushed>>
    BY <1>5, <1>7 DEF NotApplied, logVars
  <2>3. TaskOK(task')
    BY <1>1, <1>2, <1>3, <1>7 DEF TaskOK, TaskFields
  <2>4. HistoryStaysIn(S)
    BY <1>1, <1>5, <2>1 DEF HistoryStaysIn
  <2>5. RestOK'
    BY <1>1, <2>2, <2>3 DEF RestOK, ChainInv
  <2> QED BY <2>4, <2>5
<1> QED BY <1>6, <1>7 DEF GoodApply

\* The transactions that were set aside are tried again.
LEMMA RequeueType ==
  ASSUME ChainInv, NEW S, NEW p \in Queues(S), NEW ts \in Seq(Txs)
  PROVE  Requeue(p, ts) \in Queues(S) /\ Select(p, ts) \in Queues(S)
<1>1. undo_max \in Nat
  BY DEF ChainInv, RestOK
<1>2. \A skip : \A q \in Queues(S), t \in Txs : PushTx(q, t, skip) \in Queues(S)
  BY <1>1, PushTxFacts DEF IsAfterPush
<1>3. \A q \in Queues(S), t \in Txs : RequeueTx(q, t) \in Queues(S) /\ SelectTx(q, t) \in Queues(S)
  BY <1>2, Zenon DEF RequeueTx, SelectTx
<1> QED BY <1>3, RequeueIn, SelectIn

\* The tasks between calls, and those of close and reindex, are well formed.
LEMMA IdleTasks ==
  /\ TaskOK(Idle) /\ TaskOK(Stopped) /\ TaskOK(Broken)
  /\ \A last : TaskOK([Idle EXCEPT !.at = "rewind", !.last = last])
  /\ \A i, last : TaskOK([Idle EXCEPT !.at = "reindex", !.i = i, !.last = last])
<1>1. <<>> \in Seq(Txs) /\ <<>> \in Seq(Blocks) /\ NoBlock \in Ids
  BY DEF Ids
<1>2. \A x \in {"idle", "down", "broken", "rewind", "reindex"} : x \in Places /\ x \notin Loops
  BY DEF Places, Loops
<1> DEFINE e == <<>>
<1> HIDE DEF e
<1>3. Idle = [at |-> "idle", block |-> NoBlock, keep |-> e, before |-> Genesis,
              todo |-> e, good |-> e, failed |-> FALSE, i |-> 0, last |-> 0]
  BY DEF Idle, e
<1>4. e \in Seq(Txs) /\ e \in Seq(Blocks)
  BY <1>1 DEF e
<1>5. TaskOK(Idle)
  BY <1>1, <1>2, <1>3, <1>4 DEF TaskOK, TaskFields
<1>6. TaskOK(Stopped) /\ TaskOK(Broken)
  BY <1>2, <1>5 DEF TaskOK, TaskFields, Stopped, Broken
<1>7. \A last : TaskOK([Idle EXCEPT !.at = "rewind", !.last = last])
  BY <1>2, <1>5 DEF TaskOK, TaskFields
<1>8. \A i, last : TaskOK([Idle EXCEPT !.at = "reindex", !.i = i, !.last = last])
  BY <1>2, <1>5 DEF TaskOK, TaskFields
<1> QED BY <1>5, <1>6, <1>7, <1>8

\* The end of push_block: the restorer queues what was popped and what was
\* pending.
LEMMA RestorePendingStep ==
  ASSUME ChainInv, NEW S, HistoryIn(S), RestorePending
  PROVE  HistoryStaysIn(S) /\ RestOK'
<1> DEFINE q == [session |-> FALSE, undo |-> undo, db |-> db, txs |-> <<>>]
           ts == popped \o task.keep
           p == Requeue(q, ts)
<1>1. q \in Queues(S)
  BY DEF Queues, HistoryIn, ChainInv
<1>2. ts \in Seq(Txs)
  BY DEF ChainInv, RestOK, TaskOK
<1>3. p \in Queues(S)
  <2> HIDE DEF q, ts
  <2> QED BY <1>1, <1>2, RequeueType
<1>4. /\ pending_session' = p.session /\ pending_db' = p.db /\ pending' = p.txs /\ undo' = p.undo
      /\ popped' = <<>>
      /\ UNCHANGED <<db, undo_max, fork, log, unflushed, disk>>
  BY DEF RestorePending, logVars
<1> HIDE DEF p
<1>5. /\ pending_session' \in BOOLEAN /\ pending_db' \in DbStates /\ pending' \in Seq(Txs)
      /\ undo' \in Seq(S) /\ popped' \in Seq(Txs)
  BY <1>3, <1>4 DEF Queues
<1>6. \/ task' = Idle \/ task' = Broken
      \/ task' = [Idle EXCEPT !.at = "reindex", !.i = task.i + 1, !.last = task.last]
  BY DEF RestorePending
<1>7. TaskOK(task')
  <2>1. TaskOK([Idle EXCEPT !.at = "reindex", !.i = task.i + 1, !.last = task.last])
    BY IdleTasks, Zenon
  <2> QED BY <1>6, <2>1, IdleTasks, Zenon
<1>8. HistoryStaysIn(S)
  BY <1>4, <1>5 DEF HistoryStaysIn, HistoryIn
<1>9. RestOK'
  BY <1>4, <1>5, <1>7 DEF RestOK, ChainInv
<1> QED BY <1>8, <1>9

\* push_transaction and validate_transaction.
LEMMA TransactionStep ==
  ASSUME ChainInv, NEW S, HistoryIn(S), NEW t \in Txs, PushTransaction(t) \/ ValidateTransaction(t)
  PROVE  HistoryStaysIn(S) /\ RestOK'
<1>0. undo_max \in Nat /\ undo \in Seq(S) /\ UNCHANGED <<db, popped, undo_max, fork, log, unflushed, disk, task>>
  BY DEF ChainInv, RestOK, HistoryIn, PushTransaction, ValidateTransaction, logVars
<1>1. CASE PushTransaction(t)
  <2> DEFINE q == [session |-> pending_session, undo |-> undo, db |-> pending_db, txs |-> pending]
             p == PushTx(q, t, FALSE)
  <2>1. q \in Queues(S)
    BY DEF Queues, HistoryIn, ChainInv, RestOK
  <2>2. p \in Queues(S)
    <3> HIDE DEF q
    <3>1. IsAfterPush(q, t, FALSE, S, p)
      BY <1>0, <2>1, PushTxFacts
    <3> QED BY <3>1 DEF IsAfterPush
  <2>3. pending_session' = p.session /\ pending_db' = p.db /\ pending' = p.txs /\ undo' = p.undo
    BY <1>1 DEF PushTransaction
  <2> HIDE DEF p
  <2>4. /\ pending_session' \in BOOLEAN /\ pending_db' \in DbStates /\ pending' \in Seq(Txs)
        /\ undo' \in Seq(S)
    BY <2>2, <2>3 DEF Queues
  <2>5. HistoryStaysIn(S)
    BY <1>0, <2>4 DEF HistoryStaysIn, HistoryIn
  <2>6. RestOK'
    BY <1>0, <2>4 DEF RestOK, ChainInv
  <2> QED BY <2>5, <2>6
<1>2. CASE ValidateTransaction(t)
  <2> DEFINE k == IF pending_session THEN 1 ELSE 0
  <2>1. k \in Int
    OBVIOUS
  <2>2. undo' = OpenedFor(undo, pending_db, <<t>>, k, FALSE) /\ UNCHANGED <<pending_db, pending_session, pending>>
    BY <1>2 DEF ValidateTransaction, pendingVars
  <2> HIDE DEF k
  <2>3. undo' \in Seq(S)
    BY <1>0, <2>1, <2>2, OpenedForIn
  <2>4. HistoryStaysIn(S)
    BY <1>0, <2>3 DEF HistoryStaysIn, HistoryIn
  <2>5. RestOK'
    BY <1>0, <2>2 DEF RestOK, ChainInv
  <2> QED BY <2>4, <2>5
<1> QED BY <1>1, <1>2

\* push_block, and generate_block, which begins it with the stack that the
\* selection of the transactions has left.
LEMMA PushStep ==
  ASSUME ChainInv, NEW S, ClosedUnderBlocks(S), HistoryIn(S), NEW b \in Blocks,
         PushBlock(b) \/ GenerateBlock(b)
  PROVE  HistoryStaysIn(S) /\ RestOK'
<1>1. PICK u \in Seq(S) : EnterPushBlock(b, u)
  <2>1. CASE PushBlock(b)
    BY <2>1 DEF PushBlock, HistoryIn
  <2>2. CASE GenerateBlock(b)
    <3> DEFINE q == [session |-> TRUE, undo |-> Opened(undo, 0), db |-> db, txs |-> <<>>]
    <3>1. Opened(undo, 0) \in Seq(S)
      BY OpenedIn, 0 \in Int DEF HistoryIn, ChainInv, RestOK
    <3>2. q \in Queues(S) /\ pending \in Seq(Txs)
      BY <3>1 DEF Queues, ChainInv, HistoryIn, RestOK
    <3>3. Selected = Select(q, pending)
      BY DEF Selected
    <3> HIDE DEF q
    <3>4. Selected \in Queues(S)
      BY <3>2, <3>3, RequeueType
    <3>5. Selected.undo \in Seq(S)
      BY <3>4 DEF Queues
    <3> QED BY <2>2, <3>5 DEF GenerateBlock
  <2> QED BY <2>1, <2>2
<1>2. db' \in S /\ undo' \in Seq(S) /\ disk' = disk
  BY <1>1, EnterHistory
<1>3. RestOK'
  BY <1>1, EnterRest
<1> QED BY <1>2, <1>3 DEF HistoryStaysIn, HistoryIn

\* The entries of the block log that survive.
LEMMA LogFacts ==
  ASSUME ChainInv
  PROVE  /\ \A l \in Survivors : l \in [Nums -> Entries]
         /\ \A n : \A l \in [Nums -> Entries] :
              CutAfter(l, n) \in [Nums -> Entries] /\ FetchByNumber(l, n) \in Ids
         /\ Flushed \in [num : Nums \cup {0}, was : Entries]
<1>1. NoEntry \in Entries /\ NoBlock \in Ids
  BY DEF NoEntry, Entries, Ids
<1>2. log \in [Nums -> Entries] /\ unflushed.was \in Entries
  BY DEF ChainInv, RestOK
<1>3. \A l \in Survivors : l \in [Nums -> Entries]
  <2> SUFFICES ASSUME NEW l \in Survivors PROVE l \in [Nums -> Entries]
    OBVIOUS
  <2>1. CASE l = log
    BY <1>2, <2>1
  <2>2. ASSUME NEW n \in Nums,
               l \in {[log EXCEPT ![n] = unflushed.was], [log EXCEPT ![n].data = NoBlock]}
        PROVE  l \in [Nums -> Entries]
    <3>1. [log EXCEPT ![n] = unflushed.was] \in [Nums -> Entries]
      BY <1>2
    <3>2. log[n] \in Entries
      BY <1>2
    <3>3. [log[n] EXCEPT !.data = NoBlock] \in Entries
      BY <1>1, <3>2 DEF Entries
    <3>4. [log EXCEPT ![n].data = NoBlock] \in [Nums -> Entries]
      BY <1>2, <3>3
    <3> QED BY <2>2, <3>1, <3>4
  <2> QED BY <2>1, <2>2 DEF Survivors
<1>4. \A n : \A l \in [Nums -> Entries] : CutAfter(l, n) \in [Nums -> Entries]
  BY <1>1 DEF CutAfter
<1>5. \A n : \A l \in [Nums -> Entries] : FetchByNumber(l, n) \in Ids
  BY <1>1 DEF FetchByNumber, Entries
<1>6. Flushed \in [num : Nums \cup {0}, was : Entries]
  BY <1>1 DEF Flushed
<1> QED BY <1>3, <1>4, <1>5, <1>6

\* close, a crash, and the loop of reindex.
LEMMA StopStep ==
  ASSUME ChainInv, NEW S, HistoryIn(S), Close \/ Rewind \/ Flush \/ Crash \/ ReplayGap
  PROVE  HistoryStaysIn(S) /\ RestOK'
<1>1. CASE Close
  <2>1. /\ pending' \in Seq(Txs) /\ pending_db' = db
        /\ UNCHANGED <<db, popped, undo, undo_max, fork, log, unflushed, disk>>
    BY <1>1 DEF Close, ClearPending, logVars
  <2>2. pending_session' \in BOOLEAN
    BY <1>1, Zenon DEF Close, ClearPending
  <2>3. TaskOK(task')
    BY <1>1, IdleTasks, Zenon DEF Close
  <2>4. HistoryStaysIn(S)
    BY <2>1 DEF HistoryStaysIn, HistoryIn
  <2>5. RestOK'
    BY <2>1, <2>2, <2>3 DEF RestOK, ChainInv, HistoryIn
  <2> QED BY <2>4, <2>5
<1>2. CASE Rewind
  <2>1. /\ PopBlock /\ fork' = Discard(ForkPop(fork), {db.head})
        /\ UNCHANGED <<pending_db, pending_session, pending, undo_max, log, unflushed, disk, task>>
    BY <1>2 DEF Rewind, pendingVars, logVars
  <2>2. db' \in S /\ undo' \in Seq(S) /\ popped' \in Seq(Txs) /\ ForkPop(fork) \in ForkStates
    BY <2>1, PopBlockHistory
  <2>3. fork' \in ForkStates
    BY <2>1, <2>2, DiscardType
  <2>4. HistoryStaysIn(S)
    BY <2>1, <2>2 DEF HistoryStaysIn, HistoryIn
  <2>5. RestOK'
    BY <2>1, <2>2, <2>3 DEF RestOK, ChainInv
  <2> QED BY <2>4, <2>5
<1>3. CASE Flush
  <2>1. /\ disk' = db /\ unflushed' = Flushed /\ task' = Stopped
        /\ UNCHANGED <<db, pending_db, pending_session, pending, popped, undo, undo_max, fork, log>>
    BY <1>3 DEF Flush, pendingVars
  <2>2. TaskOK(task') /\ unflushed' \in [num : Nums \cup {0}, was : Entries]
    BY <2>1, IdleTasks, LogFacts
  <2>3. HistoryStaysIn(S)
    BY <2>1 DEF HistoryStaysIn, HistoryIn
  <2>4. RestOK'
    BY <2>1, <2>2 DEF RestOK, ChainInv
  <2> QED BY <2>3, <2>4
<1>4. CASE Crash
  <2>1. /\ log' \in Survivors /\ unflushed' = Flushed /\ task' = Stopped
        /\ UNCHANGED <<db, pending_db, pending_session, pending, popped, undo, undo_max, fork, disk>>
    BY <1>4 DEF Crash, pendingVars
  <2>2. /\ TaskOK(task') /\ unflushed' \in [num : Nums \cup {0}, was : Entries]
        /\ log' \in [Nums -> Entries]
    BY <2>1, IdleTasks, LogFacts
  <2>3. HistoryStaysIn(S)
    BY <2>1 DEF HistoryStaysIn, HistoryIn
  <2>4. RestOK'
    BY <2>1, <2>2 DEF RestOK, ChainInv
  <2> QED BY <2>3, <2>4
<1>5. CASE ReplayGap
  <2>1. /\ log' = CutAfter(log, LastNum(CutAfter(log, task.i))) /\ task' = Idle
        /\ UNCHANGED <<db, pending_db, pending_session, pending, popped, undo, undo_max, fork, unflushed, disk>>
    BY <1>5 DEF ReplayGap, pendingVars
  <2>2. log \in [Nums -> Entries]
    BY DEF ChainInv, RestOK
  <2>3. TaskOK(task') /\ log' \in [Nums -> Entries]
    BY <2>1, <2>2, IdleTasks, LogFacts
  <2>4. HistoryStaysIn(S)
    BY <2>1 DEF HistoryStaysIn, HistoryIn
  <2>5. RestOK'
    BY <2>1, <2>3 DEF RestOK, ChainInv
  <2> QED BY <2>4, <2>5
<1> QED BY <1>1, <1>2, <1>3, <1>4, <1>5

\* open reads the database back, and reindex pushes what the log has more.
LEMMA OpenStep ==
  ASSUME ChainInv, NEW S, HistoryIn(S), Open
  PROVE  HistoryStaysIn(S) /\ RestOK'
<1> DEFINE l == CutAfter(log, LastNum(log))
           first == FetchByNumber(l, Num[disk.head])
<1>1. /\ db' = disk /\ pending_db' = disk /\ pending_session' = FALSE
      /\ pending' = <<>> /\ popped' = <<>> /\ undo' = <<>> /\ undo_max' = InitialMax
      /\ log' = l /\ unflushed' = Flushed /\ UNCHANGED disk
  BY DEF Open
<1>2. log \in [Nums -> Entries] /\ l \in [Nums -> Entries]
  BY LogFacts DEF ChainInv, RestOK
<1>3. first \in Ids
  <2> HIDE DEF l
  <2> QED BY <1>2, LogFacts
<1>4. /\ task' \in {Idle, Broken} \/ \E i, last : task' = [Idle EXCEPT !.at = "reindex", !.i = i, !.last = last]
      /\ fork' = EmptyFork \/ (first # NoBlock /\ fork' = ForkStart(EmptyFork, first))
  BY DEF Open, StartReindex
<1>5. TaskOK(task')
  <2>1. CASE task' \in {Idle, Broken}
    BY <2>1, IdleTasks
  <2>2. CASE \E i, last : task' = [Idle EXCEPT !.at = "reindex", !.i = i, !.last = last]
    <3>1. PICK i, last : task' = [Idle EXCEPT !.at = "reindex", !.i = i, !.last = last]
      BY <2>2
    <3>2. TaskOK([Idle EXCEPT !.at = "reindex", !.i = i, !.last = last])
      BY IdleTasks, Zenon
    <3> QED BY <3>1, <3>2, Zenon
  <2> QED BY <1>4, <2>1, <2>2
<1> HIDE DEF l, first
<1>6. fork' \in ForkStates
  <2>1. first # NoBlock => first \in Blocks
    BY <1>3 DEF Ids
  <2> QED BY <1>4, <2>1, ForkStartType
<1>7. pending_session' \in BOOLEAN
  BY <1>1, Zenon
<1>8. disk \in S /\ disk \in DbStates
  BY DEF HistoryIn, ChainInv
<1>9. HistoryStaysIn(S)
  BY <1>1, <1>8 DEF HistoryStaysIn
<1>10. /\ pending' \in Seq(Txs) /\ popped' \in Seq(Txs) /\ undo_max' \in Nat
       /\ unflushed' \in [num : Nums \cup {0}, was : Entries]
  BY <1>1, LogFacts, TxAssumption
<1>11. RestOK'
  BY <1>1, <1>2, <1>5, <1>6, <1>7, <1>8, <1>10 DEF RestOK
<1> QED BY <1>9, <1>11

\* A block of the log that reindex replays.
LEMMA ReplayBlockStep ==
  ASSUME ChainInv, NEW S, ClosedUnderBlocks(S), HistoryIn(S), ReplayBlock
  PROVE  HistoryStaysIn(S) /\ RestOK'
<1> DEFINE b == FetchByNumber(log, task.i)
<1>1. b \in Ids /\ b # NoBlock /\ EnterPushBlock(b, undo)
  BY LogFacts DEF ReplayBlock, ChainInv, RestOK
<1>2. b \in Blocks /\ undo \in Seq(S)
  BY <1>1 DEF Ids, HistoryIn
<1> HIDE DEF b
<1>3. db' \in S /\ undo' \in Seq(S) /\ disk' = disk
  BY <1>1, <1>2, EnterHistory
<1>4. RestOK'
  BY <1>1, <1>2, EnterRest
<1> QED BY <1>3, <1>4 DEF HistoryStaysIn, HistoryIn

\* Every step keeps the states in S and the types of the rest.
LEMMA HistoryStep ==
  ASSUME ChainInv, NEW S, ClosedUnderBlocks(S), HistoryIn(S), [Next]_vars
  PROVE  HistoryStaysIn(S) /\ RestOK'
<1>1. CASE UNCHANGED vars
  BY <1>1 DEF vars, HistoryStaysIn, HistoryIn, RestOK, ChainInv
<1>2. CASE Next
  BY <1>2, PopToCommonStep, SwitchApplyStep, GoodApplyStep, RestorePendingStep, PushStep,
     TransactionStep, StopStep, OpenStep, ReplayBlockStep DEF Next, Step
<1> QED BY <1>1, <1>2

\* The type invariant holds, restarts and crashes included.
LEMMA ChainInvCorrect == Spec => []ChainInv
<1>1. Init => ChainInv
  <2> SUFFICES ASSUME Init PROVE ChainInv
    OBVIOUS
  <2>1. HistoryIn(DbStates) /\ pending_db \in DbStates
    BY FailedIsNoState DEF Init, HistoryIn
  <2>2. TaskOK(task) /\ fork \in ForkStates
    BY IdleTasks, ForkStartType DEF Init
  <2>3. NoEntry \in Entries
    BY DEF NoEntry, Entries, Ids
  <2>4. log \in [Nums -> Entries] /\ unflushed \in [num : Nums \cup {0}, was : Entries]
    BY <2>3 DEF Init, Flushed
  <2>5. pending \in Seq(Txs) /\ popped \in Seq(Txs) /\ undo_max \in Nat
    BY TxAssumption DEF Init
  <2>6. pending_session \in BOOLEAN
    BY Zenon DEF Init
  <2> QED BY <2>1, <2>2, <2>4, <2>5, <2>6 DEF ChainInv, RestOK
<1>2. ChainInv /\ [Next]_vars => ChainInv'
  <2> SUFFICES ASSUME ChainInv, [Next]_vars PROVE ChainInv'
    OBVIOUS
  <2>1. ClosedUnderBlocks(DbStates)
    <3>1. Replaying \in BOOLEAN
      BY Zenon DEF Replaying
    <3> QED BY <3>1, ApplyBlockFacts DEF ClosedUnderBlocks
  <2>2. HistoryStaysIn(DbStates) /\ RestOK'
    BY <2>1, HistoryStep DEF ChainInv
  <2> QED BY <2>2 DEF ChainInv, HistoryStaysIn, HistoryIn
<1> QED BY <1>1, <1>2, PTL DEF Spec

\* The variables of database, of the fork database and of the block log keep
\* their types, whatever is pushed, popped, switched, crashed and replayed.
THEOREM ChainTypeCorrect == Spec => []TypeOK
<1>1. ChainInv => TypeOK
  <2> SUFFICES ASSUME ChainInv PROVE TypeOK
    OBVIOUS
  <2>1. db \in DbType /\ pending_db \in DbType /\ disk \in DbType
    BY DEF ChainInv, HistoryIn, RestOK, DbStates
  <2>2. undo \in Seq(DbType)
    <3>1. undo \in Seq(DbStates) /\ DbStates \subseteq DbType
      BY DEF ChainInv, HistoryIn, DbStates
    <3> HIDE DEF DbStates, DbType
    <3> QED BY <3>1
  <2>3. /\ fork.index \subseteq Blocks /\ fork.linked \subseteq fork.index
        /\ fork.head \in Ids /\ fork.head_linked \in BOOLEAN /\ fork.max \in Nat
    BY DEF ChainInv, RestOK, ForkStates
  <2>4. log \in [Nums -> [id : Ids, data : Ids]] /\ unflushed.num \in Nums \cup {0}
    BY DEF ChainInv, RestOK, Entries
  <2>5. task.at \in Places /\ (task.at \in Loops => task.good # <<>>)
    BY DEF ChainInv, RestOK, TaskOK
  <2>6. pending_session \in BOOLEAN /\ pending \in Seq(Txs) /\ popped \in Seq(Txs) /\ undo_max \in Nat
    BY DEF ChainInv, RestOK
  <2> QED BY <2>1, <2>2, <2>3, <2>4, <2>5, <2>6 DEF TypeOK
<1> QED BY <1>1, ChainInvCorrect, PTL

-----------------------------------------------------------------------------
(***************************************************************************)
(* A node that is not restarted.  Whatever it keeps is the replay of a     *)
(* chain and has applied nothing twice, and between calls the pending      *)
(* state is what the pending transactions make of the head state.          *)
(***************************************************************************)
ReplayStates == {d \in DbStates : d = Replayed[d.head] /\ OnlyOnce(d)}

PendingOK ==
  task.at = "idle" =>
    /\ pending_db = ApplyTxs(db, pending, FALSE)
    /\ OnlyOnce(pending_db)
    /\ pending # <<>> => pending_session

NotReplaying == task.i = 0 /\ task.at \in Loops \cup {"idle", "restore_pending"}

RunningInv == ChainInv /\ HistoryIn(ReplayStates) /\ NotReplaying /\ PendingOK

\* Applying a block to the replay of its predecessor is the replay of the
\* block.
LEMMA ReplayStatesClosed ==
  ASSUME NotReplaying
  PROVE  ClosedUnderBlocks(ReplayStates)
<1>1. Replaying = FALSE
  BY DEF Replaying, NotReplaying
<1> SUFFICES ASSUME NEW d \in ReplayStates, NEW b \in Blocks, ApplyBlock(d, b, FALSE) # Failed
             PROVE  ApplyBlock(d, b, FALSE) \in ReplayStates
  BY <1>1 DEF ClosedUnderBlocks, ReplayStates
<1> DEFINE a == ApplyBlock(d, b, FALSE)
<1>2. d \in DbStates /\ d = Replayed[d.head] /\ OnlyOnce(d) /\ d # Failed
  BY FailedIsNoState DEF ReplayStates, DbStates
<1>3. a \in DbStates /\ a.head = b /\ Prev[b] = d.head /\ OnlyOnce(a)
  BY <1>2, ApplyBlockFacts
<1>4. Replayed[b] = ApplyBlock(Replayed[Prev[b]], b, FALSE)
  BY <1>2, <1>3, ReplayedFacts
<1>5. Replayed[b] = a
  BY <1>2, <1>3, <1>4
<1> HIDE DEF a
<1> QED BY <1>3, <1>5 DEF ReplayStates, a

\* The actions that such a node takes.
LEMMA RunningActions ==
  ASSUME ~Restarts, RunningInv, Next
  PROVE  \/ PopToCommon \/ SwitchApply \/ GoodApply \/ RestorePending
         \/ \E b \in Blocks : PushBlock(b) \/ GenerateBlock(b)
         \/ \E t \in Txs : PushTransaction(t) \/ ValidateTransaction(t)
<1>1. task.at \notin {"rewind", "reindex", "down"}
  BY DEF RunningInv, NotReplaying, Loops
<1>2. ~(Close \/ Crash)
  BY DEF Close, Crash
<1>3. ~(Rewind \/ Flush \/ ReplayBlock \/ ReplayGap \/ Open)
  BY <1>1 DEF Rewind, Flush, ReplayBlock, ReplayGap, Open
<1> QED BY <1>2, <1>3 DEF Next, Step

\* The pending state after a call and after a transaction.
LEMMA RestoreMatches ==
  ASSUME RunningInv, RestorePending
  PROVE  NotReplaying' /\ PendingOK'
<1> DEFINE S == ReplayStates
           q == [session |-> FALSE, undo |-> undo, db |-> db, txs |-> <<>>]
           ts == popped \o task.keep
           p == Requeue(q, ts)
           D == Matching(db, S)
<1>1. /\ Replaying = FALSE /\ undo_max \in Nat /\ ts \in Seq(Txs)
      /\ db \in S /\ undo \in Seq(S) /\ db \in DbStates /\ OnlyOnce(db)
  BY DEF RunningInv, NotReplaying, Replaying, ChainInv, RestOK, TaskOK, HistoryIn, ReplayStates
<1> HIDE DEF S, ts
<1>2. q \in D
  <2>1. ApplyTxs(db, <<>>, FALSE) = db
    BY <1>1, ApplyNothing
  <2>2. q \in Queues(S)
    BY <1>1 DEF Queues
  <2>3. q.db = db /\ q.txs = <<>>
    OBVIOUS
  <2> HIDE DEF q
  <2> QED BY <1>1, <2>1, <2>2, <2>3 DEF Matching
<1>3. \A x \in D, t \in Txs : RequeueTx(x, t) \in D
  <2>1. \A x \in D, t \in Txs : PushTx(x, t, FALSE) \in D
    BY <1>1, PushTxMatches
  <2> HIDE DEF D
  <2> QED BY <1>1, <2>1 DEF RequeueTx
<1>4. p \in D
  <2> HIDE DEF D, q
  <2> QED BY <1>1, <1>2, <1>3, RequeueIn
<1>5. /\ pending_session' = p.session /\ pending_db' = p.db /\ pending' = p.txs /\ db' = db
      /\ task' = Idle
  BY <1>1 DEF RestorePending, ts
<1> HIDE DEF p
<1>6. PendingOK'
  BY <1>4, <1>5 DEF PendingOK, Matching
<1>7. NotReplaying'
  BY <1>5 DEF NotReplaying, Idle
<1> QED BY <1>6, <1>7

\* push_transaction keeps the pending state that of its queue, and
\* validate_transaction touches neither.
LEMMA TransactionMatches ==
  ASSUME RunningInv, NEW t \in Txs, PushTransaction(t) \/ ValidateTransaction(t)
  PROVE  NotReplaying' /\ PendingOK'
<1>1. task.at = "idle" /\ task' = task /\ db' = db
  <2>1. task = Idle /\ task' = task /\ db' = db
    BY DEF PushTransaction, ValidateTransaction
  <2>2. Idle.at = "idle"
    BY DEF Idle
  <2> QED BY <2>1, <2>2
<1>2. NotReplaying'
  BY <1>1 DEF RunningInv, NotReplaying
<1>3. CASE PushTransaction(t)
  <2> DEFINE S == ReplayStates
             q == [session |-> pending_session, undo |-> undo, db |-> pending_db, txs |-> pending]
             p == PushTx(q, t, FALSE)
  <2>1. /\ undo_max \in Nat /\ db \in DbStates /\ undo \in Seq(S)
        /\ pending_db \in DbStates /\ pending_session \in BOOLEAN /\ pending \in Seq(Txs)
    BY DEF RunningInv, ChainInv, RestOK, HistoryIn
  <2>2. /\ pending_db = ApplyTxs(db, pending, FALSE)
        /\ OnlyOnce(pending_db)
        /\ pending # <<>> => pending_session
    BY <1>1 DEF RunningInv, PendingOK
  <2> HIDE DEF S
  <2>3. q \in Queues(S) /\ q.db = pending_db /\ q.txs = pending /\ q.session = pending_session
    BY <2>1 DEF Queues
  <2> HIDE DEF q
  <2>4. q \in Matching(db, S)
    BY <2>2, <2>3 DEF Matching
  <2>5. p \in Matching(db, S)
    BY <2>1, <2>4, PushTxMatches
  <2>6. pending_session' = p.session /\ pending_db' = p.db /\ pending' = p.txs
    BY <1>3 DEF PushTransaction, q
  <2> HIDE DEF p
  <2>7. PendingOK'
    BY <1>1, <2>5, <2>6 DEF PendingOK, Matching
  <2> QED BY <1>2, <2>7
<1>4. CASE ValidateTransaction(t)
  <2>1. UNCHANGED <<pending_db, pending_session, pending>>
    BY <1>4 DEF ValidateTransaction, pendingVars
  <2> QED BY <1>1, <1>2, <2>1 DEF RunningInv, PendingOK
<1> QED BY <1>3, <1>4

\* While a call runs, its task is none of the ones of a restart.
LEMMA CallMatches ==
  ASSUME RunningInv,
         PopToCommon \/ SwitchApply \/ GoodApply \/ (\E b \in Blocks : PushBlock(b) \/ GenerateBlock(b))
  PROVE  NotReplaying' /\ PendingOK'
<1> SUFFICES task'.i = 0 /\ task'.at \in Loops \cup {"restore_pending"}
  BY DEF NotReplaying, PendingOK, Loops
<1>1. task.i = 0 /\ DOMAIN task = TaskFields
  BY DEF RunningInv, NotReplaying, ChainInv, RestOK, TaskOK
<1>2. CASE PopToCommon
  BY <1>1, <1>2 DEF PopToCommon, TaskFields, Loops
<1>3. CASE SwitchApply
  BY <1>1, <1>3 DEF SwitchApply, TaskFields, Loops
<1>4. CASE GoodApply
  BY <1>1, <1>4 DEF GoodApply, TaskFields, Loops
<1>5. ASSUME NEW b \in Blocks, PushBlock(b) \/ GenerateBlock(b)
      PROVE  task'.i = 0 /\ task'.at \in Loops \cup {"restore_pending"}
  <2>1. PICK u : EnterPushBlock(b, u)
    BY <1>5 DEF PushBlock, GenerateBlock
  <2>2. task'.i = task.i /\ task'.at \in {"restore_pending", "switch_pop"}
    BY <2>1, EnterRest DEF RunningInv
  <2> QED BY <1>1, <2>2 DEF Loops
<1> QED BY <1>2, <1>3, <1>4, <1>5

\* Without restarts the states a node reaches are those of replayed chains,
\* the pending state included.
LEMMA RunningInvCorrect ==
  ASSUME ~Restarts
  PROVE  Spec => []RunningInv
<1>1. Init => HistoryIn(ReplayStates) /\ NotReplaying /\ PendingOK
  <2> SUFFICES ASSUME Init PROVE HistoryIn(ReplayStates) /\ NotReplaying /\ PendingOK
    OBVIOUS
  <2>1. Genesis \in ReplayStates
    BY FailedIsNoState, ReplayedFacts DEF ReplayStates, Genesis
  <2>2. HistoryIn(ReplayStates)
    BY <2>1 DEF Init, HistoryIn
  <2>3. NotReplaying
    BY DEF Init, Idle, NotReplaying
  <2>4. ApplyTxs(Genesis, <<>>, FALSE) = Genesis
    BY FailedIsNoState, ApplyNothing
  <2>5. PendingOK
    BY <2>4, FailedIsNoState DEF Init, PendingOK
  <2> QED BY <2>2, <2>3, <2>5
<1>2. ChainInv /\ HistoryIn(ReplayStates) /\ NotReplaying /\ PendingOK /\ [Next]_vars
        => (HistoryIn(ReplayStates) /\ NotReplaying /\ PendingOK)'
  <2> SUFFICES ASSUME RunningInv, [Next]_vars
               PROVE  (HistoryIn(ReplayStates) /\ NotReplaying /\ PendingOK)'
    BY DEF RunningInv
  <2>1. HistoryStaysIn(ReplayStates)
    BY ReplayStatesClosed, HistoryStep DEF RunningInv
  <2>2. HistoryIn(ReplayStates)'
    BY <2>1 DEF HistoryIn, HistoryStaysIn
  <2>3. CASE UNCHANGED vars
    BY <2>2, <2>3 DEF RunningInv, NotReplaying, PendingOK, vars
  <2>4. CASE Next
    <3>1. NotReplaying' /\ PendingOK'
      BY <2>4, RunningActions, RestoreMatches, TransactionMatches, CallMatches
    <3> QED BY <2>2, <3>1
  <2> QED BY <2>3, <2>4
<1> QED BY <1>1, <1>2, ChainInvCorrect, PTL DEF Spec, RunningInv

\* The state of the head block is the one a node has that applied nothing
\* but the chain of that block: forks that were switched to and back, popped
\* blocks, failed blocks and pending transactions leave no trace in it.
THEOREM StateIsThatOfItsChain ==
  ASSUME ~Restarts
  PROVE  Spec => []StateIsReplay
<1>1. RunningInv => StateIsReplay
  <2> SUFFICES ASSUME RunningInv PROVE StateIsReplay
    OBVIOUS
  <2>1. db = Replayed[db.head] /\ db \in DbStates
    BY DEF RunningInv, HistoryIn, ReplayStates
  <2>2. db # Failed
    BY <2>1, FailedIsNoState DEF DbStates
  <2> QED BY <2>1, <2>2, Zenon DEF StateIsReplay
<1> QED BY <1>1, RunningInvCorrect, PTL

\* The index of the transactions is complete, and no transaction takes
\* effect twice, not even one that was popped with its block, pushed again by
\* the restorer and included in another block.
THEOREM DuplicatesAreDetected ==
  ASSUME ~Restarts
  PROVE  Spec => []DuplicatesDetected
<1>1. RunningInv => DuplicatesDetected
  <2> SUFFICES ASSUME RunningInv PROVE DuplicatesDetected
    OBVIOUS
  <2>1. db = Replayed[db.head] /\ OnlyOnce(db)
    BY DEF RunningInv, HistoryIn, ReplayStates
  <2>2. DedupeComplete
    BY <2>1, Zenon DEF DedupeComplete
  <2>3. task.at = "idle" => OnlyOnce(pending_db)
    BY DEF RunningInv, PendingOK
  <2>4. NoTransactionTwice
    BY <2>1, <2>3 DEF NoTransactionTwice, OnlyOnce
  <2> QED BY <2>2, <2>4 DEF DuplicatesDetected
<1> QED BY <1>1, RunningInvCorrect, PTL

\* Between calls the pending state is what the pending transactions make of
\* the state of the head block, however the two came about.
THEOREM PendingStateMatches ==
  ASSUME ~Restarts
  PROVE  Spec => []PendingMatches
<1>1. RunningInv => PendingMatches
  BY DEF RunningInv, PendingOK, PendingMatches
<1> QED BY <1>1, RunningInvCorrect, PTL
=============================================================================
