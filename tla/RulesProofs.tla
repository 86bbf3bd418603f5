---------------------------- MODULE RulesProofs -----------------------------
(***************************************************************************)
(* What the authority checks and the synopses compute, for every graph of  *)
(* authorities, every order and depth, and every pair of chains.           *)
(***************************************************************************)
EXTENDS AuthorityRules, SynopsisRules, NumberLemmas

-----------------------------------------------------------------------------
(***************************************************************************)
(* Loops.  f is the sequence of states of the loop over order, within D.   *)
(***************************************************************************)
Passes(D, order, body, start, n, f) ==
  /\ f \in [0..n -> D]
  /\ f[0] = start
  /\ \A i \in 1..n : f[i] = body[order[i]][f[i - 1]]

\* A loop whose body stays in D makes its passes.
LEMMA PassesExist ==
  ASSUME NEW X, NEW D, NEW start \in D, NEW order \in Seq(X),
         NEW body \in [X -> [D -> D]]
  PROVE  \E f : Passes(D, order, body, start, Len(order), f)
<1> DEFINE n == Len(order)
           T == {i \in 0..n : \E f : Passes(D, order, body, start, i, f)}
<1>0. n \in Nat /\ \A i \in 1..n : order[i] \in X
  OBVIOUS
<1>1. 0 \in T
  <2> DEFINE f == [i \in 0..0 |-> start]
  <2>1. Passes(D, order, body, start, 0, f)
    BY DEF Passes
  <2> QED BY <1>0, <2>1
<1>2. \A i \in 1..n : i - 1 \in T => i \in T
  <2> SUFFICES ASSUME NEW i \in 1..n, i - 1 \in T PROVE i \in T
    OBVIOUS
  <2>1. PICK f : Passes(D, order, body, start, i - 1, f)
    OBVIOUS
  <2> DEFINE g == [j \in 0..i |-> IF j = i THEN body[order[i]][f[i - 1]] ELSE f[j]]
  <2>2. i \in Nat /\ i # 0 /\ i - 1 \in 0..(i - 1) /\ f[i - 1] \in D /\ order[i] \in X
    BY <1>0, <2>1 DEF Passes
  <2>3. body[order[i]][f[i - 1]] \in D
    BY <2>2
  <2>4. \A j \in 0..(i - 1) : g[j] = f[j] /\ f[j] \in D
    BY <2>1, <2>2 DEF Passes
  <2>5. g \in [0..i -> D]
    BY <2>1, <2>2, <2>3 DEF Passes
  <2>6. g[i] = body[order[i]][g[i - 1]]
    <3>1. i \in 0..i /\ g[i - 1] = f[i - 1]
      BY <2>2, <2>4
    <3>2. g[i] = body[order[i]][f[i - 1]]
      BY <3>1
    <3> HIDE DEF g
    <3> QED BY <3>1, <3>2
  <2>7. \A j \in 1..(i - 1) : g[j] = body[order[j]][g[j - 1]]
    BY <2>1, <2>2, <2>4 DEF Passes
  <2>8. Passes(D, order, body, start, i, g)
    <3>1. g[0] = start
      BY <2>1, <2>2, <2>4 DEF Passes
    <3> HIDE DEF g
    <3>2. \A j \in 1..i : j = i \/ j \in 1..(i - 1)
      BY <2>2
    <3>3. \A j \in 1..i : g[j] = body[order[j]][g[j - 1]]
      BY <2>6, <2>7, <3>2
    <3> QED BY <2>5, <3>1, <3>3 DEF Passes
  <2> QED BY <2>8
<1> HIDE DEF T, n
<1>3. n \in T
  BY <1>0, <1>1, <1>2, IntervalInduction, Zenon
<1> QED BY <1>3 DEF T, n

\* ForEach is the state after the last pass.
LEMMA ForEachPasses ==
  ASSUME NEW X, NEW D, NEW start \in D, NEW order \in Seq(X),
         NEW body \in [X -> [D -> D]]
  PROVE  \E f : /\ Passes(D, order, body, start, Len(order), f)
                /\ ForEach(order, body, start) = f[Len(order)]
<1> DEFINE IsRun(f) == f = [i \in 0..Len(order) |-> IF i = 0 THEN start ELSE body[order[i]][f[i - 1]]]
           after == CHOOSE f : IsRun(f)
<1>1. PICK f : Passes(D, order, body, start, Len(order), f)
  BY PassesExist
<1>2. IsRun(f)
  BY <1>1 DEF Passes
<1>3. IsRun(after)
  BY <1>2
<1>4. ForEach(order, body, start) = after[Len(order)]
  BY Zenon DEF ForEach
<1>5. Len(order) \in Nat /\ \A i \in 1..Len(order) : order[i] \in X
  OBVIOUS
<1> HIDE DEF after
<1> DEFINE T == {i \in 0..Len(order) : after[i] = f[i]}
<1>6. \A i \in 0..Len(order) : i \in T
  <2> SUFFICES ASSUME NEW m \in 0..Len(order) PROVE m \in T
    OBVIOUS
  <2>0. m \in Nat
    OBVIOUS
  <2>1. 0 \in T
    BY <1>1, <1>3, <1>5 DEF Passes
  <2>2. \A i \in 1..m : i - 1 \in T => i \in T
    BY <1>1, <1>3, <1>5 DEF Passes
  <2> HIDE DEF T
  <2> QED BY <2>0, <2>1, <2>2, IntervalInduction, Zenon
<1>7. after[Len(order)] = f[Len(order)]
  BY <1>5, <1>6
<1> QED BY <1>1, <1>4, <1>7

\* What holds at the start and is handed on by every pass holds at the end.
\* The property after pass i is that of being in P[i].
LEMMA ForEachInduction ==
  ASSUME NEW X, NEW D, NEW start \in D, NEW order \in Seq(X),
         NEW body \in [X -> [D -> D]],
         NEW P, start \in P[0],
         \A i \in 1..Len(order), r \in D : r \in P[i - 1] => body[order[i]][r] \in P[i]
  PROVE  ForEach(order, body, start) \in P[Len(order)]
<1>1. PICK f : /\ Passes(D, order, body, start, Len(order), f)
               /\ ForEach(order, body, start) = f[Len(order)]
  BY ForEachPasses
<1> DEFINE n == Len(order)
           T == {i \in 0..n : f[i] \in P[i]}
<1>2. n \in Nat
  OBVIOUS
<1>3. 0 \in T
  BY <1>1, <1>2 DEF Passes
<1>4. \A i \in 1..n : i - 1 \in T => i \in T
  BY <1>1, <1>2 DEF Passes
<1> HIDE DEF T
<1>5. n \in T
  <2> HIDE DEF n
  <2> QED BY <1>2, <1>3, <1>4, IntervalInduction, Zenon
<1> QED BY <1>1, <1>5 DEF T


-----------------------------------------------------------------------------
(***************************************************************************)
(* The steps of check_authority keep their types.                          *)
(***************************************************************************)
\* The orders are sequences of the accounts and of the keys.
LEMMA OrderFacts ==
  /\ AccountOrder \in Seq(AuthAccounts) /\ KeyOrder \in Seq(AuthKeys)
  /\ MaxRecursion \in Nat
BY AuthorityAssumption

\* Counting a weight.
LEMMA CountFacts ==
  ASSUME NEW r \in Tallies, NEW w \in Nat, NEW t \in Nat
  PROVE  /\ Count(r, w, t) \in Tallies
         /\ Count(r, w, t).weight = r.weight + w
         /\ Count(r, w, t).ok <=> r.ok \/ r.weight + w >= t
         /\ Count(r, w, t).s = r.s
<1>1. PICK q \in BOOLEAN : q = (r.ok \/ r.weight + w >= t)
  BY Zenon
<1> DEFINE c == [r EXCEPT !.weight = r.weight + w, !.ok = q]
<1>2. Count(r, w, t) = c
  BY <1>1, Zenon DEF Count
<1>3. r.weight + w \in Nat
  BY DEF Tallies
<1>4. c \in Tallies
  BY <1>3, Zenon DEF Tallies
<1>5. c.ok = q /\ c.weight = r.weight + w /\ c.s = r.s
  BY DEF Tallies
<1>6. c.ok <=> r.ok \/ r.weight + w >= t
  BY <1>1, <1>5, Zenon
<1> HIDE DEF c
<1> QED BY <1>2, <1>4, <1>5, <1>6, Zenon

\* A key is used if it is listed and was signed with.
LEMMA UseKeyFacts ==
  ASSUME NEW r \in Tallies, NEW au \in Authorities, NEW k \in AuthKeys, NEW u,
         u = UseKey(r, au, k)
  PROVE  /\ u \in Tallies
         /\ u.s.keys = r.s.keys /\ u.s.approved = r.s.approved
         /\ r.ok \/ au.keys[k] = 0 \/ k \notin r.s.keys => u = r
         /\ ~r.ok /\ au.keys[k] # 0 /\ k \in r.s.keys =>
              /\ u.weight = r.weight + au.keys[k]
              /\ u.ok <=> r.weight + au.keys[k] >= au.threshold
              /\ u.s.used = r.s.used \cup {k}
<1> DEFINE counts == ~r.ok /\ au.keys[k] # 0 /\ k \in r.s.keys
           c == Count(r, au.keys[k], au.threshold)
<1>1. au.keys[k] \in Nat /\ au.threshold \in Nat
  BY DEF Authorities
<1>2. CASE counts
  <2>1. u = [c EXCEPT !.s.used = @ \cup {k}]
    BY <1>2, Zenon DEF UseKey
  <2>2. /\ c \in Tallies /\ c.weight = r.weight + au.keys[k] /\ c.s = r.s
        /\ c.ok <=> r.ok \/ r.weight + au.keys[k] >= au.threshold
    BY <1>1, CountFacts, Zenon
  <2> HIDE DEF c
  <2>3. u \in Tallies /\ u.ok = c.ok
    BY <2>1, <2>2 DEF Tallies, SignStates
  <2>4. u.weight = c.weight /\ u.s = [c.s EXCEPT !.used = @ \cup {k}]
    BY <2>1, <2>2 DEF Tallies, SignStates
  <2>5. u.s.keys = r.s.keys /\ u.s.approved = r.s.approved /\ u.s.used = r.s.used \cup {k}
    BY <2>2, <2>4 DEF Tallies, SignStates
  <2>6. u.ok <=> r.weight + au.keys[k] >= au.threshold
    BY <1>2, <2>2, <2>3, Zenon
  <2> QED BY <1>2, <2>2, <2>3, <2>4, <2>5, <2>6, Zenon
<1>3. CASE ~counts
  <2>1. u = r
    BY <1>3, Zenon DEF UseKey
  <2> QED BY <1>3, <2>1, Zenon
<1> QED BY <1>2, <1>3, Zenon

\* What a nested account adds: n is the answer for it one level down, u the
\* tally after it.
AccountEffect(r, au, a, left, n, u) ==
  /\ u \in Tallies
  /\ r.ok \/ au.accounts[a] = 0 => u = r
  /\ ~r.ok /\ au.accounts[a] # 0 /\ a \in r.s.approved =>
       /\ u.s = r.s /\ u.weight = r.weight + au.accounts[a]
       /\ u.ok <=> r.weight + au.accounts[a] >= au.threshold
  /\ ~r.ok /\ au.accounts[a] # 0 /\ a \notin r.s.approved /\ left = 0 => u = r
  /\ ~r.ok /\ au.accounts[a] # 0 /\ a \notin r.s.approved /\ left # 0 =>
       /\ n \in Answers
       /\ n.ok => /\ u.s = [n.s EXCEPT !.approved = @ \cup {a}]
                  /\ u.weight = r.weight + au.accounts[a]
                  /\ u.ok <=> r.weight + au.accounts[a] >= au.threshold
       /\ ~n.ok => u.s = n.s /\ u.weight = r.weight /\ ~u.ok

\* UseAccount has this effect.
LEMMA UseAccountFacts ==
  ASSUME NEW r \in Tallies, NEW au \in Authorities, NEW a \in AuthAccounts,
         NEW left \in Nat, NEW check, left = 0 \/ check \in [SignStates -> Answers]
  PROVE  AccountEffect(r, au, a, left, check[r.s], UseAccount(r, au, a, left, check))
<1>0. PICK u, n : u = UseAccount(r, au, a, left, check) /\ n = check[r.s]
  OBVIOUS
<1> SUFFICES AccountEffect(r, au, a, left, n, u)
  BY <1>0
<1> USE DEF AccountEffect
<1> DEFINE listed == ~r.ok /\ au.accounts[a] # 0
           asked == listed /\ a \notin r.s.approved /\ left # 0
           c == Count(r, au.accounts[a], au.threshold)
<1>1. au.accounts[a] \in Nat /\ au.threshold \in Nat
  BY DEF Authorities
<1>2. CASE ~listed
  <2>1. u = r
    BY <1>2, <1>0, Zenon DEF UseAccount
  <2> QED BY <1>2, <2>1, Zenon
<1>3. CASE listed /\ a \in r.s.approved
  <2>1. u = c
    BY <1>3, <1>0, Zenon DEF UseAccount
  <2>2. /\ c \in Tallies /\ c.weight = r.weight + au.accounts[a] /\ c.s = r.s
        /\ c.ok <=> r.ok \/ r.weight + au.accounts[a] >= au.threshold
    BY <1>1, CountFacts, Zenon
  <2> HIDE DEF c
  <2> QED BY <1>3, <2>1, <2>2, Zenon
<1>4. CASE listed /\ a \notin r.s.approved /\ left = 0
  <2>1. u = r
    BY <1>4, <1>0, Zenon DEF UseAccount
  <2> QED BY <1>4, <2>1, Zenon
<1>5. CASE asked
  <2>1. n \in Answers
    <3>1. r.s \in SignStates
      BY DEF Tallies
    <3> QED BY <1>0, <1>5, <3>1
  <2>2. n.s \in SignStates
    BY <2>1 DEF Answers
  <2> DEFINE e == [n.s EXCEPT !.approved = @ \cup {a}]
             q == [r EXCEPT !.s = e]
             cq == Count(q, au.accounts[a], au.threshold)
  <2>3. CASE n.ok
    <3>1. e \in SignStates
      BY <2>2 DEF SignStates
    <3>2. u = cq
      BY <1>5, <2>3, <1>0, Zenon DEF UseAccount
    <3> HIDE DEF e
    <3>3. q \in Tallies /\ q.s = e /\ q.weight = r.weight /\ q.ok = r.ok
      BY <3>1 DEF Tallies
    <3> HIDE DEF q
    <3>4. /\ cq \in Tallies /\ cq.weight = q.weight + au.accounts[a] /\ cq.s = q.s
          /\ cq.ok <=> q.ok \/ q.weight + au.accounts[a] >= au.threshold
      BY <1>1, <3>3, CountFacts, Zenon
    <3> HIDE DEF cq
    <3>5. u.s = [n.s EXCEPT !.approved = @ \cup {a}]
      BY <3>2, <3>3, <3>4, Zenon DEF e
    <3>6. u.ok <=> r.weight + au.accounts[a] >= au.threshold
      BY <1>5, <3>2, <3>3, <3>4, Zenon
    <3>7. u.weight = r.weight + au.accounts[a] /\ u \in Tallies
      BY <3>2, <3>3, <3>4, Zenon
    <3> QED BY <1>5, <2>1, <2>3, <3>5, <3>6, <3>7, Zenon
  <2>4. CASE ~n.ok
    <3>1. u = [r EXCEPT !.s = n.s]
      BY <1>5, <2>4, <1>0, Zenon DEF UseAccount
    <3>2. u \in Tallies /\ u.ok = r.ok /\ u.weight = r.weight /\ u.s = n.s
      BY <2>2, <3>1 DEF Tallies
    <3> QED BY <1>5, <2>1, <2>4, <3>2, Zenon
  <2> QED BY <2>3, <2>4, Zenon
<1> QED BY <1>2, <1>3, <1>4, <1>5, Zenon

\* The loop over the accounts stays among the tallies.
LEMMA UseAccountType ==
  ASSUME NEW r \in Tallies, NEW au \in Authorities, NEW a \in AuthAccounts,
         NEW left \in Nat, NEW check, left = 0 \/ check \in [SignStates -> Answers]
  PROVE  UseAccount(r, au, a, left, check) \in Tallies
BY UseAccountFacts, Zenon DEF AccountEffect

-----------------------------------------------------------------------------
(***************************************************************************)
(* One level of check_authority against the weights it should count.       *)
(***************************************************************************)
\* t[i] is the weight of the first i entries that are in S.
Sums(w, order, S, t) ==
  /\ t \in [0..Len(order) -> Nat]
  /\ t[0] = 0
  /\ \A i \in 1..Len(order) : t[i] = t[i - 1] + IF order[i] \in S THEN w[order[i]] ELSE 0

\* Total adds up the entries one after another.
LEMMA TotalSums ==
  ASSUME NEW X, NEW order \in Seq(X), NEW w \in [X -> Nat], NEW S
  PROVE  \E t : Sums(w, order, S, t) /\ Total(w, order, S) = t[Len(order)]
<1> DEFINE body == [x \in DOMAIN w |-> [n \in Nat |-> n + IF x \in S THEN w[x] ELSE 0]]
<1>1. body \in [X -> [Nat -> Nat]]
  OBVIOUS
<1>2. Total(w, order, S) = ForEach(order, body, 0)
  BY DEF Total
<1>3. \A x \in X, n \in Nat : body[x][n] = n + IF x \in S THEN w[x] ELSE 0
  OBVIOUS
<1> HIDE DEF body
<1>4. PICK t : /\ Passes(Nat, order, body, 0, Len(order), t)
               /\ ForEach(order, body, 0) = t[Len(order)]
  <2> DEFINE D == Nat
             zero == 0
  <2>1. zero \in D /\ body \in [X -> [D -> D]]
    BY <1>1
  <2> HIDE DEF D, zero
  <2>2. \E t : /\ Passes(D, order, body, zero, Len(order), t)
              /\ ForEach(order, body, zero) = t[Len(order)]
    BY <2>1, ForEachPasses
  <2> QED BY <2>2 DEF D, zero
<1>5. Sums(w, order, S, t)
  <2> SUFFICES ASSUME NEW i \in 1..Len(order)
               PROVE  t[i] = t[i - 1] + IF order[i] \in S THEN w[order[i]] ELSE 0
    BY <1>4 DEF Passes, Sums
  <2>1. order[i] \in X /\ i - 1 \in 0..Len(order)
    OBVIOUS
  <2>2. t[i] = body[order[i]][t[i - 1]] /\ t[i - 1] \in Nat
    BY <1>4, <2>1 DEF Passes
  <2> QED BY <1>3, <2>1, <2>2
<1> QED BY <1>2, <1>4, <1>5

\* The loop over the keys counts the keys that have signed, until it is enough.
LEMMA UseKeysCounts ==
  ASSUME NEW au \in Authorities, NEW s \in SignStates, NEW r,
         r = UseKeys(au, [ok |-> FALSE, weight |-> 0, s |-> s]),
         NEW k, k = Total(au.keys, KeyOrder, s.keys)
  PROVE  /\ r \in Tallies /\ k \in Nat
         /\ r.s.keys = s.keys /\ r.s.approved = s.approved
         /\ r.weight <= k
         /\ r.ok => k >= au.threshold
         /\ ~r.ok => r.weight = k
<1> DEFINE start == [ok |-> FALSE, weight |-> 0, s |-> s]
           body == [x \in AuthKeys |-> [q \in Tallies |-> UseKey(q, au, x)]]
           n == Len(KeyOrder)
<1>1. PICK t : Sums(au.keys, KeyOrder, s.keys, t) /\ k = t[n]
  <2>1. au.keys \in [AuthKeys -> Nat]
    BY DEF Authorities
  <2> QED BY <2>1, OrderFacts, TotalSums
<1> DEFINE Good(i, q) == /\ q.s.keys = s.keys /\ q.s.approved = s.approved
                         /\ q.weight <= t[i]
                         /\ q.ok => t[i] >= au.threshold
                         /\ ~q.ok => q.weight = t[i]
           P == [i \in 0..n |-> {q \in Tallies : Good(i, q)}]
<1>2. n \in Nat /\ KeyOrder \in Seq(AuthKeys)
  BY OrderFacts
<1>3. start \in Tallies
  BY Zenon, 0 \in Nat DEF Tallies
<1>4. body \in [AuthKeys -> [Tallies -> Tallies]]
  BY UseKeyFacts, Zenon
<1>5. start \in P[0]
  <2>1. t[0] = 0
    BY <1>1 DEF Sums
  <2>2. start.ok = FALSE /\ start.weight = 0 /\ start.s = s
    OBVIOUS
  <2> HIDE DEF start
  <2>3. Good(0, start)
    BY <2>1, <2>2
  <2> QED BY <1>2, <1>3, <2>3
<1>6. ASSUME NEW i \in 1..n, NEW q \in Tallies, q \in P[i - 1]
      PROVE  body[KeyOrder[i]][q] \in P[i]
  <2> DEFINE x == KeyOrder[i]
             u == UseKey(q, au, x)
  <2>1. x \in AuthKeys /\ i \in 0..n /\ i - 1 \in 0..n
    BY <1>2
  <2>2. Good(i - 1, q)
    BY <1>6, <2>1
  <2>3. /\ t[i] = t[i - 1] + IF x \in s.keys THEN au.keys[x] ELSE 0
        /\ t[i] \in Nat /\ t[i - 1] \in Nat /\ au.keys[x] \in Nat /\ au.threshold \in Nat
    BY <1>1, <2>1 DEF Sums, Authorities
  <2>4. body[x][q] = u
    BY <2>1
  <2> HIDE DEF x
  <2>5. /\ u \in Tallies
        /\ u.s.keys = q.s.keys /\ u.s.approved = q.s.approved
        /\ q.ok \/ au.keys[x] = 0 \/ x \notin q.s.keys => u = q
        /\ ~q.ok /\ au.keys[x] # 0 /\ x \in q.s.keys =>
              /\ u.weight = q.weight + au.keys[x]
              /\ u.ok <=> q.weight + au.keys[x] >= au.threshold
    <3> HIDE DEF Good, P
    <3>1. x \in AuthKeys /\ u = UseKey(q, au, x)
      BY <2>1
    <3> HIDE DEF u
    <3> QED BY <3>1, UseKeyFacts
  <2> HIDE DEF u
  <2>6. q.weight \in Nat
    BY DEF Tallies
  <2>7. Good(i, u)
    <3>1. CASE q.ok \/ au.keys[x] = 0 \/ x \notin q.s.keys
      <4>1. u = q
        BY <2>5, <3>1, Zenon
      <4>2. t[i] >= t[i - 1]
        BY <2>3
      <4>3. ~q.ok => t[i] = t[i - 1]
        BY <2>2, <2>3, <3>1
      <4> QED BY <2>2, <2>3, <2>6, <4>1, <4>2, <4>3
    <3>2. CASE ~q.ok /\ au.keys[x] # 0 /\ x \in q.s.keys
      <4>1. t[i] = t[i - 1] + au.keys[x] /\ q.weight = t[i - 1]
        BY <2>2, <2>3, <3>2
      <4> QED BY <2>2, <2>3, <2>5, <2>6, <3>2, <4>1
    <3> QED BY <3>1, <3>2, Zenon
  <2> HIDE DEF Good
  <2>8. u \in P[i]
    BY <2>1, <2>5, <2>7
  <2> QED BY <2>4, <2>8 DEF x
<1> HIDE DEF start, body, Good
<1>7. ForEach(KeyOrder, body, start) \in P[n]
  <2> HIDE DEF P, n
  <2> QED BY <1>2, <1>3, <1>4, <1>5, <1>6, ForEachInduction DEF n
<1>8. r = ForEach(KeyOrder, body, start)
  BY DEF UseKeys, start, body
<1>9. r \in Tallies /\ Good(n, r)
  BY <1>2, <1>7, <1>8
<1>10. k \in Nat
  BY <1>1, <1>2 DEF Sums
<1> QED BY <1>1, <1>9, <1>10 DEF Good

\* The sign states with signatures K that have the approvals A and only
\* accounts of S marked as approved.
MarkedWithin(S, K, A) ==
  {t \in SignStates : t.keys = K /\ A \subseteq t.approved /\ t.approved \subseteq S}

\* What the lower level has to do: it marks accounts of S only, and finds
\* every account of B unless it is marked already.
NestedExact(nested, left, S, B, K, A) ==
  /\ left = 0 \/ nested \in [AuthAccounts -> [SignStates -> Answers]]
  /\ left # 0 => \A a \in AuthAccounts, t \in MarkedWithin(S, K, A) :
       nested[a][t].s \in MarkedWithin(S, K, A) /\ (nested[a][t].ok => a \in S)
  /\ \A a \in B, t \in MarkedWithin(S, K, A) :
       a \in t.approved \/ (left # 0 /\ nested[a][t].ok)

\* A tally that has counted at least low, unless it was enough, and at most high.
Between(q, low, high, threshold, marked) ==
  /\ q \in Tallies /\ q.s \in marked
  /\ q.weight <= high /\ (q.ok => high >= threshold) /\ (~q.ok => q.weight >= low)

\* One account: the weight counted stays between that of B and that of S.
LEMMA UseAccountExact ==
  ASSUME NEW S \in SUBSET AuthAccounts, NEW B \in SUBSET AuthAccounts, NEW K, NEW A,
         NEW au \in Authorities, NEW left \in Nat, NEW nested,
         NestedExact(nested, left, S, B, K, A),
         NEW a \in AuthAccounts, NEW q, NEW low \in Nat, NEW high \in Nat,
         Between(q, low, high, au.threshold, MarkedWithin(S, K, A)),
         NEW low1, low1 = low + IF a \in B THEN au.accounts[a] ELSE 0,
         NEW high1, high1 = high + IF a \in S THEN au.accounts[a] ELSE 0,
         NEW u, u = UseAccount(q, au, a, left, nested[a])
  PROVE  Between(u, low1, high1, au.threshold, MarkedWithin(S, K, A))
<1> USE DEF Between
<1> DEFINE n == nested[a][q.s]
           w == au.accounts[a]
<1>1. w \in Nat /\ au.threshold \in Nat /\ q.weight \in Nat /\ high1 >= high /\ high1 \in Nat /\ low1 \in Nat
  BY DEF Authorities, Tallies
<1>2. low1 <= low + w /\ (w = 0 => low1 = low) /\ (a \notin B => low1 = low) /\ (a \in S => high1 = high + w)
  BY <1>1
<1>3. /\ left = 0 \/ nested[a] \in [SignStates -> Answers]
      /\ left # 0 => n.s \in MarkedWithin(S, K, A) /\ (n.ok => a \in S)
      /\ a \in B => a \in q.s.approved \/ (left # 0 /\ n.ok)
  BY DEF NestedExact
<1>4. /\ u \in Tallies
      /\ q.ok \/ w = 0 => u = q
      /\ ~q.ok /\ w # 0 /\ a \in q.s.approved =>
           /\ u.s = q.s /\ u.weight = q.weight + w
           /\ u.ok <=> q.weight + w >= au.threshold
      /\ ~q.ok /\ w # 0 /\ a \notin q.s.approved /\ left = 0 => u = q
      /\ ~q.ok /\ w # 0 /\ a \notin q.s.approved /\ left # 0 =>
           /\ n \in Answers
           /\ n.ok => /\ u.s = [n.s EXCEPT !.approved = @ \cup {a}]
                      /\ u.weight = q.weight + w
                      /\ u.ok <=> q.weight + w >= au.threshold
           /\ ~n.ok => u.s = n.s /\ u.weight = q.weight /\ ~u.ok
  <2>1. AccountEffect(q, au, a, left, n, u)
    BY <1>3, UseAccountFacts, Zenon
  <2> QED BY <2>1, Zenon DEF AccountEffect
<1> HIDE DEF n, w
<1>5. CASE q.ok \/ w = 0
  <2>1. u = q
    BY <1>4, <1>5, Zenon
  <2> QED BY <1>1, <1>2, <1>5, <2>1
<1>6. CASE ~q.ok /\ w # 0 /\ a \in q.s.approved
  <2>1. u.s = q.s /\ u.weight = q.weight + w /\ (u.ok <=> q.weight + w >= au.threshold)
    BY <1>4, <1>6, Zenon
  <2>2. a \in S
    BY <1>6 DEF MarkedWithin
  <2> QED BY <1>1, <1>2, <1>4, <1>6, <2>1, <2>2
<1>7. CASE ~q.ok /\ w # 0 /\ a \notin q.s.approved /\ left = 0
  <2>1. u = q /\ a \notin B /\ ~q.ok
    BY <1>3, <1>4, <1>7, Zenon
  <2> QED BY <1>1, <1>2, <2>1
<1>8. CASE ~q.ok /\ w # 0 /\ a \notin q.s.approved /\ left # 0
  <2>1. CASE n.ok
    <3>1. /\ u.s = [n.s EXCEPT !.approved = @ \cup {a}]
          /\ u.weight = q.weight + w /\ (u.ok <=> q.weight + w >= au.threshold)
      BY <1>4, <1>8, <2>1, Zenon
    <3>2. a \in S /\ n.s \in MarkedWithin(S, K, A)
      BY <1>3, <1>8, <2>1, Zenon
    <3>3. u.s \in MarkedWithin(S, K, A)
      BY <3>1, <3>2 DEF MarkedWithin, SignStates
    <3> QED BY <1>1, <1>2, <1>4, <1>8, <3>1, <3>2, <3>3
  <2>2. CASE ~n.ok
    <3>1. u.s = n.s /\ u.weight = q.weight /\ ~u.ok /\ a \notin B /\ n.s \in MarkedWithin(S, K, A)
      BY <1>3, <1>4, <1>8, <2>2, Zenon
    <3> QED BY <1>1, <1>2, <1>4, <1>8, <3>1
  <2> QED BY <2>1, <2>2, Zenon
<1> QED BY <1>5, <1>6, <1>7, <1>8, Zenon

\* One level accepts what K and B justify, and nothing that K and S do not.
LEMMA LevelExact ==
  ASSUME NEW S \in SUBSET AuthAccounts, NEW B \in SUBSET AuthAccounts, NEW K, NEW A,
         NEW au \in Authorities, NEW left \in Nat, NEW nested,
         NestedExact(nested, left, S, B, K, A),
         NEW s \in MarkedWithin(S, K, A), NEW c, c = CheckLevel(au, left, nested, s)
  PROVE  /\ c \in Answers /\ c.s \in MarkedWithin(S, K, A)
         /\ c.ok => Weight(au, K, S) >= au.threshold
         /\ Weight(au, K, B) >= au.threshold => c.ok
<1> DEFINE start == UseKeys(au, [ok |-> FALSE, weight |-> 0, s |-> s])
           body == [x \in AuthAccounts |-> [q \in Tallies |-> UseAccount(q, au, x, left, nested[x])]]
           n == Len(AccountOrder)
           k == Total(au.keys, KeyOrder, K)
           last == ForEach(AccountOrder, body, start)
<1>1. au.accounts \in [AuthAccounts -> Nat] /\ AccountOrder \in Seq(AuthAccounts) /\ n \in Nat /\ au.threshold \in Nat
  BY OrderFacts DEF Authorities
<1>2. PICK ts : Sums(au.accounts, AccountOrder, S, ts) /\ Total(au.accounts, AccountOrder, S) = ts[n]
  BY <1>1, TotalSums
<1>3. PICK tb : Sums(au.accounts, AccountOrder, B, tb) /\ Total(au.accounts, AccountOrder, B) = tb[n]
  BY <1>1, TotalSums
<1>4. s \in SignStates /\ s.keys = K
  BY DEF MarkedWithin
<1>5. /\ start \in Tallies /\ k \in Nat
      /\ start.s.keys = s.keys /\ start.s.approved = s.approved
      /\ start.weight <= k
      /\ start.ok => k >= au.threshold
      /\ ~start.ok => start.weight = k
  <2> HIDE DEF start
  <2>1. start = UseKeys(au, [ok |-> FALSE, weight |-> 0, s |-> s])
    BY DEF start
  <2>2. k = Total(au.keys, KeyOrder, s.keys)
    BY <1>4
  <2> HIDE DEF k
  <2> QED BY <1>4, <2>1, <2>2, UseKeysCounts
<1>7. ASSUME NEW x \in AuthAccounts, NEW q \in Tallies
      PROVE  UseAccount(q, au, x, left, nested[x]) \in Tallies
  <2>1. left = 0 \/ nested[x] \in [SignStates -> Answers]
    BY DEF NestedExact
  <2> QED BY <2>1, UseAccountType, Zenon
<1>8. body \in [AuthAccounts -> [Tallies -> Tallies]]
  BY <1>7, Zenon
<1> HIDE DEF start, k
<1> DEFINE Good(i, q) == Between(q, k + tb[i], k + ts[i], au.threshold, MarkedWithin(S, K, A))
           P == [i \in 0..n |-> {q \in Tallies : Good(i, q)}]
<1>6. start \in P[0]
  <2>1. ts[0] = 0 /\ tb[0] = 0
    BY <1>2, <1>3 DEF Sums
  <2>2. start.s \in MarkedWithin(S, K, A)
    BY <1>4, <1>5 DEF MarkedWithin, Tallies
  <2>3. start.weight \in Nat
    BY <1>5 DEF Tallies
  <2>4. Good(0, start)
    BY <1>5, <2>1, <2>2, <2>3 DEF Between
  <2> QED BY <1>1, <1>5, <2>4
<1>9. ASSUME NEW i \in 1..n, NEW q \in Tallies, q \in P[i - 1]
      PROVE  body[AccountOrder[i]][q] \in P[i]
  <2> DEFINE x == AccountOrder[i]
             u == UseAccount(q, au, x, left, nested[x])
             vs == IF x \in S THEN au.accounts[x] ELSE 0
             vb == IF x \in B THEN au.accounts[x] ELSE 0
  <2>1. x \in AuthAccounts /\ i \in 0..n /\ i - 1 \in 0..n
    BY <1>1
  <2>2. Good(i - 1, q)
    BY <1>9, <2>1
  <2>3. /\ ts[i] = ts[i - 1] + vs /\ tb[i] = tb[i - 1] + vb
        /\ ts[i - 1] \in Nat /\ tb[i - 1] \in Nat /\ vs \in Nat /\ vb \in Nat
    BY <1>1, <1>2, <1>3, <2>1 DEF Sums
  <2>4. body[x][q] = u
    BY <2>1
  <2>5. k + tb[i - 1] \in Nat /\ k + ts[i - 1] \in Nat
    BY <1>5, <2>3
  <2>6. k + tb[i] = (k + tb[i - 1]) + vb /\ k + ts[i] = (k + ts[i - 1]) + vs
    <3> HIDE DEF vs, vb
    <3> QED BY <1>5, <2>3
  <2> HIDE DEF x, P
  <2>7. Good(i, u)
    <3> HIDE DEF body, last, n
    <3> QED BY <2>1, <2>2, <2>5, <2>6, UseAccountExact, Zenon
  <2>8. u \in Tallies
    BY <2>7 DEF Between
  <2> HIDE DEF Good
  <2>10. u \in P[i]
    BY <2>1, <2>7, <2>8 DEF P
  <2> QED BY <2>4, <2>10 DEF x
<1> HIDE DEF body, Good
<1>10. last \in P[n]
  <2> HIDE DEF P, n
  <2> QED BY <1>1, <1>5, <1>6, <1>8, <1>9, ForEachInduction DEF n
<1>11. last \in Tallies /\ Good(n, last)
  BY <1>1, <1>10
<1>12. c = [r \in Tallies |-> Reached(r, au.threshold)][last]
  BY DEF CheckLevel, UseAccounts, body, start
<1> HIDE DEF last, P
<1>13. c = Reached(last, au.threshold)
  BY <1>11, <1>12
<1>14. PICK ok \in BOOLEAN : ok = (last.ok \/ last.weight >= au.threshold)
  BY Zenon
<1>15. c = [ok |-> ok, s |-> last.s]
  BY <1>13, <1>14, Zenon DEF Reached
<1>16. last.s \in SignStates /\ last.weight \in Nat
  BY <1>11 DEF Tallies
<1>17. c \in Answers
  <2>1. [ok |-> ok, s |-> last.s] \in Answers
    BY <1>16 DEF Answers
  <2> QED BY <1>15, <2>1, Zenon
<1>18. c.s = last.s /\ c.ok = ok
  BY <1>15
<1>19. c.ok <=> last.ok \/ last.weight >= au.threshold
  BY <1>14, <1>18, Zenon
<1>20. Weight(au, K, S) = k + ts[n] /\ Weight(au, K, B) = k + tb[n] /\ ts[n] \in Nat /\ tb[n] \in Nat
  <2>1. Weight(au, K, S) = k + ts[n] /\ Weight(au, K, B) = k + tb[n]
    BY <1>2, <1>3, Zenon DEF Weight, k
  <2>2. ts[n] \in Nat /\ tb[n] \in Nat
    BY <1>1, <1>2, <1>3 DEF Sums
  <2> QED BY <2>1, <2>2
<1>21. last.s \in MarkedWithin(S, K, A)
  BY <1>11 DEF Good, Between
<1>22. c.ok => Weight(au, K, S) >= au.threshold
  BY <1>1, <1>5, <1>11, <1>16, <1>19, <1>20 DEF Good, Between
<1>23. Weight(au, K, B) >= au.threshold => c.ok
  BY <1>1, <1>5, <1>11, <1>16, <1>19, <1>20 DEF Good, Between
<1> QED BY <1>17, <1>18, <1>21, <1>22, <1>23, Zenon


-----------------------------------------------------------------------------
(***************************************************************************)
(* All levels.                                                             *)
(***************************************************************************)
IsNested(active, n, f) ==
  f = [left \in 0..n |-> IF left = 0 THEN <<>> ELSE CheckBelow(active, left - 1, f[left - 1])]

\* The recursion of check_authority comes to its end.
LEMMA NestedExists ==
  ASSUME NEW active, NEW n \in Nat
  PROVE  \E f : IsNested(active, n, f)
<1> DEFINE T == {i \in 0..n : \E f : IsNested(active, i, f)}
<1>1. 0 \in T
  <2> DEFINE f == [i \in 0..0 |-> <<>>]
  <2>1. IsNested(active, 0, f)
    BY DEF IsNested
  <2> QED BY <2>1
<1>2. \A i \in 1..n : i - 1 \in T => i \in T
  <2> SUFFICES ASSUME NEW i \in 1..n, i - 1 \in T PROVE i \in T
    OBVIOUS
  <2>1. PICK f : IsNested(active, i - 1, f)
    OBVIOUS
  <2> DEFINE g == [j \in 0..i |-> IF j = i THEN CheckBelow(active, i - 1, f[i - 1]) ELSE f[j]]
  <2>2. i \in Nat /\ i # 0 /\ i - 1 \in 0..(i - 1)
    OBVIOUS
  <2>3. \A j \in 0..(i - 1) : /\ g[j] = f[j]
                              /\ f[j] = IF j = 0 THEN <<>> ELSE CheckBelow(active, j - 1, f[j - 1])
    BY <2>1, <2>2 DEF IsNested
  <2>4. g[i] = CheckBelow(active, i - 1, f[i - 1]) /\ g[i - 1] = f[i - 1]
    BY <2>2, <2>3
  <2>5. DOMAIN g = 0..i /\ g = [j \in 0..i |-> g[j]]
    OBVIOUS
  <2> HIDE DEF g
  <2>6. ASSUME NEW j \in 0..i
        PROVE  g[j] = IF j = 0 THEN <<>> ELSE CheckBelow(active, j - 1, g[j - 1])
    <3>1. CASE j = i
      BY <2>2, <2>4, <3>1
    <3>2. CASE j \in 0..(i - 1)
      <4>1. j # 0 => j - 1 \in 0..(i - 1)
        BY <2>2, <3>2
      <4> QED BY <2>3, <3>2, <4>1
    <3> QED BY <2>2, <3>1, <3>2
  <2>7. IsNested(active, i, g)
    BY <2>5, <2>6, Zenon DEF IsNested
  <2> QED BY <2>7
<1>3. n \in T
  <2> HIDE DEF T
  <2> QED BY <1>1, <1>2, IntervalInduction, Zenon
<1> QED BY <1>3

\* The weight of the keys K and the accounts S is enough for the authority au.
Enough(au, K, S) == Weight(au, K, S) >= au.threshold

\* S holds every account that it suffices for.
ClosedFor(g, K, S) == \A a \in AuthAccounts : Enough(g[a], K, S) => a \in S

\* W[n] has only accounts that n levels find.
LevelsOf(g, K, A, W) ==
  /\ W \in [0..MaxRecursion -> SUBSET AuthAccounts]
  /\ W[0] \subseteq A
  /\ \A n \in 1..MaxRecursion : \A a \in W[n] : a \in A \/ Enough(g[a], K, W[n - 1])

\* No level changes the signatures, whatever is marked.
LevelTyped(nested, left) ==
  left = 0 \/ ( /\ nested \in [AuthAccounts -> [SignStates -> Answers]]
                /\ \A a \in AuthAccounts, t \in SignStates : nested[a][t].s.keys = t.keys )

\* One level answers in every sign state.
LEMMA LevelType ==
  ASSUME NEW au \in Authorities, NEW left \in Nat, NEW nested, LevelTyped(nested, left),
         NEW s \in SignStates, NEW c, c = CheckLevel(au, left, nested, s)
  PROVE  c \in Answers /\ c.s.keys = s.keys
<1> DEFINE All == MarkedWithin(AuthAccounts, s.keys, {})
<1>1. \A t \in SignStates : t \in All <=> t.keys = s.keys
  BY DEF MarkedWithin, SignStates
<1>2. NestedExact(nested, left, AuthAccounts, {}, s.keys, {})
  <2>1. CASE left = 0
    BY <2>1 DEF NestedExact
  <2>2. CASE left # 0
    <3>1. /\ nested \in [AuthAccounts -> [SignStates -> Answers]]
          /\ \A a \in AuthAccounts, t \in SignStates : nested[a][t].s.keys = t.keys
      BY <2>2, Zenon DEF LevelTyped
    <3>2. ASSUME NEW a \in AuthAccounts, NEW t \in All
          PROVE  nested[a][t].s \in All
      <4>1. t \in SignStates /\ t.keys = s.keys
        BY DEF MarkedWithin
      <4>2. nested[a][t] \in Answers
        BY <3>1, <4>1
      <4>3. nested[a][t].s \in SignStates
        BY <4>2 DEF Answers
      <4>4. nested[a][t].s.keys = s.keys
        BY <3>1, <4>1
      <4> QED BY <1>1, <4>3, <4>4
    <3> QED BY <3>1, <3>2, Zenon DEF NestedExact
  <2> QED BY <2>1, <2>2
<1>3. s \in All
  BY <1>1
<1>4. c \in Answers /\ c.s \in All
  <2> DEFINE S == AuthAccounts
             E == {}
  <2>1. S \in SUBSET AuthAccounts /\ E \in SUBSET AuthAccounts
    OBVIOUS
  <2>2. NestedExact(nested, left, S, E, s.keys, E) /\ s \in MarkedWithin(S, s.keys, E)
    BY <1>2, <1>3
  <2> HIDE DEF S, E
  <2>3. c \in Answers /\ c.s \in MarkedWithin(S, s.keys, E)
    BY <2>1, <2>2, LevelExact
  <2> QED BY <2>3 DEF S, E
<1> QED BY <1>4 DEF MarkedWithin

\* All levels answer in every sign state.
LEMMA LevelsType ==
  ASSUME NEW g \in [AuthAccounts -> Authorities], NEW f, IsNested(g, MaxRecursion, f)
  PROVE  \A left \in 0..MaxRecursion : LevelTyped(f[left], left)
<1> DEFINE T == {left \in 0..MaxRecursion : LevelTyped(f[left], left)}
<1>0. MaxRecursion \in Nat
  BY OrderFacts
<1>1. 0 \in T
  BY <1>0 DEF LevelTyped
<1>2. ASSUME NEW left \in 1..MaxRecursion, left - 1 \in T
      PROVE  left \in T
  <2> DEFINE m == left - 1
             below == f[m]
  <2>1. left \in 0..MaxRecursion /\ left # 0 /\ m \in Nat /\ m \in 0..MaxRecursion
    BY <1>0
  <2>2. f[left] = CheckBelow(g, m, below)
    BY <2>1 DEF IsNested
  <2>3. LevelTyped(below, m)
    BY <1>2
  <2> HIDE DEF m, below
  <2>4. ASSUME NEW a \in AuthAccounts, NEW s \in SignStates
        PROVE  /\ CheckLevel(g[a], m, below, s) \in Answers
               /\ CheckLevel(g[a], m, below, s).s.keys = s.keys
    <3>1. g[a] \in Authorities
      OBVIOUS
    <3> QED BY <2>1, <2>3, <3>1, LevelType
  <2>5. CheckBelow(g, m, below) \in [AuthAccounts -> [SignStates -> Answers]]
    BY <2>4, Zenon DEF CheckBelow
  <2>6. \A a \in AuthAccounts, s \in SignStates : CheckBelow(g, m, below)[a][s] = CheckLevel(g[a], m, below, s)
    BY DEF CheckBelow
  <2>7. LevelTyped(f[left], left)
    <3>1. f[left] \in [AuthAccounts -> [SignStates -> Answers]]
      BY <2>2, <2>5
    <3>2. \A a \in AuthAccounts, s \in SignStates : f[left][a][s].s.keys = s.keys
      <4> SUFFICES ASSUME NEW a \in AuthAccounts, NEW s \in SignStates
                   PROVE  f[left][a][s].s.keys = s.keys
        OBVIOUS
      <4>1. f[left][a][s] = CheckLevel(g[a], m, below, s)
        BY <2>2, <2>6
      <4> QED BY <2>4, <4>1
    <3> QED BY <3>1, <3>2, Zenon DEF LevelTyped
  <2> QED BY <2>1, <2>7
<1>3. ASSUME NEW i \in 0..MaxRecursion PROVE i \in T
  <2>1. i \in Nat /\ \A j \in 1..i : j - 1 \in T => j \in T
    BY <1>0, <1>2
  <2> HIDE DEF T
  <2> QED BY <1>1, <2>1, IntervalInduction, Zenon
<1> QED BY <1>3

\* Every level does what the level above it needs.
LEMMA LevelsExact ==
  ASSUME NEW g \in [AuthAccounts -> Authorities], NEW K, NEW A,
         NEW S \in SUBSET AuthAccounts, ClosedFor(g, K, S),
         NEW W, LevelsOf(g, K, A, W), NEW f, IsNested(g, MaxRecursion, f)
  PROVE  NestedExact(f[MaxRecursion], MaxRecursion, S, W[MaxRecursion], K, A)
<1> DEFINE T == {left \in 0..MaxRecursion : NestedExact(f[left], left, S, W[left], K, A)}
<1>0. MaxRecursion \in Nat
  BY OrderFacts
<1>1. 0 \in T
  <2>1. W[0] \subseteq A
    BY DEF LevelsOf
  <2> QED BY <1>0, <2>1 DEF NestedExact, MarkedWithin
<1>2. ASSUME NEW left \in 1..MaxRecursion, left - 1 \in T
      PROVE  left \in T
  <2> DEFINE m == left - 1
             below == f[m]
             B == W[m]
             marked == MarkedWithin(S, K, A)
  <2>1. left \in 0..MaxRecursion /\ left # 0 /\ m \in Nat /\ m \in 0..MaxRecursion
    BY <1>0
  <2>2. f[left] = CheckBelow(g, m, below)
    BY <2>1 DEF IsNested
  <2>3. NestedExact(below, m, S, B, K, A)
    BY <1>2
  <2>4. B \in SUBSET AuthAccounts
    BY <2>1 DEF LevelsOf
  <2>5. \A a \in W[left] : a \in AuthAccounts /\ (a \in A \/ Enough(g[a], K, B))
    BY <2>1 DEF LevelsOf
  <2> HIDE DEF m, below, B
  <2>6. ASSUME NEW a \in AuthAccounts, NEW s \in SignStates
        PROVE  /\ f[left][a][s] = CheckLevel(g[a], m, below, s)
    BY <2>2 DEF CheckBelow
  <2>7. ASSUME NEW a \in AuthAccounts, NEW s \in marked
        PROVE  /\ f[left][a][s] \in Answers /\ f[left][a][s].s \in marked
               /\ f[left][a][s].ok => Enough(g[a], K, S)
               /\ Enough(g[a], K, B) => f[left][a][s].ok
    <3>1. s \in SignStates /\ g[a] \in Authorities
      BY DEF MarkedWithin
    <3>2. PICK c : c = CheckLevel(g[a], m, below, s)
      OBVIOUS
    <3>3. f[left][a][s] = c
      BY <2>6, <3>1, <3>2
    <3> QED BY <2>1, <2>3, <2>4, <3>1, <3>2, <3>3, LevelExact, Zenon DEF Enough
  <2>8. f[left] \in [AuthAccounts -> [SignStates -> Answers]]
    <3>1. LevelTyped(f[left], left)
      BY <2>1, LevelsType
    <3> QED BY <2>1, <3>1 DEF LevelTyped
  <2>9. \A a \in AuthAccounts, s \in marked : f[left][a][s].s \in marked /\ (f[left][a][s].ok => a \in S)
    BY <2>7, Zenon DEF ClosedFor
  <2>10. \A a \in W[left], s \in marked : a \in s.approved \/ (left # 0 /\ f[left][a][s].ok)
    <3> SUFFICES ASSUME NEW a \in W[left], NEW s \in marked
                 PROVE  a \in s.approved \/ f[left][a][s].ok
      BY <2>1
    <3>1. a \in AuthAccounts /\ (a \in A \/ Enough(g[a], K, B))
      BY <2>5
    <3>2. A \subseteq s.approved
      BY DEF MarkedWithin
    <3> QED BY <2>7, <3>1, <3>2, Zenon
  <2>11. NestedExact(f[left], left, S, W[left], K, A)
    BY <2>8, <2>9, <2>10, Zenon DEF NestedExact
  <2> QED BY <2>1, <2>11
<1>3. MaxRecursion \in T
  <2> HIDE DEF T
  <2> QED BY <1>0, <1>1, <1>2, IntervalInduction, Zenon
<1> QED BY <1>3


\* check_authority is one level above the levels that max_recursion allows.
LEMMA CheckAuthorityLevels ==
  ASSUME NEW g
  PROVE  \E f : /\ IsNested(g, MaxRecursion, f)
                /\ \A au, s : CheckAuthority(g, au, s) = CheckLevel(au, MaxRecursion, f[MaxRecursion], s)
<1> DEFINE f == CHOOSE nested :
                  nested = [left \in 0..MaxRecursion |->
                              IF left = 0 THEN <<>> ELSE CheckBelow(g, left - 1, nested[left - 1])]
<1>1. \E h : IsNested(g, MaxRecursion, h)
  BY OrderFacts, NestedExists
<1>2. IsNested(g, MaxRecursion, f)
  BY <1>1, Zenon DEF IsNested
<1>3. \A au, s : CheckAuthority(g, au, s) = CheckLevel(au, MaxRecursion, f[MaxRecursion], s)
  BY Zenon DEF CheckAuthority
<1> HIDE DEF f
<1> QED BY <1>2, <1>3, Zenon

\* What an answer c may be: it marks accounts of S only, accepts only what S
\* suffices for and at least what B does.
Exact(c, au, S, B, K, A) ==
  /\ c \in Answers /\ c.s \in MarkedWithin(S, K, A)
  /\ c.ok => Enough(au, K, S)
  /\ Enough(au, K, B) => c.ok

\* check_authority is exact: sound for any closed set, complete for the
\* accounts within max_recursion levels.
LEMMA CheckAuthorityExact ==
  ASSUME NEW g \in [AuthAccounts -> Authorities], NEW K, NEW A,
         NEW S \in SUBSET AuthAccounts, ClosedFor(g, K, S),
         NEW W, LevelsOf(g, K, A, W), NEW au \in Authorities,
         NEW s \in MarkedWithin(S, K, A)
  PROVE  Exact(CheckAuthority(g, au, s), au, S, W[MaxRecursion], K, A)
<1>1. PICK f : /\ IsNested(g, MaxRecursion, f)
               /\ \A v, t : CheckAuthority(g, v, t) = CheckLevel(v, MaxRecursion, f[MaxRecursion], t)
  BY CheckAuthorityLevels
<1>2. NestedExact(f[MaxRecursion], MaxRecursion, S, W[MaxRecursion], K, A)
  BY <1>1, LevelsExact
<1>3. PICK c : c = CheckAuthority(g, au, s)
  OBVIOUS
<1>4. W[MaxRecursion] \in SUBSET AuthAccounts /\ MaxRecursion \in Nat
  BY OrderFacts DEF LevelsOf
<1>5. c = CheckLevel(au, MaxRecursion, f[MaxRecursion], s)
  BY <1>1, <1>3, Zenon
<1>6. Exact(c, au, S, W[MaxRecursion], K, A)
  <2> DEFINE B == W[MaxRecursion]
             nested == f[MaxRecursion]
  <2>1. NestedExact(nested, MaxRecursion, S, B, K, A) /\ B \in SUBSET AuthAccounts
    BY <1>2, <1>4
  <2>2. c = CheckLevel(au, MaxRecursion, nested, s)
    BY <1>5
  <2> HIDE DEF B, nested
  <2>3. /\ c \in Answers /\ c.s \in MarkedWithin(S, K, A)
        /\ c.ok => Weight(au, K, S) >= au.threshold
        /\ Weight(au, K, B) >= au.threshold => c.ok
    BY <1>4, <2>1, <2>2, LevelExact
  <2> QED BY <2>3, Zenon DEF Exact, Enough, B
<1> QED BY <1>3, <1>6

\* check_authority answers in every sign state.
LEMMA CheckAuthorityType ==
  ASSUME NEW g \in [AuthAccounts -> Authorities], NEW au \in Authorities,
         NEW s \in SignStates
  PROVE  CheckAuthority(g, au, s) \in Answers /\ CheckAuthority(g, au, s).s.keys = s.keys
<1>1. PICK f : /\ IsNested(g, MaxRecursion, f)
               /\ \A v, t : CheckAuthority(g, v, t) = CheckLevel(v, MaxRecursion, f[MaxRecursion], t)
  BY CheckAuthorityLevels
<1>2. MaxRecursion \in Nat /\ MaxRecursion \in 0..MaxRecursion
  BY OrderFacts
<1>3. LevelTyped(f[MaxRecursion], MaxRecursion)
  BY <1>1, <1>2, LevelsType
<1>4. PICK c : c = CheckAuthority(g, au, s)
  OBVIOUS
<1>5. c = CheckLevel(au, MaxRecursion, f[MaxRecursion], s)
  BY <1>1, <1>4, Zenon
<1> QED BY <1>2, <1>3, <1>4, <1>5, LevelType


-----------------------------------------------------------------------------
(***************************************************************************)
(* verify_authority.                                                       *)
(***************************************************************************)
\* u is what checking one more account a makes of the answer r.
StepExact(r, u, a, required, S, G, marked) ==
  /\ u \in Answers /\ u.s \in marked
  /\ u.ok => r.ok /\ (a \in required => a \in S)
  /\ r.ok /\ (a \in required => a \in G) => u.ok

\* The same for all the accounts that are required.
LoopExact(r, u, required, S, G, marked) ==
  /\ u \in Answers /\ u.s \in marked
  /\ u.ok => r.ok /\ required \subseteq S
  /\ r.ok /\ required \subseteq G => u.ok

\* Steps that are exact make an exact loop.
LEMMA StepsExact ==
  ASSUME NEW required \in SUBSET AuthAccounts, NEW S, NEW G, NEW marked,
         NEW body \in [AuthAccounts -> [Answers -> Answers]],
         \A a \in AuthAccounts, r \in Answers :
            r.s \in marked => StepExact(r, body[a][r], a, required, S, G, marked),
         NEW start \in Answers, start.s \in marked
  PROVE  LoopExact(start, ForEach(AccountOrder, body, start), required, S, G, marked)
<1> DEFINE n == Len(AccountOrder)
           Good(i, q) == /\ q.s \in marked
                         /\ q.ok => start.ok /\ \A j \in 1..i : AccountOrder[j] \in required => AccountOrder[j] \in S
                         /\ start.ok /\ required \subseteq G => q.ok
           P == [i \in 0..n |-> {q \in Answers : Good(i, q)}]
           last == ForEach(AccountOrder, body, start)
<1>1. AccountOrder \in Seq(AuthAccounts) /\ n \in Nat /\ \A i \in 1..n : AccountOrder[i] \in AuthAccounts
  BY OrderFacts
<1>2. start \in P[0]
  <2>1. Good(0, start)
    OBVIOUS
  <2> QED BY <1>1, <2>1
<1>3. ASSUME NEW i \in 1..n, NEW q \in Answers, q \in P[i - 1]
      PROVE  body[AccountOrder[i]][q] \in P[i]
  <2> DEFINE x == AccountOrder[i]
             u == body[x][q]
  <2>1. x \in AuthAccounts /\ i \in 0..n /\ i - 1 \in 0..n
    BY <1>1
  <2>2. Good(i - 1, q)
    BY <1>3, <2>1
  <2>3. StepExact(q, u, x, required, S, G, marked)
    BY <2>1, <2>2, Zenon
  <2>4. \A j \in 1..i : j = i \/ j \in 1..(i - 1)
    BY <1>1
  <2> HIDE DEF u, n
  <2>5. Good(i, u)
    <3>1. u.s \in marked
      BY <2>3 DEF StepExact
    <3>2. u.ok => q.ok /\ (x \in required => x \in S)
      BY <2>3, Zenon DEF StepExact
    <3>3. u.ok => start.ok /\ \A j \in 1..i : AccountOrder[j] \in required => AccountOrder[j] \in S
      BY <2>2, <2>4, <3>2, Zenon
    <3>4. start.ok /\ required \subseteq G => u.ok
      BY <2>2, <2>3, Zenon DEF StepExact
    <3> QED BY <3>1, <3>3, <3>4, Zenon
  <2>6. u \in Answers
    BY <2>3 DEF StepExact
  <2> HIDE DEF Good
  <2> QED BY <2>1, <2>5, <2>6 DEF u
<1>4. last \in P[n]
  <2> HIDE DEF P, n
  <2> QED BY <1>1, <1>2, <1>3, ForEachInduction DEF n
<1>5. last \in Answers /\ Good(n, last)
  <2> HIDE DEF Good
  <2> QED BY <1>1, <1>4
<1>6. \A a \in required : \E j \in 1..n : AccountOrder[j] = a
  BY <1>1 DEF AuthAccounts, Range
<1> HIDE DEF last, n
<1>7. last.ok => required \subseteq S
  BY <1>5, <1>6, Zenon
<1> QED BY <1>5, <1>7, Zenon DEF LoopExact, last

\* The context of a check with signatures K and approvals A: S is closed,
\* W has the accounts found within the levels.
Context(g, K, A, S, W) ==
  /\ g \in [AuthAccounts -> Authorities]
  /\ S \in SUBSET AuthAccounts /\ ClosedFor(g, K, S) /\ LevelsOf(g, K, A, W)

\* What an owner check must accept, and what an active check must accept.
OwnerGoal(g, K, W) == {a \in AuthAccounts : Enough(g[a], K, W[MaxRecursion])}
ActiveGoal(g, K, A, W) == A \cup OwnerGoal(g, K, W)

\* verify_authority's check of an owner.
LEMMA CheckOwnerExact ==
  ASSUME NEW g, NEW K, NEW A, NEW S, NEW W, Context(g, K, A, S, W),
         NEW required, NEW a \in AuthAccounts,
         NEW r \in Answers, r.s \in MarkedWithin(S, K, A)
  PROVE  StepExact(r, CheckOwner(g, g, required, r, a), a, required, S,
                   OwnerGoal(g, K, W), MarkedWithin(S, K, A))
<1> DEFINE c == CheckAuthority(g, g[a], r.s)
           marked == MarkedWithin(S, K, A)
<1>1. g[a] \in Authorities
  BY DEF Context
<1>2. Exact(c, g[a], S, W[MaxRecursion], K, A)
  BY <1>1, CheckAuthorityExact DEF Context
<1>3. Enough(g[a], K, S) => a \in S
  BY DEF Context, ClosedFor
<1>4. PICK u : u = CheckOwner(g, g, required, r, a)
  OBVIOUS
<1>5. CASE r.ok /\ a \in required
  <2>1. u = c
    BY <1>4, <1>5, Zenon DEF CheckOwner
  <2>2. a \in OwnerGoal(g, K, W) => Enough(g[a], K, W[MaxRecursion])
    BY DEF OwnerGoal
  <2> HIDE DEF c
  <2>3. StepExact(r, u, a, required, S, OwnerGoal(g, K, W), marked)
    BY <1>2, <1>3, <1>5, <2>1, <2>2, Zenon DEF Exact, StepExact
  <2> QED BY <1>4, <2>3
<1>6. CASE ~(r.ok /\ a \in required)
  <2>1. u = r
    BY <1>4, <1>6, Zenon DEF CheckOwner
  <2>2. StepExact(r, u, a, required, S, OwnerGoal(g, K, W), marked)
    BY <1>6, <2>1, Zenon DEF StepExact
  <2> QED BY <1>4, <2>2
<1> QED BY <1>5, <1>6, Zenon

\* verify_authority's check of an active authority, by the owner's if need be.
LEMMA CheckActiveExact ==
  ASSUME NEW g, NEW K, NEW A, NEW S, NEW W, Context(g, K, A, S, W),
         NEW required, NEW a \in AuthAccounts,
         NEW r \in Answers, r.s \in MarkedWithin(S, K, A)
  PROVE  StepExact(r, CheckActive(g, g, required, r, a), a, required, S,
                   ActiveGoal(g, K, A, W), MarkedWithin(S, K, A))
<1> DEFINE c == CheckAuthority(g, g[a], r.s)
           d == CheckAuthority(g, g[a], c.s)
           marked == MarkedWithin(S, K, A)
           goal == ActiveGoal(g, K, A, W)
<1>1. g[a] \in Authorities
  BY DEF Context
<1>2. Exact(c, g[a], S, W[MaxRecursion], K, A)
  BY <1>1, CheckAuthorityExact DEF Context
<1>3. Exact(d, g[a], S, W[MaxRecursion], K, A)
  <2>1. c.s \in marked
    BY <1>2, Zenon DEF Exact
  <2> HIDE DEF c
  <2> QED BY <1>1, <2>1, CheckAuthorityExact DEF Context
<1> HIDE DEF d, c
<1>4. Enough(g[a], K, S) => a \in S
  BY DEF Context, ClosedFor
<1>5. PICK u : u = CheckActive(g, g, required, r, a)
  OBVIOUS
<1>6. a \in goal => a \in A \/ Enough(g[a], K, W[MaxRecursion])
  BY DEF ActiveGoal, OwnerGoal
<1>7. A \subseteq r.s.approved /\ r.s.approved \subseteq S
  BY DEF MarkedWithin
<1> HIDE DEF marked, goal
<1>8. CASE ~(r.ok /\ a \in required)
  <2>1. u = r
    BY <1>5, <1>8, Zenon DEF CheckActive
  <2>2. r.s \in marked
    BY DEF marked
  <2>3. StepExact(r, u, a, required, S, goal, marked)
    BY <1>8, <2>1, <2>2, Zenon DEF StepExact
  <2> QED BY <1>5, <2>3 DEF marked, goal
<1>9. CASE r.ok /\ a \in required /\ a \in r.s.approved
  <2> DEFINE e == [ok |-> TRUE, s |-> r.s]
  <2>1. e.ok /\ e.s = r.s
    OBVIOUS
  <2>2. u = e
    BY <1>5, <1>9, Zenon DEF CheckActive, CheckAccount, OrByOwner
  <2>3. r.s \in SignStates
    BY DEF Answers
  <2>4. e \in Answers
    BY <2>3 DEF Answers
  <2> HIDE DEF e
  <2>5. r.s \in marked
    BY DEF marked
  <2>6. a \in S
    BY <1>7, <1>9
  <2>7. StepExact(r, u, a, required, S, goal, marked)
    BY <1>9, <2>1, <2>2, <2>4, <2>5, <2>6, Zenon DEF StepExact
  <2> QED BY <1>5, <2>7 DEF marked, goal
<1>10. CASE r.ok /\ a \in required /\ a \notin r.s.approved
  <2>1. u = IF c.ok THEN c ELSE d
    BY <1>5, <1>10, Zenon DEF CheckActive, CheckAccount, OrByOwner, c, d
  <2>2. a \notin A
    BY <1>7, <1>10
  <2>3. u = c \/ u = d
    BY <2>1, Zenon
  <2>4. u \in Answers /\ u.s \in marked /\ (u.ok => Enough(g[a], K, S))
    BY <1>2, <1>3, <2>3, Zenon DEF Exact, marked
  <2>5. a \in goal => u.ok
    BY <1>2, <1>6, <2>1, <2>2, Zenon DEF Exact
  <2>6. StepExact(r, u, a, required, S, goal, marked)
    BY <1>4, <1>10, <2>4, <2>5, Zenon DEF StepExact
  <2> QED BY <1>5, <2>6 DEF marked, goal
<1> QED BY <1>8, <1>9, <1>10, Zenon


\* The checks of one account answer in every sign state.
LEMMA CheckStepTypes ==
  ASSUME NEW g \in [AuthAccounts -> Authorities], NEW required,
         NEW r \in Answers, NEW a \in AuthAccounts
  PROVE  /\ CheckOwner(g, g, required, r, a) \in Answers
         /\ CheckActive(g, g, required, r, a) \in Answers
<1> DEFINE c == CheckAuthority(g, g[a], r.s)
           d == CheckAuthority(g, g[a], c.s)
           e == [ok |-> TRUE, s |-> r.s]
<1>1. g[a] \in Authorities /\ r.s \in SignStates
  BY DEF Answers
<1>2. c \in Answers
  BY <1>1, CheckAuthorityType
<1> HIDE DEF c
<1>3. c.s \in SignStates
  BY <1>2 DEF Answers
<1>4. d \in Answers
  BY <1>1, <1>3, CheckAuthorityType
<1>5. e \in Answers
  BY <1>1 DEF Answers
<1> HIDE DEF d, e
<1>6. CheckOwner(g, g, required, r, a) \in {c, r}
  BY Zenon DEF CheckOwner, c
<1>7. CheckActive(g, g, required, r, a) \in {c, d, e, r}
  <2>1. CASE a \in r.s.approved
    <3>1. e.ok
      BY DEF e
    <3> QED BY <2>1, <3>1, Zenon DEF CheckActive, CheckAccount, OrByOwner, e
  <2>2. CASE a \notin r.s.approved
    BY <2>2, Zenon DEF CheckActive, CheckAccount, OrByOwner, c, d
  <2> QED BY <2>1, <2>2
<1> QED BY <1>2, <1>4, <1>5, <1>6, <1>7

\* The loop over the required active authorities.
LEMMA CheckActivesExact ==
  ASSUME NEW g, NEW K, NEW A, NEW S, NEW W, Context(g, K, A, S, W),
         NEW required \in SUBSET AuthAccounts,
         NEW start \in Answers, start.s \in MarkedWithin(S, K, A)
  PROVE  LoopExact(start, CheckActives(g, g, required, start), required, S,
                   ActiveGoal(g, K, A, W), MarkedWithin(S, K, A))
<1> DEFINE body == [a \in AuthAccounts |-> [r \in Answers |-> CheckActive(g, g, required, r, a)]]
           marked == MarkedWithin(S, K, A)
           goal == ActiveGoal(g, K, A, W)
<1>0. g \in [AuthAccounts -> Authorities]
  BY DEF Context
<1>1. ASSUME NEW a \in AuthAccounts, NEW r \in Answers
      PROVE  CheckActive(g, g, required, r, a) \in Answers
  BY <1>0, CheckStepTypes
<1>2. body \in [AuthAccounts -> [Answers -> Answers]]
  BY <1>1, Zenon
<1>3. ASSUME NEW a \in AuthAccounts, NEW r \in Answers, r.s \in marked
      PROVE  StepExact(r, body[a][r], a, required, S, goal, marked)
  <2>1. body[a][r] = CheckActive(g, g, required, r, a)
    OBVIOUS
  <2>2. StepExact(r, CheckActive(g, g, required, r, a), a, required, S, goal, marked)
    BY <1>3, CheckActiveExact
  <2> QED BY <2>1, <2>2
<1>4. CheckActives(g, g, required, start) = ForEach(AccountOrder, body, start)
  BY DEF CheckActives
<1>5. start.s \in marked
  OBVIOUS
<1> HIDE DEF body, marked, goal
<1>6. LoopExact(start, ForEach(AccountOrder, body, start), required, S, goal, marked)
  BY <1>2, <1>3, <1>5, StepsExact
<1> QED BY <1>4, <1>6 DEF marked, goal

\* The loop over the required owner authorities.
LEMMA CheckOwnersExact ==
  ASSUME NEW g, NEW K, NEW A, NEW S, NEW W, Context(g, K, A, S, W),
         NEW required \in SUBSET AuthAccounts,
         NEW start \in Answers, start.s \in MarkedWithin(S, K, A)
  PROVE  LoopExact(start, CheckOwners(g, g, required, start), required, S,
                   OwnerGoal(g, K, W), MarkedWithin(S, K, A))
<1> DEFINE body == [a \in AuthAccounts |-> [r \in Answers |-> CheckOwner(g, g, required, r, a)]]
           marked == MarkedWithin(S, K, A)
           goal == OwnerGoal(g, K, W)
<1>0. g \in [AuthAccounts -> Authorities]
  BY DEF Context
<1>1. ASSUME NEW a \in AuthAccounts, NEW r \in Answers
      PROVE  CheckOwner(g, g, required, r, a) \in Answers
  BY <1>0, CheckStepTypes
<1>2. body \in [AuthAccounts -> [Answers -> Answers]]
  BY <1>1, Zenon
<1>3. ASSUME NEW a \in AuthAccounts, NEW r \in Answers, r.s \in marked
      PROVE  StepExact(r, body[a][r], a, required, S, goal, marked)
  <2>1. body[a][r] = CheckOwner(g, g, required, r, a)
    OBVIOUS
  <2>2. StepExact(r, CheckOwner(g, g, required, r, a), a, required, S, goal, marked)
    BY <1>3, CheckOwnerExact
  <2> QED BY <2>1, <2>2
<1>4. CheckOwners(g, g, required, start) = ForEach(AccountOrder, body, start)
  BY DEF CheckOwners
<1>5. start.s \in marked
  OBVIOUS
<1> HIDE DEF body, marked, goal
<1>6. LoopExact(start, ForEach(AccountOrder, body, start), required, S, goal, marked)
  BY <1>2, <1>3, <1>5, StepsExact
<1> QED BY <1>4, <1>6 DEF marked, goal

\* verify_authority finds nothing missing only if S has every required
\* account, and always if the levels find them.
LEMMA VerifyExact ==
  ASSUME NEW g, NEW K \in SUBSET AuthKeys, NEW A \in SUBSET AuthAccounts,
         NEW S, NEW W, Context(g, K, A, S, W), A \subseteq S,
         NEW rq \in [active : SUBSET AuthAccounts, owner : SUBSET AuthAccounts],
         NEW v, v = VerifyAuthority(g, g, rq, K, A, {})
  PROVE  /\ ~v.missing => rq.active \cup rq.owner \subseteq S
         /\ rq.active \subseteq ActiveGoal(g, K, A, W) /\ rq.owner \subseteq OwnerGoal(g, K, W)
              => ~v.missing
<1> DEFINE s == SignState(K, {}, A \cup {})
           start == [ok |-> TRUE, s |-> s]
           first == CheckActives(g, g, rq.active, start)
           last == CheckOwners(g, g, rq.owner \ {}, first)
           marked == MarkedWithin(S, K, A)
<1>1. s \in SignStates /\ s.keys = K /\ s.approved = A
  BY DEF SignState, SignStates
<1>2. s \in marked
  BY <1>1 DEF MarkedWithin
<1> HIDE DEF s
<1>3. start \in Answers /\ start.s = s /\ start.ok
  BY <1>1 DEF Answers
<1>4. rq.active \in SUBSET AuthAccounts /\ rq.owner \in SUBSET AuthAccounts /\ rq.owner \ {} = rq.owner
  OBVIOUS
<1> HIDE DEF start
<1>5. LoopExact(start, first, rq.active, S, ActiveGoal(g, K, A, W), marked)
  BY <1>2, <1>3, <1>4, CheckActivesExact
<1>6. first \in Answers /\ first.s \in marked
  BY <1>5 DEF LoopExact
<1> HIDE DEF first
<1>7. LoopExact(first, last, rq.owner, S, OwnerGoal(g, K, W), marked)
  BY <1>4, <1>6, CheckOwnersExact
<1>8. v = Outcome(K, last)
  BY Zenon DEF VerifyAuthority, last, first, start, s
<1> HIDE DEF last
<1>9. v.missing = ~last.ok
  BY <1>8 DEF Outcome
<1>10. ~v.missing <=> last.ok
  BY <1>9, Zenon
<1>11. last.ok => rq.active \subseteq S /\ rq.owner \subseteq S
  BY <1>5, <1>7, Zenon DEF LoopExact
<1>12. rq.active \subseteq ActiveGoal(g, K, A, W) /\ rq.owner \subseteq OwnerGoal(g, K, W) => last.ok
  BY <1>3, <1>5, <1>7, Zenon DEF LoopExact
<1> QED BY <1>10, <1>11, <1>12, Zenon

-----------------------------------------------------------------------------
(***************************************************************************)
(* CheckExact.                                                             *)
(***************************************************************************)
\* The authorities, the requirements, the signatures and the approvals are
\* what their names say.
RulesType ==
  /\ graph \in [AuthAccounts -> Authorities]
  /\ req \in [active : SUBSET AuthAccounts, owner : SUBSET AuthAccounts]
  /\ sigs \in SUBSET AuthKeys /\ approvals \in SUBSET AuthAccounts

\* RulesType is an invariant.
LEMMA RulesTypeInvariant == AuthoritySpec => []RulesType
<1>1. AuthorityInit => RulesType
  BY RulesAssumption DEF AuthorityInit, RulesType
<1>2. RulesType /\ [AuthorityNext]_authorityVars => RulesType'
  BY DEF RulesType, AuthorityNext, Sign, Approve, authorityVars
<1> QED BY <1>1, <1>2, PTL DEF AuthoritySpec

\* The levels of the reference definition exist.
LEMMA WithinFacts ==
  ASSUME RulesType
  PROVE  /\ Within \in [0..MaxRecursion + 1 -> SUBSET AuthAccounts]
         /\ Within[0] = approvals
         /\ \A n \in 1..MaxRecursion + 1 :
              Within[n] = approvals \cup {a \in AuthAccounts : Suffices(a, Within[n - 1])}
<1> DEFINE D == SUBSET AuthAccounts
           Up(T) == approvals \cup {a \in AuthAccounts : Suffices(a, T)}
           order == [i \in 1..MaxRecursion + 1 |-> 0]
           body == [x \in {0} |-> [T \in D |-> Up(T)]]
           IsWithin(f) == f = [n \in 0..MaxRecursion + 1 |->
                                 IF n = 0 THEN approvals ELSE Up(f[n - 1])]
           top == MaxRecursion + 1
<1>1. MaxRecursion \in Nat /\ top \in Nat
  BY OrderFacts
<1>2. approvals \in D /\ \A T : Up(T) \in D
  BY DEF RulesType
<1>3. order \in Seq({0}) /\ Len(order) = top
  BY <1>1
<1>4. body \in [{0} -> [D -> D]] /\ \A T \in D : body[0][T] = Up(T)
  BY <1>2
<1>5. PICK f : Passes(D, order, body, approvals, top, f)
  <2> HIDE DEF D, order, body, top
  <2>1. \E f : Passes(D, order, body, approvals, Len(order), f)
    BY <1>2, <1>3, <1>4, PassesExist
  <2> QED BY <1>3, <2>1
<1>6. f \in [0..top -> D] /\ f[0] = approvals /\ \A i \in 1..top : f[i] = Up(f[i - 1])
  <2>1. f \in [0..top -> D] /\ f[0] = approvals
    BY <1>5 DEF Passes
  <2>2. ASSUME NEW i \in 1..top PROVE f[i] = Up(f[i - 1])
    <3>1. f[i] = body[order[i]][f[i - 1]] /\ order[i] = 0
      BY <1>5 DEF Passes
    <3>2. f[i - 1] \in D
      BY <1>1, <2>1
    <3> HIDE DEF body, order, D, Up
    <3> QED BY <1>4, <3>1, <3>2
  <2> QED BY <2>1, <2>2
<1>7. IsWithin(f)
  BY <1>1, <1>6
<1>8. IsWithin(Within)
  BY <1>7, Zenon DEF Within
<1> DEFINE w == Within
<1>9. IsWithin(w)
  BY <1>8
<1> HIDE DEF w, order, body, Up
<1>10. /\ w[0] = approvals
       /\ \A n \in 1..top : w[n] = Up(w[n - 1])
       /\ DOMAIN w = 0..top
  BY <1>1, <1>9
<1>11. \A n \in 0..top : w[n] \in D
  BY <1>1, <1>2, <1>10
<1>12. w \in [0..top -> D]
  BY <1>9, <1>11
<1> QED BY <1>10, <1>12 DEF w, Up


\* verify_authority accepts exactly what signatures and approvals justify:
\* nothing that follows only from what failed branches have marked, and
\* everything within max_recursion levels whatever the order of the accounts.
THEOREM CheckIsExact == AuthoritySpec => []CheckExact
<1>1. ASSUME RulesType PROVE CheckExact
  <2> DEFINE W == [n \in 0..MaxRecursion |-> Within[n]]
             rq == req
             v == Verdict
  <2>0. MaxRecursion \in Nat
    BY OrderFacts
  <2>1. /\ graph \in [AuthAccounts -> Authorities]
        /\ req \in [active : SUBSET AuthAccounts, owner : SUBSET AuthAccounts]
        /\ sigs \in SUBSET AuthKeys /\ approvals \in SUBSET AuthAccounts
    BY <1>1 DEF RulesType
  <2>2. \A a, T : Suffices(a, T) <=> Enough(graph[a], sigs, T)
    BY Zenon DEF Suffices, Enough
  <2>3. LevelsOf(graph, sigs, approvals, W)
    <3>1. W \in [0..MaxRecursion -> SUBSET AuthAccounts] /\ W[0] = approvals
      BY <1>1, <2>0, WithinFacts
    <3>2. ASSUME NEW n \in 1..MaxRecursion, NEW a \in W[n]
          PROVE  a \in approvals \/ Enough(graph[a], sigs, W[n - 1])
      <4>1. n \in 1..MaxRecursion + 1 /\ n \in 0..MaxRecursion /\ n - 1 \in 0..MaxRecursion
        BY <2>0
      <4>2. Within[n] = approvals \cup {b \in AuthAccounts : Suffices(b, Within[n - 1])}
        BY <1>1, <4>1, WithinFacts
      <4>3. a \in approvals \/ Suffices(a, Within[n - 1])
        BY <4>1, <4>2
      <4>4. W[n - 1] = Within[n - 1]
        BY <4>1
      <4> QED BY <2>2, <4>3, <4>4
    <3> HIDE DEF W
    <3> QED BY <3>1, <3>2 DEF LevelsOf
  <2>4. v = VerifyAuthority(graph, graph, req, sigs, approvals, {})
    BY DEF Verdict
  <2>5. W[MaxRecursion] = Within[MaxRecursion]
    BY <2>0
  <2>6. Within[MaxRecursion + 1] = approvals \cup {a \in AuthAccounts : Suffices(a, Within[MaxRecursion])}
    <3> DEFINE n == MaxRecursion + 1
    <3>1. n \in 1..MaxRecursion + 1 /\ n - 1 = MaxRecursion
      BY <2>0
    <3>2. Within[n] = approvals \cup {a \in AuthAccounts : Suffices(a, Within[n - 1])}
      BY <1>1, <3>1, WithinFacts
    <3> QED BY <3>1, <3>2
  <2> HIDE DEF v, W
  <2>7. ASSUME NEW S \in SUBSET AuthAccounts, Closed(S)
        PROVE  /\ ~v.missing => req.active \cup req.owner \subseteq S
               /\ req.active \subseteq ActiveGoal(graph, sigs, approvals, W)
                  /\ req.owner \subseteq OwnerGoal(graph, sigs, W) => ~v.missing
    <3>1. ClosedFor(graph, sigs, S) /\ approvals \subseteq S
      BY <2>2, <2>7, Zenon DEF Closed, ClosedFor
    <3>2. Context(graph, sigs, approvals, S, W)
      BY <2>1, <2>3, <3>1 DEF Context
    <3> QED BY <2>1, <2>4, <3>1, <3>2, VerifyExact
  <2>8. CheckSound
    <3> SUFFICES ASSUME ~v.missing, NEW a \in req.active \cup req.owner PROVE a \in Justified
      BY DEF CheckSound, Required, v
    <3>1. a \in AuthAccounts
      BY <2>1
    <3>2. \A S \in SUBSET AuthAccounts : Closed(S) => a \in S
      BY <2>7, Zenon
    <3> QED BY <3>1, <3>2 DEF Justified
  <2>9. CheckComplete
    <3> SUFFICES ASSUME req.active \subseteq Within[MaxRecursion + 1],
                        \A a \in req.owner : Suffices(a, Within[MaxRecursion])
                 PROVE  ~v.missing
      BY DEF CheckComplete, v
    <3>1. Closed(AuthAccounts)
      BY <2>1 DEF Closed
    <3>2. req.owner \subseteq OwnerGoal(graph, sigs, W)
      BY <2>1, <2>2, <2>5 DEF OwnerGoal
    <3>3. req.active \subseteq ActiveGoal(graph, sigs, approvals, W)
      BY <2>1, <2>2, <2>5, <2>6 DEF ActiveGoal, OwnerGoal
    <3> QED BY <2>7, <3>1, <3>2, <3>3
  <2> QED BY <2>8, <2>9 DEF CheckExact
<1> QED BY <1>1, RulesTypeInvariant, PTL


-----------------------------------------------------------------------------
(***************************************************************************)
(* Fewer keys: a check that is repeated with fewer keys, among them all    *)
(* that it used, takes the same steps.                                     *)
(***************************************************************************)
Related(x, y, D, D2, R) == x \in D /\ y \in D2 /\ y \in R[x]

\* Two loops over the same entries stay related: R[q] has the states of the
\* second loop that go with the state q of the first one.
LEMMA ForEachPair ==
  ASSUME NEW X, NEW D, NEW D2, NEW start \in D, NEW start2 \in D2, NEW order \in Seq(X),
         NEW body \in [X -> [D -> D]], NEW body2 \in [X -> [D2 -> D2]],
         NEW R, start2 \in R[start],
         \A x \in X, q \in D, q2 \in D2 : q2 \in R[q] => body2[x][q2] \in R[body[x][q]]
  PROVE  Related(ForEach(order, body, start), ForEach(order, body2, start2), D, D2, R)
<1> DEFINE n == Len(order)
<1>1. PICK f : /\ Passes(D, order, body, start, n, f)
               /\ ForEach(order, body, start) = f[n]
  BY ForEachPasses
<1>2. PICK h : /\ Passes(D2, order, body2, start2, n, h)
               /\ ForEach(order, body2, start2) = h[n]
  <2> HIDE DEF n
  <2> QED BY ForEachPasses DEF n
<1> DEFINE T == {i \in 0..n : h[i] \in R[f[i]]}
<1>3. n \in Nat /\ \A i \in 1..n : order[i] \in X
  OBVIOUS
<1>4. 0 \in T
  BY <1>1, <1>2, <1>3 DEF Passes
<1>5. \A i \in 1..n : i - 1 \in T => i \in T
  <2> SUFFICES ASSUME NEW i \in 1..n, i - 1 \in T PROVE i \in T
    OBVIOUS
  <2>1. i - 1 \in 0..n /\ i \in 0..n /\ order[i] \in X
    BY <1>3
  <2>2. f[i] = body[order[i]][f[i - 1]] /\ f[i - 1] \in D
    BY <1>1, <2>1 DEF Passes
  <2>3. h[i] = body2[order[i]][h[i - 1]] /\ h[i - 1] \in D2
    BY <1>2, <2>1 DEF Passes
  <2>4. h[i - 1] \in R[f[i - 1]]
    OBVIOUS
  <2> QED BY <2>1, <2>2, <2>3, <2>4
<1> HIDE DEF T
<1>6. n \in T
  <2> HIDE DEF n
  <2> QED BY <1>3, <1>4, <1>5, IntervalInduction, Zenon
<1>7. f[n] \in D /\ h[n] \in D2
  BY <1>1, <1>2, <1>3 DEF Passes
<1> QED BY <1>1, <1>2, <1>6, <1>7 DEF T, Related

\* The sign state s with the keys U instead.
Narrowed(s, U) == [s EXCEPT !.keys = U]

\* What narrowing changes.
LEMMA NarrowedFacts ==
  ASSUME NEW s \in SignStates, NEW U \in SUBSET AuthKeys
  PROVE  /\ Narrowed(s, U) \in SignStates
         /\ Narrowed(s, U).keys = U /\ Narrowed(s, U).used = s.used
         /\ Narrowed(s, U).approved = s.approved
         /\ \A t \in SignStates :
              t.keys = U /\ t.used = s.used /\ t.approved = s.approved => t = Narrowed(s, U)
BY DEF SignStates, Narrowed

\* The states of a check with the keys K that had used O before, and of one
\* with the keys U: the used keys only grow, and as long as they are in U
\* both are in the same state.
StatesAgree(s, t, O, K, U) ==
  /\ s.keys = K /\ O \subseteq s.used /\ s.used \subseteq K
  /\ s.used \subseteq U => t = Narrowed(s, U)

AnswersAgree(c, d, O, K, U) ==
  StatesAgree(c.s, d.s, O, K, U) /\ (c.s.used \subseteq U => (c.ok <=> d.ok))

TalliesAgree(q, q2, O, K, U) ==
  /\ StatesAgree(q.s, q2.s, O, K, U)
  /\ q.s.used \subseteq U => (q.ok <=> q2.ok) /\ q.weight = q2.weight

\* A key that is used is among the fewer ones.
LEMMA UseKeyPair ==
  ASSUME NEW K \in SUBSET AuthKeys, NEW U \in SUBSET K, NEW O,
         NEW au \in Authorities, NEW k \in AuthKeys,
         NEW q \in Tallies, NEW q2 \in Tallies, TalliesAgree(q, q2, O, K, U)
  PROVE  TalliesAgree(UseKey(q, au, k), UseKey(q2, au, k), O, K, U)
<1>1. PICK u, u2 : u = UseKey(q, au, k) /\ u2 = UseKey(q2, au, k)
  OBVIOUS
<1> SUFFICES TalliesAgree(u, u2, O, K, U)
  BY <1>1
<1> DEFINE w == au.keys[k]
           uses == ~q.ok /\ w # 0 /\ k \in q.s.keys
           uses2 == ~q2.ok /\ w # 0 /\ k \in q2.s.keys
<1>2. /\ u \in Tallies /\ u.s.keys = q.s.keys /\ u.s.approved = q.s.approved
      /\ ~uses => u = q
      /\ uses => /\ u.weight = q.weight + w
                 /\ u.ok <=> q.weight + w >= au.threshold
                 /\ u.s.used = q.s.used \cup {k}
  <2>1. /\ u \in Tallies
        /\ u.s.keys = q.s.keys /\ u.s.approved = q.s.approved
        /\ q.ok \/ au.keys[k] = 0 \/ k \notin q.s.keys => u = q
        /\ ~q.ok /\ au.keys[k] # 0 /\ k \in q.s.keys =>
             /\ u.weight = q.weight + au.keys[k]
             /\ u.ok <=> q.weight + au.keys[k] >= au.threshold
             /\ u.s.used = q.s.used \cup {k}
    BY <1>1, UseKeyFacts
  <2> QED BY <2>1, Zenon
<1>3. /\ u2 \in Tallies /\ u2.s.keys = q2.s.keys /\ u2.s.approved = q2.s.approved
      /\ ~uses2 => u2 = q2
      /\ uses2 => /\ u2.weight = q2.weight + w
                  /\ u2.ok <=> q2.weight + w >= au.threshold
                  /\ u2.s.used = q2.s.used \cup {k}
  <2>1. /\ u2 \in Tallies
        /\ u2.s.keys = q2.s.keys /\ u2.s.approved = q2.s.approved
        /\ q2.ok \/ au.keys[k] = 0 \/ k \notin q2.s.keys => u2 = q2
        /\ ~q2.ok /\ au.keys[k] # 0 /\ k \in q2.s.keys =>
             /\ u2.weight = q2.weight + au.keys[k]
             /\ u2.ok <=> q2.weight + au.keys[k] >= au.threshold
             /\ u2.s.used = q2.s.used \cup {k}
    BY <1>1, UseKeyFacts
  <2> QED BY <2>1, Zenon
<1>4. q.s.keys = K /\ O \subseteq q.s.used /\ q.s.used \subseteq K
  BY DEF TalliesAgree, StatesAgree
<1>5. /\ u.s.keys = K /\ O \subseteq u.s.used /\ u.s.used \subseteq K
      /\ q.s.used \subseteq u.s.used
  BY <1>2, <1>4
<1>6. ASSUME u.s.used \subseteq U
      PROVE  (u.ok <=> u2.ok) /\ u.weight = u2.weight /\ u2.s = Narrowed(u.s, U)
  <2>1. /\ q2.s = Narrowed(q.s, U) /\ q.weight = q2.weight /\ (q.ok <=> q2.ok)
    <3>1. q.s.used \subseteq U
      BY <1>5, <1>6
    <3> QED BY <3>1, Zenon DEF TalliesAgree, StatesAgree
  <2>2. q.s \in SignStates /\ U \in SUBSET AuthKeys /\ u.s \in SignStates /\ u2.s \in SignStates
    BY <1>2, <1>3 DEF Tallies
  <2>3. q2.s.keys = U /\ q2.s.used = q.s.used /\ q2.s.approved = q.s.approved
    BY <2>1, <2>2, NarrowedFacts
  <2>4. uses => k \in U
    BY <1>2, <1>6
  <2>5. k \in U => k \in K
    OBVIOUS
  <2>6. uses <=> uses2
    BY <1>4, <2>1, <2>3, <2>4, <2>5, Zenon
  <2>7. (u.ok <=> u2.ok) /\ u.weight = u2.weight
    BY <1>2, <1>3, <2>1, <2>6, Zenon
  <2>8. u2.s.used = u.s.used
    BY <1>2, <1>3, <2>3, <2>6, Zenon
  <2>9. u2.s = Narrowed(u.s, U)
    BY <1>2, <1>3, <2>2, <2>3, <2>8, NarrowedFacts
  <2> QED BY <2>7, <2>9, Zenon
<1> QED BY <1>5, <1>6, Zenon DEF TalliesAgree, StatesAgree

\* The level below agrees with itself on fewer keys.
LevelAgrees(nested, left, K, U) ==
  left = 0 \/ \A a \in AuthAccounts, s \in SignStates :
    s.keys = K /\ s.used \subseteq K =>
      AnswersAgree(nested[a][s], nested[a][Narrowed(s, U)], s.used, K, U)

\* An account that is found is found with fewer keys.
LEMMA UseAccountPair ==
  ASSUME NEW K \in SUBSET AuthKeys, NEW U \in SUBSET K, NEW O,
         NEW au \in Authorities, NEW left \in Nat, NEW nested,
         LevelTyped(nested, left), LevelAgrees(nested, left, K, U),
         NEW a \in AuthAccounts,
         NEW q \in Tallies, NEW q2 \in Tallies, TalliesAgree(q, q2, O, K, U)
  PROVE  TalliesAgree(UseAccount(q, au, a, left, nested[a]),
                      UseAccount(q2, au, a, left, nested[a]), O, K, U)
<1>1. PICK u, u2, n, n2 : /\ u = UseAccount(q, au, a, left, nested[a])
                          /\ u2 = UseAccount(q2, au, a, left, nested[a])
                          /\ n = nested[a][q.s] /\ n2 = nested[a][q2.s]
  OBVIOUS
<1> SUFFICES TalliesAgree(u, u2, O, K, U)
  BY <1>1
<1>2. left = 0 \/ nested[a] \in [SignStates -> Answers]
  BY DEF LevelTyped
<1>3. AccountEffect(q, au, a, left, n, u) /\ AccountEffect(q2, au, a, left, n2, u2)
  BY <1>1, <1>2, UseAccountFacts, Zenon
<1>4. q.s.keys = K /\ O \subseteq q.s.used /\ q.s.used \subseteq K
  BY DEF TalliesAgree, StatesAgree
<1>5. q.s \in SignStates /\ q2.s \in SignStates /\ U \in SUBSET AuthKeys /\ u.s \in SignStates /\ u2.s \in SignStates
  BY <1>3 DEF Tallies, AccountEffect
<1> DEFINE asks(r) == ~r.ok /\ au.accounts[a] # 0 /\ a \notin r.s.approved /\ left # 0
<1>6. CASE asks(q)
  <2>1. AnswersAgree(n, nested[a][Narrowed(q.s, U)], q.s.used, K, U)
    BY <1>1, <1>4, <1>5, <1>6, Zenon DEF LevelAgrees
  <2>2. n.s.keys = K /\ q.s.used \subseteq n.s.used /\ n.s.used \subseteq K
    BY <2>1, Zenon DEF AnswersAgree, StatesAgree
  <2>3. /\ n \in Answers
        /\ n.ok => u.s = [n.s EXCEPT !.approved = @ \cup {a}]
        /\ ~n.ok => u.s = n.s
    BY <1>3, <1>6, Zenon DEF AccountEffect
  <2>4. n.s \in SignStates
    BY <2>3 DEF Answers
  <2>5. u.s.keys = n.s.keys /\ u.s.used = n.s.used
    BY <2>3, <2>4 DEF SignStates
  <2>6. u.s.keys = K /\ O \subseteq u.s.used /\ u.s.used \subseteq K
    BY <1>4, <2>2, <2>5
  <2>7. ASSUME u.s.used \subseteq U
        PROVE  (u.ok <=> u2.ok) /\ u.weight = u2.weight /\ u2.s = Narrowed(u.s, U)
    <3>1. q.s.used \subseteq U /\ n.s.used \subseteq U
      BY <2>2, <2>5, <2>7
    <3>2. q2.s = Narrowed(q.s, U) /\ q.weight = q2.weight /\ (q.ok <=> q2.ok)
      BY <3>1, Zenon DEF TalliesAgree, StatesAgree
    <3>3. n2.s = Narrowed(n.s, U) /\ (n.ok <=> n2.ok)
      BY <1>1, <2>1, <3>1, <3>2, Zenon DEF AnswersAgree, StatesAgree
    <3>4. q2.s.approved = q.s.approved
      BY <1>5, <3>2, NarrowedFacts
    <3>5. asks(q2)
      BY <1>6, <3>2, <3>4, Zenon
    <3>6. /\ n2.ok => /\ u2.s = [n2.s EXCEPT !.approved = @ \cup {a}]
                      /\ u2.weight = q2.weight + au.accounts[a]
                      /\ u2.ok <=> q2.weight + au.accounts[a] >= au.threshold
          /\ ~n2.ok => u2.s = n2.s /\ u2.weight = q2.weight /\ ~u2.ok
      BY <1>3, <3>5, Zenon DEF AccountEffect
    <3>7. /\ n.ok => /\ u.weight = q.weight + au.accounts[a]
                     /\ u.ok <=> q.weight + au.accounts[a] >= au.threshold
          /\ ~n.ok => u.weight = q.weight /\ ~u.ok
      BY <1>3, <1>6, Zenon DEF AccountEffect
    <3>8. (u.ok <=> u2.ok) /\ u.weight = u2.weight
      BY <3>2, <3>3, <3>6, <3>7, Zenon
    <3>9. u2.s = Narrowed(u.s, U)
      <4>1. CASE n.ok
        <5>1. u.s = [n.s EXCEPT !.approved = @ \cup {a}] /\ u2.s = [n2.s EXCEPT !.approved = @ \cup {a}]
          BY <2>3, <3>3, <3>6, <4>1, Zenon
        <5>2. n2.s.keys = U /\ n2.s.used = n.s.used /\ n2.s.approved = n.s.approved /\ n2.s \in SignStates
          BY <1>5, <2>4, <3>3, NarrowedFacts
        <5>3. u2.s.keys = U /\ u2.s.used = u.s.used /\ u2.s.approved = u.s.approved
          BY <2>4, <5>1, <5>2 DEF SignStates
        <5> QED BY <1>5, <5>3, NarrowedFacts
      <4>2. CASE ~n.ok
        BY <2>3, <3>3, <3>6, <4>2, Zenon
      <4> QED BY <4>1, <4>2, Zenon
    <3> QED BY <3>8, <3>9, Zenon
  <2> QED BY <2>6, <2>7, Zenon DEF TalliesAgree, StatesAgree
<1>7. CASE ~asks(q)
  <2>1. u.s = q.s
    BY <1>3, <1>7, Zenon DEF AccountEffect
  <2>2. ASSUME q.s.used \subseteq U
        PROVE  (u.ok <=> u2.ok) /\ u.weight = u2.weight /\ u2.s = Narrowed(q.s, U)
    <3>2. q2.s = Narrowed(q.s, U) /\ q.weight = q2.weight /\ (q.ok <=> q2.ok)
      BY <2>2, Zenon DEF TalliesAgree, StatesAgree
    <3>3. q2.s.approved = q.s.approved
      BY <1>5, <3>2, NarrowedFacts
    <3>4. CASE q.ok \/ au.accounts[a] = 0
      <4>1. u = q /\ u2 = q2
        BY <1>3, <3>2, <3>4, Zenon DEF AccountEffect
      <4> QED BY <3>2, <4>1, Zenon
    <3>5. CASE ~q.ok /\ au.accounts[a] # 0 /\ a \in q.s.approved
      <4>1. u.weight = q.weight + au.accounts[a] /\ (u.ok <=> q.weight + au.accounts[a] >= au.threshold)
        BY <1>3, <3>5, Zenon DEF AccountEffect
      <4>2. /\ u2.s = q2.s /\ u2.weight = q2.weight + au.accounts[a]
            /\ u2.ok <=> q2.weight + au.accounts[a] >= au.threshold
        BY <1>3, <3>2, <3>3, <3>5, Zenon DEF AccountEffect
      <4> QED BY <3>2, <4>1, <4>2, Zenon
    <3>6. CASE ~q.ok /\ au.accounts[a] # 0 /\ a \notin q.s.approved /\ left = 0
      <4>1. u = q /\ u2 = q2
        BY <1>3, <3>2, <3>3, <3>6, Zenon DEF AccountEffect
      <4> QED BY <3>2, <4>1, Zenon
    <3> QED BY <1>7, <3>4, <3>5, <3>6, Zenon
  <2> QED BY <1>4, <2>1, <2>2, Zenon DEF TalliesAgree, StatesAgree
<1> QED BY <1>6, <1>7, Zenon


\* Loops over keys and accounts whose steps agree.
LEMMA TallyLoops ==
  ASSUME NEW X, NEW order \in Seq(X), NEW body \in [X -> [Tallies -> Tallies]],
         NEW O, NEW K, NEW U,
         \A x \in X, q \in Tallies, q2 \in Tallies :
           TalliesAgree(q, q2, O, K, U) => TalliesAgree(body[x][q], body[x][q2], O, K, U),
         NEW start \in Tallies, NEW start2 \in Tallies, TalliesAgree(start, start2, O, K, U)
  PROVE  /\ ForEach(order, body, start) \in Tallies /\ ForEach(order, body, start2) \in Tallies
         /\ TalliesAgree(ForEach(order, body, start), ForEach(order, body, start2), O, K, U)
<1> DEFINE R == [q \in Tallies |-> {q2 \in Tallies : TalliesAgree(q, q2, O, K, U)}]
           D == Tallies
<1>1. \A q \in D, q2 \in D : q2 \in R[q] <=> TalliesAgree(q, q2, O, K, U)
  OBVIOUS
<1>2. \A x \in X, q \in D, q2 \in D : q2 \in R[q] => body[x][q2] \in R[body[x][q]]
  <2> SUFFICES ASSUME NEW x \in X, NEW q \in D, NEW q2 \in D, q2 \in R[q]
               PROVE  body[x][q2] \in R[body[x][q]]
    OBVIOUS
  <2>1. body[x][q] \in D /\ body[x][q2] \in D
    OBVIOUS
  <2>2. TalliesAgree(body[x][q], body[x][q2], O, K, U)
    BY <1>1
  <2> HIDE DEF R
  <2> QED BY <1>1, <2>1, <2>2
<1>3. start \in D /\ start2 \in D /\ start2 \in R[start] /\ body \in [X -> [D -> D]]
  BY <1>1
<1> HIDE DEF R, D
<1>4. Related(ForEach(order, body, start), ForEach(order, body, start2), D, D, R)
  BY <1>2, <1>3, ForEachPair
<1> QED BY <1>1, <1>4 DEF D, Related

\* One level agrees with itself on fewer keys.
LEMMA LevelPair ==
  ASSUME NEW K \in SUBSET AuthKeys, NEW U \in SUBSET K,
         NEW au \in Authorities, NEW left \in Nat, NEW nested,
         LevelTyped(nested, left), LevelAgrees(nested, left, K, U),
         NEW s \in SignStates, s.keys = K, s.used \subseteq K
  PROVE  AnswersAgree(CheckLevel(au, left, nested, s),
                      CheckLevel(au, left, nested, Narrowed(s, U)), s.used, K, U)
<1> DEFINE O == s.used
           t == Narrowed(s, U)
           q0 == [ok |-> FALSE, weight |-> 0, s |-> s]
           q1 == [ok |-> FALSE, weight |-> 0, s |-> t]
           keyBody == [k \in AuthKeys |-> [r \in Tallies |-> UseKey(r, au, k)]]
           accountBody == [a \in AuthAccounts |-> [r \in Tallies |-> UseAccount(r, au, a, left, nested[a])]]
<1>1. t \in SignStates
  BY NarrowedFacts
<1>2. q0 \in Tallies /\ q1 \in Tallies /\ TalliesAgree(q0, q1, O, K, U)
  <2> HIDE DEF t
  <2>1. q0 \in Tallies /\ q1 \in Tallies
    BY <1>1 DEF Tallies
  <2>2. q0.s = s /\ q1.s = t /\ q0.weight = q1.weight /\ (q0.ok <=> q1.ok)
    OBVIOUS
  <2> HIDE DEF q0, q1
  <2> QED BY <2>1, <2>2, Zenon DEF TalliesAgree, StatesAgree, t
<1>3. keyBody \in [AuthKeys -> [Tallies -> Tallies]]
  <2>1. ASSUME NEW k \in AuthKeys, NEW r \in Tallies PROVE UseKey(r, au, k) \in Tallies
    BY UseKeyFacts
  <2> QED BY <2>1, Zenon
<1>4. accountBody \in [AuthAccounts -> [Tallies -> Tallies]]
  <2>1. ASSUME NEW a \in AuthAccounts, NEW r \in Tallies
        PROVE  UseAccount(r, au, a, left, nested[a]) \in Tallies
    <3>1. left = 0 \/ nested[a] \in [SignStates -> Answers]
      BY DEF LevelTyped
    <3> QED BY <3>1, UseAccountType, Zenon
  <2> QED BY <2>1, Zenon
<1>5. ASSUME NEW k \in AuthKeys, NEW q \in Tallies, NEW q2 \in Tallies, TalliesAgree(q, q2, O, K, U)
      PROVE  TalliesAgree(keyBody[k][q], keyBody[k][q2], O, K, U)
  <2>1. keyBody[k][q] = UseKey(q, au, k) /\ keyBody[k][q2] = UseKey(q2, au, k)
    OBVIOUS
  <2> HIDE DEF O, keyBody
  <2>2. TalliesAgree(UseKey(q, au, k), UseKey(q2, au, k), O, K, U)
    BY <1>5, UseKeyPair
  <2> QED BY <2>1, <2>2
<1>6. ASSUME NEW a \in AuthAccounts, NEW q \in Tallies, NEW q2 \in Tallies, TalliesAgree(q, q2, O, K, U)
      PROVE  TalliesAgree(accountBody[a][q], accountBody[a][q2], O, K, U)
  <2>1. /\ accountBody[a][q] = UseAccount(q, au, a, left, nested[a])
        /\ accountBody[a][q2] = UseAccount(q2, au, a, left, nested[a])
    OBVIOUS
  <2> HIDE DEF O, accountBody
  <2>2. TalliesAgree(UseAccount(q, au, a, left, nested[a]), UseAccount(q2, au, a, left, nested[a]), O, K, U)
    BY <1>6, UseAccountPair
  <2> QED BY <2>1, <2>2
<1> DEFINE m == ForEach(KeyOrder, keyBody, q0)
           m2 == ForEach(KeyOrder, keyBody, q1)
           e == ForEach(AccountOrder, accountBody, m)
           e2 == ForEach(AccountOrder, accountBody, m2)
<1>7. KeyOrder \in Seq(AuthKeys) /\ AccountOrder \in Seq(AuthAccounts)
  BY OrderFacts
<1>8. m \in Tallies /\ m2 \in Tallies /\ TalliesAgree(m, m2, O, K, U)
  <2> HIDE DEF keyBody, q0, q1, O
  <2> QED BY <1>2, <1>3, <1>5, <1>7, TallyLoops
<1>9. e \in Tallies /\ e2 \in Tallies /\ TalliesAgree(e, e2, O, K, U)
  <2> HIDE DEF accountBody, m, m2, O
  <2> QED BY <1>4, <1>6, <1>7, <1>8, TallyLoops
<1>10. /\ CheckLevel(au, left, nested, s) = [r \in Tallies |-> Reached(r, au.threshold)][e]
       /\ CheckLevel(au, left, nested, t) = [r \in Tallies |-> Reached(r, au.threshold)][e2]
  BY Zenon DEF CheckLevel, UseAccounts, UseKeys
<1> HIDE DEF e, e2, t
<1>11. /\ CheckLevel(au, left, nested, s) = Reached(e, au.threshold)
       /\ CheckLevel(au, left, nested, t) = Reached(e2, au.threshold)
  BY <1>9, <1>10
<1>12. AnswersAgree(Reached(e, au.threshold), Reached(e2, au.threshold), O, K, U)
  <2>1. \A r : Reached(r, au.threshold).s = r.s
    BY DEF Reached
  <2>2. \A r : Reached(r, au.threshold).ok <=> r.ok \/ r.weight >= au.threshold
    BY Zenon DEF Reached
  <2> QED BY <1>9, <2>1, <2>2, Zenon DEF TalliesAgree, AnswersAgree
<1> QED BY <1>11, <1>12 DEF t, O

\* Every level does.
LEMMA LevelsAgree ==
  ASSUME NEW g \in [AuthAccounts -> Authorities], NEW f, IsNested(g, MaxRecursion, f),
         NEW K \in SUBSET AuthKeys, NEW U \in SUBSET K
  PROVE  LevelAgrees(f[MaxRecursion], MaxRecursion, K, U)
<1> DEFINE T == {left \in 0..MaxRecursion : LevelAgrees(f[left], left, K, U)}
<1>0. MaxRecursion \in Nat
  BY OrderFacts
<1>1. 0 \in T
  BY <1>0 DEF LevelAgrees
<1>2. ASSUME NEW left \in 1..MaxRecursion, left - 1 \in T
      PROVE  left \in T
  <2> DEFINE m == left - 1
             below == f[m]
  <2>1. left \in 0..MaxRecursion /\ left # 0 /\ m \in Nat /\ m \in 0..MaxRecursion
    BY <1>0
  <2>2. f[left] = CheckBelow(g, m, below)
    BY <2>1 DEF IsNested
  <2>3. LevelAgrees(below, m, K, U)
    BY <1>2
  <2>4. LevelTyped(below, m)
    BY <2>1, LevelsType
  <2> HIDE DEF m, below
  <2>5. \A a \in AuthAccounts, s \in SignStates : f[left][a][s] = CheckLevel(g[a], m, below, s)
    BY <2>2 DEF CheckBelow
  <2>6. ASSUME NEW a \in AuthAccounts, NEW s \in SignStates, s.keys = K, s.used \subseteq K
        PROVE  AnswersAgree(f[left][a][s], f[left][a][Narrowed(s, U)], s.used, K, U)
    <3>1. g[a] \in Authorities /\ Narrowed(s, U) \in SignStates
      BY NarrowedFacts
    <3>2. AnswersAgree(CheckLevel(g[a], m, below, s), CheckLevel(g[a], m, below, Narrowed(s, U)), s.used, K, U)
      BY <2>1, <2>3, <2>4, <2>6, <3>1, LevelPair
    <3> QED BY <2>5, <3>1, <3>2
  <2>7. LevelAgrees(f[left], left, K, U)
    BY <2>6, Zenon DEF LevelAgrees
  <2> QED BY <2>1, <2>7
<1>3. MaxRecursion \in T
  <2> HIDE DEF T
  <2> QED BY <1>0, <1>1, <1>2, IntervalInduction, Zenon
<1> QED BY <1>3

\* check_authority agrees with itself on fewer keys.
LEMMA CheckAuthorityPair ==
  ASSUME NEW g \in [AuthAccounts -> Authorities], NEW au \in Authorities,
         NEW K \in SUBSET AuthKeys, NEW U \in SUBSET K,
         NEW s \in SignStates, s.keys = K, s.used \subseteq K
  PROVE  AnswersAgree(CheckAuthority(g, au, s), CheckAuthority(g, au, Narrowed(s, U)), s.used, K, U)
<1>1. PICK f : /\ IsNested(g, MaxRecursion, f)
               /\ \A v, t : CheckAuthority(g, v, t) = CheckLevel(v, MaxRecursion, f[MaxRecursion], t)
  BY CheckAuthorityLevels
<1> DEFINE nested == f[MaxRecursion]
<1>2. MaxRecursion \in Nat /\ MaxRecursion \in 0..MaxRecursion
  BY OrderFacts
<1>3. LevelTyped(nested, MaxRecursion)
  BY <1>1, <1>2, LevelsType
<1>4. LevelAgrees(nested, MaxRecursion, K, U)
  BY <1>1, LevelsAgree
<1> HIDE DEF nested
<1>5. AnswersAgree(CheckLevel(au, MaxRecursion, nested, s),
                   CheckLevel(au, MaxRecursion, nested, Narrowed(s, U)), s.used, K, U)
  BY <1>2, <1>3, <1>4, LevelPair
<1> QED BY <1>1, <1>5, Zenon DEF nested


\* A later origin.
LEMMA AgreeLater ==
  ASSUME NEW s, NEW t, NEW O, NEW K, NEW U, StatesAgree(s, t, O, K, U)
  PROVE  StatesAgree(s, t, s.used, K, U) /\ O \subseteq s.used
BY DEF StatesAgree

\* check_authority from states that agree.
LEMMA NextCheckAgrees ==
  ASSUME NEW g \in [AuthAccounts -> Authorities], NEW au \in Authorities,
         NEW K \in SUBSET AuthKeys, NEW U \in SUBSET K, NEW O,
         NEW s \in SignStates, NEW t \in SignStates, StatesAgree(s, t, O, K, U)
  PROVE  AnswersAgree(CheckAuthority(g, au, s), CheckAuthority(g, au, t), O, K, U)
<1> DEFINE c == CheckAuthority(g, au, s)
           d == CheckAuthority(g, au, t)
           b == CheckAuthority(g, au, Narrowed(s, U))
<1>1. s.keys = K /\ s.used \subseteq K /\ O \subseteq s.used
  BY DEF StatesAgree
<1>2. AnswersAgree(c, b, s.used, K, U)
  BY <1>1, CheckAuthorityPair
<1>3. s.used \subseteq c.s.used /\ c.s.keys = K /\ c.s.used \subseteq K
  BY <1>2, Zenon DEF AnswersAgree, StatesAgree
<1>4. s.used \subseteq U => d = b
  BY Zenon DEF StatesAgree
<1> HIDE DEF c, d, b
<1>5. O \subseteq c.s.used
  BY <1>1, <1>3
<1>6. ASSUME c.s.used \subseteq U PROVE d.s = Narrowed(c.s, U) /\ (c.ok <=> d.ok)
  <2>1. s.used \subseteq U
    BY <1>3, <1>6
  <2> QED BY <1>2, <1>4, <1>6, <2>1, Zenon DEF AnswersAgree, StatesAgree
<1>7. AnswersAgree(c, d, O, K, U)
  BY <1>3, <1>5, <1>6, Zenon DEF AnswersAgree, StatesAgree
<1> QED BY <1>7 DEF c, d

\* An owner's check from answers that agree.
LEMMA CheckOwnerPair ==
  ASSUME NEW g \in [AuthAccounts -> Authorities], NEW required, NEW a \in AuthAccounts,
         NEW K \in SUBSET AuthKeys, NEW U \in SUBSET K, NEW O,
         NEW r \in Answers, NEW r2 \in Answers, AnswersAgree(r, r2, O, K, U)
  PROVE  AnswersAgree(CheckOwner(g, g, required, r, a), CheckOwner(g, g, required, r2, a), O, K, U)
<1>1. PICK u, u2 : u = CheckOwner(g, g, required, r, a) /\ u2 = CheckOwner(g, g, required, r2, a)
  OBVIOUS
<1> SUFFICES AnswersAgree(u, u2, O, K, U)
  BY <1>1
<1> DEFINE c == CheckAuthority(g, g[a], r.s)
           c2 == CheckAuthority(g, g[a], r2.s)
<1>2. r.s \in SignStates /\ r2.s \in SignStates /\ g[a] \in Authorities
  BY DEF Answers
<1>3. StatesAgree(r.s, r2.s, O, K, U) /\ StatesAgree(r.s, r2.s, r.s.used, K, U)
  BY AgreeLater DEF AnswersAgree
<1>4. AnswersAgree(c, c2, O, K, U) /\ AnswersAgree(c, c2, r.s.used, K, U)
  BY <1>2, <1>3, NextCheckAgrees
<1> HIDE DEF c, c2
<1>5. CASE r.ok /\ a \in required
  <2>1. u = c
    BY <1>1, <1>5, Zenon DEF CheckOwner, c
  <2>2. c.s.used \subseteq U => r.s.used \subseteq U
    BY <1>4 DEF AnswersAgree, StatesAgree
  <2>3. c.s.used \subseteq U => r2.ok
    BY <1>5, <2>2, Zenon DEF AnswersAgree
  <2>4. c.s.used \subseteq U => u2 = c2
    BY <1>1, <1>5, <2>3, Zenon DEF CheckOwner, c2
  <2> QED BY <1>4, <2>1, <2>4, Zenon DEF AnswersAgree, StatesAgree
<1>6. CASE ~(r.ok /\ a \in required)
  <2>1. u = r
    BY <1>1, <1>6, Zenon DEF CheckOwner
  <2>2. r.s.used \subseteq U => u2 = r2
    <3>1. r.s.used \subseteq U => ~(r2.ok /\ a \in required)
      BY <1>6, Zenon DEF AnswersAgree
    <3> QED BY <1>1, <3>1, Zenon DEF CheckOwner
  <2> QED BY <2>1, <2>2, Zenon DEF AnswersAgree, StatesAgree
<1> QED BY <1>5, <1>6, Zenon

\* An active authority's check from answers that agree.
LEMMA CheckActivePair ==
  ASSUME NEW g \in [AuthAccounts -> Authorities], NEW required, NEW a \in AuthAccounts,
         NEW K \in SUBSET AuthKeys, NEW U \in SUBSET K, NEW O,
         NEW r \in Answers, NEW r2 \in Answers, AnswersAgree(r, r2, O, K, U)
  PROVE  AnswersAgree(CheckActive(g, g, required, r, a), CheckActive(g, g, required, r2, a), O, K, U)
<1>1. PICK u, u2 : u = CheckActive(g, g, required, r, a) /\ u2 = CheckActive(g, g, required, r2, a)
  OBVIOUS
<1> SUFFICES AnswersAgree(u, u2, O, K, U)
  BY <1>1
<1> DEFINE c == CheckAuthority(g, g[a], r.s)
           c2 == CheckAuthority(g, g[a], r2.s)
           d == CheckAuthority(g, g[a], c.s)
           d2 == CheckAuthority(g, g[a], c2.s)
           e == [ok |-> TRUE, s |-> r.s]
           e2 == [ok |-> TRUE, s |-> r2.s]
<1>2. r.s \in SignStates /\ r2.s \in SignStates /\ g[a] \in Authorities /\ U \in SUBSET AuthKeys
  BY DEF Answers
<1>3. StatesAgree(r.s, r2.s, O, K, U) /\ StatesAgree(r.s, r2.s, r.s.used, K, U)
  BY AgreeLater DEF AnswersAgree
<1>4. AnswersAgree(c, c2, O, K, U) /\ AnswersAgree(c, c2, r.s.used, K, U)
  BY <1>2, <1>3, NextCheckAgrees
<1>5. c \in Answers /\ c2 \in Answers
  BY <1>2, CheckAuthorityType
<1> HIDE DEF c, c2
<1>6. c.s \in SignStates /\ c2.s \in SignStates
  BY <1>5 DEF Answers
<1>7. StatesAgree(c.s, c2.s, O, K, U) /\ StatesAgree(c.s, c2.s, c.s.used, K, U)
  BY <1>4, AgreeLater DEF AnswersAgree
<1>8. AnswersAgree(d, d2, O, K, U) /\ AnswersAgree(d, d2, c.s.used, K, U)
  BY <1>2, <1>6, <1>7, NextCheckAgrees
<1>9. r.s.used \subseteq c.s.used /\ c.s.used \subseteq d.s.used
  BY <1>4, <1>8, Zenon DEF AnswersAgree, StatesAgree
<1>10. e.ok /\ e.s = r.s /\ e2.ok /\ e2.s = r2.s
  OBVIOUS
<1> HIDE DEF d, d2, e, e2
<1>11. r.s.used \subseteq U => (r.ok <=> r2.ok) /\ r2.s.approved = r.s.approved
  <2>1. r.s.used \subseteq U => (r.ok <=> r2.ok) /\ r2.s = Narrowed(r.s, U)
    BY <1>3, Zenon DEF AnswersAgree, StatesAgree
  <2>2. Narrowed(r.s, U).approved = r.s.approved
    BY <1>2, NarrowedFacts
  <2> QED BY <2>1, <2>2, Zenon
<1>12. CASE ~(r.ok /\ a \in required)
  <2>1. u = r
    BY <1>1, <1>12, Zenon DEF CheckActive
  <2>2. r.s.used \subseteq U => u2 = r2
    <3>1. r.s.used \subseteq U => ~(r2.ok /\ a \in required)
      BY <1>11, <1>12, Zenon
    <3> QED BY <1>1, <3>1, Zenon DEF CheckActive
  <2> QED BY <2>1, <2>2, Zenon DEF AnswersAgree, StatesAgree
<1>13. CASE r.ok /\ a \in required /\ a \in r.s.approved
  <2>1. u = e
    BY <1>1, <1>10, <1>13, Zenon DEF CheckActive, CheckAccount, OrByOwner, e
  <2>2. ASSUME r.s.used \subseteq U PROVE u2 = e2
    <3>1. r2.ok /\ a \in required /\ a \in r2.s.approved
      BY <1>11, <1>13, <2>2, Zenon
    <3> QED BY <1>1, <1>10, <3>1, Zenon DEF CheckActive, CheckAccount, OrByOwner, e2
  <2> QED BY <1>3, <1>10, <2>1, <2>2, Zenon DEF AnswersAgree, StatesAgree
<1>14. CASE r.ok /\ a \in required /\ a \notin r.s.approved
  <2>1. u = IF c.ok THEN c ELSE d
    BY <1>1, <1>14, Zenon DEF CheckActive, CheckAccount, OrByOwner, c, d
  <2>2. c.s.used \subseteq U => u2 = IF c2.ok THEN c2 ELSE d2
    <3>1. c.s.used \subseteq U => r.s.used \subseteq U
      BY <1>9
    <3>2. c.s.used \subseteq U => r2.ok /\ a \in required /\ a \notin r2.s.approved
      BY <1>11, <1>14, <3>1, Zenon
    <3> QED BY <1>1, <3>2, Zenon DEF CheckActive, CheckAccount, OrByOwner, c2, d2
  <2>3. CASE c.ok
    <3>1. u = c
      BY <2>1, <2>3, Zenon
    <3>2. c.s.used \subseteq U => u2 = c2
      BY <1>4, <2>2, <2>3, Zenon DEF AnswersAgree
    <3> QED BY <1>4, <3>1, <3>2, Zenon DEF AnswersAgree, StatesAgree
  <2>4. CASE ~c.ok
    <3>1. u = d
      BY <2>1, <2>4, Zenon
    <3>2. d.s.used \subseteq U => c.s.used \subseteq U
      BY <1>9
    <3>3. d.s.used \subseteq U => u2 = d2
      BY <1>4, <2>2, <2>4, <3>2, Zenon DEF AnswersAgree
    <3> QED BY <1>8, <3>1, <3>3, Zenon DEF AnswersAgree, StatesAgree
  <2> QED BY <2>3, <2>4, Zenon
<1> QED BY <1>12, <1>13, <1>14, Zenon

\* Loops over accounts whose steps agree.
LEMMA AnswerLoops ==
  ASSUME NEW X, NEW order \in Seq(X), NEW body \in [X -> [Answers -> Answers]],
         NEW O, NEW K, NEW U,
         \A x \in X, q \in Answers, q2 \in Answers :
           AnswersAgree(q, q2, O, K, U) => AnswersAgree(body[x][q], body[x][q2], O, K, U),
         NEW start \in Answers, NEW start2 \in Answers, AnswersAgree(start, start2, O, K, U)
  PROVE  /\ ForEach(order, body, start) \in Answers /\ ForEach(order, body, start2) \in Answers
         /\ AnswersAgree(ForEach(order, body, start), ForEach(order, body, start2), O, K, U)
<1> DEFINE R == [q \in Answers |-> {q2 \in Answers : AnswersAgree(q, q2, O, K, U)}]
           D == Answers
<1>1. \A q \in D, q2 \in D : q2 \in R[q] <=> AnswersAgree(q, q2, O, K, U)
  OBVIOUS
<1>2. \A x \in X, q \in D, q2 \in D : q2 \in R[q] => body[x][q2] \in R[body[x][q]]
  <2> SUFFICES ASSUME NEW x \in X, NEW q \in D, NEW q2 \in D, q2 \in R[q]
               PROVE  body[x][q2] \in R[body[x][q]]
    OBVIOUS
  <2>1. body[x][q] \in D /\ body[x][q2] \in D
    OBVIOUS
  <2>2. AnswersAgree(body[x][q], body[x][q2], O, K, U)
    BY <1>1
  <2> HIDE DEF R
  <2> QED BY <1>1, <2>1, <2>2
<1>3. start \in D /\ start2 \in D /\ start2 \in R[start] /\ body \in [X -> [D -> D]]
  BY <1>1
<1> HIDE DEF R, D
<1>4. Related(ForEach(order, body, start), ForEach(order, body, start2), D, D, R)
  BY <1>2, <1>3, ForEachPair
<1> QED BY <1>1, <1>4 DEF D, Related

\* The answer of verify_authority before it looks for irrelevant signatures.
VerifyAnswer(g, rq, K) ==
  CheckOwners(g, g, rq.owner, CheckActives(g, g, rq.active, [ok |-> TRUE, s |-> SignState(K, {}, {})]))

\* verify_authority agrees with itself on fewer keys.
LEMMA VerifyPair ==
  ASSUME NEW g \in [AuthAccounts -> Authorities],
         NEW rq \in [active : SUBSET AuthAccounts, owner : SUBSET AuthAccounts],
         NEW K \in SUBSET AuthKeys, NEW U \in SUBSET K
  PROVE  /\ VerifyAnswer(g, rq, K) \in Answers
         /\ AnswersAgree(VerifyAnswer(g, rq, K), VerifyAnswer(g, rq, U), {}, K, U)
<1> DEFINE O == {}
           s == SignState(K, {}, {})
           t == SignState(U, {}, {})
           q == [ok |-> TRUE, s |-> s]
           q2 == [ok |-> TRUE, s |-> t]
           activeBody == [a \in AuthAccounts |-> [r \in Answers |-> CheckActive(g, g, rq.active, r, a)]]
           ownerBody == [a \in AuthAccounts |-> [r \in Answers |-> CheckOwner(g, g, rq.owner, r, a)]]
           m == CheckActives(g, g, rq.active, q)
           m2 == CheckActives(g, g, rq.active, q2)
<1>1. s \in SignStates /\ t \in SignStates /\ StatesAgree(s, t, O, K, U)
  BY DEF SignStates, SignState, StatesAgree, Narrowed
<1> HIDE DEF s, t
<1>2. q \in Answers /\ q2 \in Answers /\ q.s = s /\ q2.s = t /\ q.ok /\ q2.ok
  BY <1>1 DEF Answers
<1> HIDE DEF q, q2
<1>3. AnswersAgree(q, q2, O, K, U)
  BY <1>1, <1>2, Zenon DEF AnswersAgree
<1>4. activeBody \in [AuthAccounts -> [Answers -> Answers]]
  <2>1. ASSUME NEW a \in AuthAccounts, NEW r \in Answers
        PROVE  CheckActive(g, g, rq.active, r, a) \in Answers
    BY CheckStepTypes
  <2> QED BY <2>1, Zenon
<1>5. ownerBody \in [AuthAccounts -> [Answers -> Answers]]
  <2>1. ASSUME NEW a \in AuthAccounts, NEW r \in Answers
        PROVE  CheckOwner(g, g, rq.owner, r, a) \in Answers
    BY CheckStepTypes
  <2> QED BY <2>1, Zenon
<1> HIDE DEF O
<1>6. ASSUME NEW a \in AuthAccounts, NEW r \in Answers, NEW r2 \in Answers, AnswersAgree(r, r2, O, K, U)
      PROVE  /\ AnswersAgree(activeBody[a][r], activeBody[a][r2], O, K, U)
             /\ AnswersAgree(ownerBody[a][r], ownerBody[a][r2], O, K, U)
  <2>1. /\ activeBody[a][r] = CheckActive(g, g, rq.active, r, a)
        /\ activeBody[a][r2] = CheckActive(g, g, rq.active, r2, a)
        /\ ownerBody[a][r] = CheckOwner(g, g, rq.owner, r, a)
        /\ ownerBody[a][r2] = CheckOwner(g, g, rq.owner, r2, a)
    OBVIOUS
  <2>2. AnswersAgree(CheckActive(g, g, rq.active, r, a), CheckActive(g, g, rq.active, r2, a), O, K, U)
    BY <1>6, CheckActivePair
  <2>3. AnswersAgree(CheckOwner(g, g, rq.owner, r, a), CheckOwner(g, g, rq.owner, r2, a), O, K, U)
    BY <1>6, CheckOwnerPair
  <2> HIDE DEF activeBody, ownerBody
  <2> QED BY <2>1, <2>2, <2>3
<1>7. AccountOrder \in Seq(AuthAccounts)
  BY OrderFacts
<1>8. m = ForEach(AccountOrder, activeBody, q) /\ m2 = ForEach(AccountOrder, activeBody, q2)
  BY DEF CheckActives
<1> HIDE DEF activeBody, m, m2
<1>9. m \in Answers /\ m2 \in Answers /\ AnswersAgree(m, m2, O, K, U)
  BY <1>2, <1>3, <1>4, <1>6, <1>7, <1>8, AnswerLoops
<1>10. /\ VerifyAnswer(g, rq, K) = ForEach(AccountOrder, ownerBody, m)
       /\ VerifyAnswer(g, rq, U) = ForEach(AccountOrder, ownerBody, m2)
  BY Zenon DEF VerifyAnswer, CheckOwners, m, m2, q, q2, s, t
<1> HIDE DEF ownerBody
<1>11. /\ ForEach(AccountOrder, ownerBody, m) \in Answers
       /\ AnswersAgree(ForEach(AccountOrder, ownerBody, m), ForEach(AccountOrder, ownerBody, m2), O, K, U)
  BY <1>5, <1>6, <1>7, <1>9, AnswerLoops
<1> QED BY <1>10, <1>11 DEF O


-----------------------------------------------------------------------------
(***************************************************************************)
(* get_required_signatures and minimize_required_signatures.               *)
(***************************************************************************)
\* What verify_authority throws follows from its answer.
LEMMA VerifyOutcome ==
  ASSUME NEW g, NEW rq, NEW K
  PROVE  /\ VerifyAuthority(g, g, rq, K, {}, {}).missing <=> ~VerifyAnswer(g, rq, K).ok
         /\ Verified(VerifyAuthority(g, g, rq, K, {}, {}))
              <=> VerifyAnswer(g, rq, K).ok /\ VerifyAnswer(g, rq, K).s.used = K
<1> DEFINE v == VerifyAuthority(g, g, rq, K, {}, {})
           c == VerifyAnswer(g, rq, K)
<1>1. rq.owner \ {} = rq.owner /\ {} \cup {} = {}
  OBVIOUS
<1>2. v = Outcome(K, c)
  BY <1>1, Zenon DEF VerifyAuthority, VerifyAnswer
<1> HIDE DEF v, c
<1>3. v.missing = ~c.ok /\ v.irrelevant = (c.ok /\ K # c.s.used)
  BY <1>2, Zenon DEF Outcome
<1>4. (v.missing <=> ~c.ok) /\ (v.irrelevant <=> c.ok /\ K # c.s.used)
  BY <1>3, Zenon
<1>5. (v.missing <=> ~c.ok) /\ (Verified(v) <=> c.ok /\ c.s.used = K)
  BY <1>4, Zenon DEF Verified
<1> QED BY <1>5 DEF v, c

\* A loop whose steps change nothing.
LEMMA IdleLoop ==
  ASSUME NEW X, NEW D, NEW start \in D, NEW order \in Seq(X),
         NEW body \in [X -> [D -> D]], \A x \in X : body[x][start] = start
  PROVE  ForEach(order, body, start) = start
<1> DEFINE P == [i \in 0..Len(order) |-> {start}]
<1>1. \A i \in 0..Len(order) : P[i] = {start}
  OBVIOUS
<1>2. Len(order) \in Nat /\ \A i \in 1..Len(order) : order[i] \in X /\ i \in 0..Len(order) /\ i - 1 \in 0..Len(order)
  OBVIOUS
<1> HIDE DEF P
<1>3. start \in P[0]
  BY <1>1, <1>2
<1>4. \A i \in 1..Len(order), r \in D : r \in P[i - 1] => body[order[i]][r] \in P[i]
  BY <1>1, <1>2
<1>5. ForEach(order, body, start) \in P[Len(order)]
  BY <1>3, <1>4, ForEachInduction
<1> QED BY <1>1, <1>2, <1>5

\* One account of get_required_signatures, while verify_authority goes on.
RequireOwner(g, required, s, a) == CheckOwner(g, g, required, [ok |-> TRUE, s |-> s], a).s
RequireActive(g, required, s, a) == CheckActive(g, g, required, [ok |-> TRUE, s |-> s], a).s

\* Both take the same step as long as verify_authority finds nothing missing.
LEMMA RequireSteps ==
  ASSUME NEW g \in [AuthAccounts -> Authorities], NEW required, NEW a \in AuthAccounts,
         NEW s \in SignStates
  PROVE  /\ RequireOwner(g, required, s, a) \in SignStates
         /\ RequireActive(g, required, s, a) \in SignStates
         /\ a \notin required => RequireOwner(g, required, s, a) = s /\ RequireActive(g, required, s, a) = s
         /\ \A r \in Answers : r.s = s =>
              /\ CheckOwner(g, g, required, r, a).ok =>
                   r.ok /\ CheckOwner(g, g, required, r, a).s = RequireOwner(g, required, s, a)
              /\ CheckActive(g, g, required, r, a).ok =>
                   r.ok /\ CheckActive(g, g, required, r, a).s = RequireActive(g, required, s, a)
<1> DEFINE e == [ok |-> TRUE, s |-> s]
<1>1. e \in Answers /\ e.ok /\ e.s = s
  BY DEF Answers
<1>2. RequireOwner(g, required, s, a) = CheckOwner(g, g, required, e, a).s
  BY DEF RequireOwner
<1>3. RequireActive(g, required, s, a) = CheckActive(g, g, required, e, a).s
  BY DEF RequireActive
<1> HIDE DEF e
<1>4. CheckOwner(g, g, required, e, a) \in Answers /\ CheckActive(g, g, required, e, a) \in Answers
  BY <1>1, CheckStepTypes
<1>5. CheckOwner(g, g, required, e, a).s \in SignStates /\ CheckActive(g, g, required, e, a).s \in SignStates
  <2>1. \A c \in Answers : c.s \in SignStates
    BY DEF Answers
  <2> QED BY <1>4, <2>1
<1>6. a \notin required => CheckOwner(g, g, required, e, a) = e /\ CheckActive(g, g, required, e, a) = e
  BY Zenon DEF CheckOwner, CheckActive
<1>7. ASSUME NEW r \in Answers, r.s = s
      PROVE  /\ CheckOwner(g, g, required, r, a).ok =>
                  r.ok /\ CheckOwner(g, g, required, r, a).s = CheckOwner(g, g, required, e, a).s
             /\ CheckActive(g, g, required, r, a).ok =>
                  r.ok /\ CheckActive(g, g, required, r, a).s = CheckActive(g, g, required, e, a).s
  <2>1. CASE ~r.ok
    BY <2>1, Zenon DEF CheckOwner, CheckActive
  <2>2. CASE r.ok /\ a \notin required
    <3>1. CheckOwner(g, g, required, r, a) = r /\ CheckActive(g, g, required, r, a) = r
      BY <2>2, Zenon DEF CheckOwner, CheckActive
    <3> QED BY <1>1, <1>6, <1>7, <2>2, <3>1, Zenon
  <2>3. CASE r.ok /\ a \in required
    <3>1. /\ CheckOwner(g, g, required, r, a) = CheckAuthority(g, g[a], s)
          /\ CheckOwner(g, g, required, e, a) = CheckAuthority(g, g[a], s)
      BY <1>1, <1>7, <2>3, Zenon DEF CheckOwner
    <3>2. /\ CheckActive(g, g, required, r, a) = OrByOwner(g, g, CheckAccount(g, a, s), a)
          /\ CheckActive(g, g, required, e, a) = OrByOwner(g, g, CheckAccount(g, a, s), a)
      BY <1>1, <1>7, <2>3, Zenon DEF CheckActive
    <3> QED BY <2>3, <3>1, <3>2, Zenon
  <2> QED BY <2>1, <2>2, <2>3, Zenon
<1> QED BY <1>1, <1>2, <1>3, <1>5, <1>6, <1>7, Zenon

\* The sign state s goes with the answer c unless c is a failure, and a
\* failure stays one.
Follows(c, s) == c.ok => s = c.s
FollowsOn(r, c, s) == (c.ok => r.ok) /\ Follows(c, s)

\* A loop of get_required_signatures and the one of verify_authority.
LEMMA FollowLoops ==
  ASSUME NEW body \in [AuthAccounts -> [Answers -> Answers]],
         NEW body2 \in [AuthAccounts -> [SignStates -> SignStates]],
         \A a \in AuthAccounts, r \in Answers :
            FollowsOn(r, body[a][r], body2[a][r.s]),
         NEW start \in Answers
  PROVE  Follows(ForEach(AccountOrder, body, start), ForEach(AccountOrder, body2, start.s))
<1> DEFINE R == [q \in Answers |-> {s \in SignStates : q.ok => s = q.s}]
           s0 == start.s
<1>1. \A q \in Answers, s \in SignStates : s \in R[q] <=> (q.ok => s = q.s)
  OBVIOUS
<1>2. s0 \in SignStates /\ s0 \in R[start]
  BY DEF Answers
<1> HIDE DEF R, s0
<1>3. ASSUME NEW a \in AuthAccounts, NEW q \in Answers, NEW s \in SignStates, s \in R[q]
      PROVE  body2[a][s] \in R[body[a][q]]
  <2>1. body2[a][s] \in SignStates /\ body[a][q] \in Answers
    OBVIOUS
  <2>2. q.ok => s = q.s
    BY <1>1, <1>3, Zenon
  <2>3. body[a][q].ok => body2[a][s] = body[a][q].s
    <3>1. FollowsOn(q, body[a][q], body2[a][q.s])
      OBVIOUS
    <3> QED BY <2>2, <3>1, Zenon DEF FollowsOn, Follows
  <2> QED BY <1>1, <2>1, <2>3, Zenon
<1>4. AccountOrder \in Seq(AuthAccounts)
  BY OrderFacts
<1>5. Related(ForEach(AccountOrder, body, start), ForEach(AccountOrder, body2, s0), Answers, SignStates, R)
  BY <1>2, <1>3, <1>4, ForEachPair
<1> QED BY <1>1, <1>5, Zenon DEF Related, Follows, s0

\* The loops of get_required_signatures leave what those of verify_authority
\* leave, unless one of these fails.
LEMMA RequireLoops ==
  ASSUME NEW g \in [AuthAccounts -> Authorities], NEW required, NEW start \in Answers
  PROVE  /\ CheckOwners(g, g, required, start).ok =>
              RequireOwners(g, g, required, start.s) = CheckOwners(g, g, required, start).s
         /\ CheckActives(g, g, required, start).ok =>
              RequireActives(g, g, required, start.s) = CheckActives(g, g, required, start).s
         /\ required = {} => /\ CheckOwners(g, g, required, start) = start
                             /\ CheckActives(g, g, required, start) = start
                             /\ RequireOwners(g, g, required, start.s) = start.s
                             /\ RequireActives(g, g, required, start.s) = start.s
<1> DEFINE ownerBody == [a \in AuthAccounts |-> [r \in Answers |-> CheckOwner(g, g, required, r, a)]]
           activeBody == [a \in AuthAccounts |-> [r \in Answers |-> CheckActive(g, g, required, r, a)]]
           ownerBody2 == [a \in AuthAccounts |-> [s \in SignStates |-> RequireOwner(g, required, s, a)]]
           activeBody2 == [a \in AuthAccounts |-> [s \in SignStates |-> RequireActive(g, required, s, a)]]
<1>0. \A r \in Answers : r.s \in SignStates
  BY DEF Answers
<1>1. ownerBody \in [AuthAccounts -> [Answers -> Answers]] /\ activeBody \in [AuthAccounts -> [Answers -> Answers]]
  <2>1. \A a \in AuthAccounts, r \in Answers :
          CheckOwner(g, g, required, r, a) \in Answers /\ CheckActive(g, g, required, r, a) \in Answers
    BY CheckStepTypes
  <2> QED BY <2>1, Zenon
<1>2. ownerBody2 \in [AuthAccounts -> [SignStates -> SignStates]] /\ activeBody2 \in [AuthAccounts -> [SignStates -> SignStates]]
  <2>1. \A a \in AuthAccounts, s \in SignStates :
          RequireOwner(g, required, s, a) \in SignStates /\ RequireActive(g, required, s, a) \in SignStates
    BY RequireSteps
  <2> QED BY <2>1, Zenon
<1>3. /\ CheckOwners(g, g, required, start) = ForEach(AccountOrder, ownerBody, start)
      /\ CheckActives(g, g, required, start) = ForEach(AccountOrder, activeBody, start)
      /\ RequireOwners(g, g, required, start.s) = ForEach(AccountOrder, ownerBody2, start.s)
      /\ RequireActives(g, g, required, start.s) = ForEach(AccountOrder, activeBody2, start.s)
  BY Zenon DEF CheckOwners, CheckActives, RequireOwners, RequireActives, RequireOwner, RequireActive
<1>4. \A a \in AuthAccounts, r \in Answers :
        /\ ownerBody[a][r] = CheckOwner(g, g, required, r, a)
        /\ activeBody[a][r] = CheckActive(g, g, required, r, a)
  OBVIOUS
<1>5. \A a \in AuthAccounts, s \in SignStates :
        /\ ownerBody2[a][s] = RequireOwner(g, required, s, a)
        /\ activeBody2[a][s] = RequireActive(g, required, s, a)
  OBVIOUS
<1> HIDE DEF ownerBody, activeBody, ownerBody2, activeBody2
<1>6. ASSUME NEW a \in AuthAccounts, NEW r \in Answers
      PROVE  /\ FollowsOn(r, ownerBody[a][r], ownerBody2[a][r.s])
             /\ FollowsOn(r, activeBody[a][r], activeBody2[a][r.s])
  <2>1. r.s \in SignStates
    BY <1>0
  <2>2. /\ CheckOwner(g, g, required, r, a).ok =>
             r.ok /\ CheckOwner(g, g, required, r, a).s = RequireOwner(g, required, r.s, a)
        /\ CheckActive(g, g, required, r, a).ok =>
             r.ok /\ CheckActive(g, g, required, r, a).s = RequireActive(g, required, r.s, a)
    BY <2>1, RequireSteps
  <2> QED BY <1>4, <1>5, <2>1, <2>2, Zenon DEF FollowsOn, Follows
<1>7. Follows(ForEach(AccountOrder, ownerBody, start), ForEach(AccountOrder, ownerBody2, start.s))
  BY <1>1, <1>2, <1>6, FollowLoops
<1>8. Follows(ForEach(AccountOrder, activeBody, start), ForEach(AccountOrder, activeBody2, start.s))
  BY <1>1, <1>2, <1>6, FollowLoops
<1>9. ASSUME required = {}
      PROVE  /\ ForEach(AccountOrder, ownerBody, start) = start
             /\ ForEach(AccountOrder, activeBody, start) = start
             /\ ForEach(AccountOrder, ownerBody2, start.s) = start.s
             /\ ForEach(AccountOrder, activeBody2, start.s) = start.s
  <2>1. AccountOrder \in Seq(AuthAccounts) /\ start.s \in SignStates
    BY <1>0, OrderFacts
  <2>2. \A a \in AuthAccounts : a \notin required
    BY <1>9
  <2>3. \A a \in AuthAccounts : ownerBody[a][start] = start /\ activeBody[a][start] = start
    BY <1>4, <2>2, Zenon DEF CheckOwner, CheckActive
  <2>4. \A a \in AuthAccounts : ownerBody2[a][start.s] = start.s /\ activeBody2[a][start.s] = start.s
    BY <1>5, <2>1, <2>2, RequireSteps
  <2>5. ForEach(AccountOrder, ownerBody, start) = start
    BY <1>1, <2>1, <2>3, IdleLoop
  <2>6. ForEach(AccountOrder, activeBody, start) = start
    BY <1>1, <2>1, <2>3, IdleLoop
  <2>7. ForEach(AccountOrder, ownerBody2, start.s) = start.s
    BY <1>2, <2>1, <2>4, IdleLoop
  <2>8. ForEach(AccountOrder, activeBody2, start.s) = start.s
    BY <1>2, <2>1, <2>4, IdleLoop
  <2> QED BY <2>5, <2>6, <2>7, <2>8
<1> QED BY <1>3, <1>7, <1>8, <1>9, Zenon DEF Follows


\* With requirements of one kind, get_required_signatures takes the steps of
\* verify_authority with all available keys.
LEMMA RequiredUsed ==
  ASSUME NEW g \in [AuthAccounts -> Authorities],
         NEW rq \in [active : SUBSET AuthAccounts, owner : SUBSET AuthAccounts],
         NEW K \in SUBSET AuthKeys, rq.active = {} \/ rq.owner = {},
         VerifyAnswer(g, rq, K).ok
  PROVE  RequiredSignatures(g, g, rq, K) = VerifyAnswer(g, rq, K).s.used
<1> DEFINE s == SignState(K, {}, {})
           start == [ok |-> TRUE, s |-> s]
           m == CheckActives(g, g, rq.active, start)
<1>1. s \in SignStates /\ SignState({}, K, {}) = s
  BY DEF SignState, SignStates
<1>2. RequiredSignatures(g, g, rq, K) =
        RequireActives(g, g, rq.active \ rq.owner, RequireOwners(g, g, rq.owner, s)).used
  BY <1>1, Zenon DEF RequiredSignatures
<1> HIDE DEF s
<1>3. start \in Answers /\ start.s = s /\ start.ok
  BY <1>1 DEF Answers
<1>4. VerifyAnswer(g, rq, K) = CheckOwners(g, g, rq.owner, m)
  BY Zenon DEF VerifyAnswer, s
<1> HIDE DEF start
<1>5. CASE rq.owner = {}
  <2>1. rq.active \ rq.owner = rq.active
    BY <1>5
  <2>2. RequireOwners(g, g, rq.owner, s) = s
    BY <1>3, <1>5, RequireLoops
  <2>3. m \in Answers
    <3> DEFINE body == [a \in AuthAccounts |-> [r \in Answers |-> CheckActive(g, g, rq.active, r, a)]]
    <3>2. \A a \in AuthAccounts, r \in Answers : CheckActive(g, g, rq.active, r, a) \in Answers
      BY CheckStepTypes
    <3>3. body \in [AuthAccounts -> [Answers -> Answers]]
      BY <3>2, Zenon
    <3>4. m = ForEach(AccountOrder, body, start)
      BY DEF CheckActives
    <3> HIDE DEF body, m
    <3>5. PICK f : /\ Passes(Answers, AccountOrder, body, start, Len(AccountOrder), f)
                   /\ ForEach(AccountOrder, body, start) = f[Len(AccountOrder)]
      BY <1>3, <3>3, OrderFacts, ForEachPasses
    <3>6. Len(AccountOrder) \in Nat
      BY OrderFacts
    <3> QED BY <3>4, <3>5, <3>6 DEF Passes
  <2>4. VerifyAnswer(g, rq, K) = m
    <3> HIDE DEF m
    <3> QED BY <1>4, <1>5, <2>3, RequireLoops
  <2>5. m.ok
    BY <2>4, Zenon
  <2>6. RequireActives(g, g, rq.active, s) = m.s
    BY <1>3, <2>5, RequireLoops
  <2> QED BY <1>2, <2>1, <2>2, <2>4, <2>6
<1>6. CASE rq.active = {}
  <2>1. rq.active \ rq.owner = {}
    BY <1>6
  <2>2. m = start
    BY <1>3, <1>6, RequireLoops
  <2> DEFINE c == CheckOwners(g, g, rq.owner, start)
  <2>3. VerifyAnswer(g, rq, K) = c
    BY <1>4, <2>2
  <2>4. RequireOwners(g, g, rq.owner, s) = c.s
    <3>1. c.ok
      BY <2>3, Zenon
    <3> QED BY <1>3, <3>1, RequireLoops
  <2>5. c \in Answers
    <3>1. VerifyAnswer(g, rq, K) \in Answers
      BY VerifyPair
    <3> QED BY <2>3, <3>1
  <2> HIDE DEF c
  <2>6. RequireActives(g, g, {}, c.s) = c.s
    BY <2>5, RequireLoops
  <2> QED BY <1>2, <2>1, <2>3, <2>4, <2>6
<1> QED BY <1>5, <1>6

\* The keys that a check used are accepted as the only signatures.
LEMMA UsedSuffice ==
  ASSUME NEW g \in [AuthAccounts -> Authorities],
         NEW rq \in [active : SUBSET AuthAccounts, owner : SUBSET AuthAccounts],
         NEW K \in SUBSET AuthKeys, VerifyAnswer(g, rq, K).ok,
         NEW U, U = VerifyAnswer(g, rq, K).s.used
  PROVE  U \in SUBSET K /\ Verified(VerifyAuthority(g, g, rq, U, {}, {}))
<1> DEFINE c == VerifyAnswer(g, rq, K)
           d == VerifyAnswer(g, rq, U)
<1>1. c \in Answers /\ AnswersAgree(c, VerifyAnswer(g, rq, K), {}, K, K)
  BY VerifyPair
<1>2. U \in SUBSET K
  <2> HIDE DEF c
  <2> QED BY <1>1 DEF AnswersAgree, StatesAgree, c
<1>3. AnswersAgree(c, d, {}, K, U)
  BY <1>2, VerifyPair
<1> HIDE DEF c, d
<1>4. c.s \in SignStates /\ U \in SUBSET AuthKeys /\ c.s.used = U
  BY <1>1, <1>2 DEF Answers, c
<1>5. d.s = Narrowed(c.s, U) /\ (c.ok <=> d.ok)
  <2>1. c.s.used \subseteq U
    BY <1>4
  <2> QED BY <1>3, <2>1, Zenon DEF AnswersAgree, StatesAgree
<1>6. d.s.used = U
  BY <1>4, <1>5, NarrowedFacts
<1>7. d.ok
  BY <1>5, Zenon DEF c
<1>8. Verified(VerifyAuthority(g, g, rq, U, {}, {}))
  BY <1>6, <1>7, VerifyOutcome, Zenon DEF d
<1> QED BY <1>2, <1>8

\* minimize_required_signatures drops a key only if the rest is accepted.
LEMMA MinimalVerified ==
  ASSUME NEW g, NEW rq, NEW K,
         RequiredSignatures(g, g, rq, K) \in SUBSET AuthKeys,
         Verified(VerifyAuthority(g, g, rq, RequiredSignatures(g, g, rq, K), {}, {}))
  PROVE  Verified(VerifyAuthority(g, g, rq, MinimalSignatures(g, g, rq, K).keys, {}, {}))
<1> DEFINE D == [throws : BOOLEAN, keys : SUBSET AuthKeys]
           body == [k \in AuthKeys |-> [r \in D |-> MinimizeKey(g, g, rq, r, k)]]
           start == [throws |-> FALSE, keys |-> RequiredSignatures(g, g, rq, K)]
           Accepted(keys) == Verified(VerifyAuthority(g, g, rq, keys, {}, {}))
           P == [i \in 0..Len(KeyOrder) |-> {r \in D : Accepted(r.keys)}]
<1>1. ASSUME NEW k \in AuthKeys, NEW r \in D
      PROVE  /\ MinimizeKey(g, g, rq, r, k) \in D
             /\ Accepted(r.keys) => Accepted(MinimizeKey(g, g, rq, r, k).keys)
  <2> DEFINE kept == DropKey(g, g, rq, r.keys, k)
             u == MinimizeKey(g, g, rq, r, k)
  <2>1. kept \in {r.keys, r.keys \ {k}} /\ (Accepted(r.keys) => Accepted(kept))
    BY Zenon DEF DropKey
  <2>2. PICK q \in BOOLEAN : q = (r.throws \/ MinimizeThrows(g, g, rq, r.keys, k))
    BY Zenon
  <2>3. u = [throws |-> q, keys |-> kept]
    BY <2>2, Zenon DEF MinimizeKey
  <2> HIDE DEF kept, u
  <2>4. kept \in SUBSET AuthKeys
    BY <2>1
  <2>5. u \in D /\ u.keys = kept
    BY <2>3, <2>4
  <2> QED BY <2>1, <2>5, Zenon DEF u
<1>2. body \in [AuthKeys -> [D -> D]]
  BY <1>1, Zenon
<1>3. start \in D /\ start.keys = RequiredSignatures(g, g, rq, K)
  OBVIOUS
<1>4. \A k \in AuthKeys, r \in D : body[k][r] = MinimizeKey(g, g, rq, r, k)
  OBVIOUS
<1>5. MinimalSignatures(g, g, rq, K) = ForEach(KeyOrder, body, start)
  BY Zenon DEF MinimalSignatures
<1>6. KeyOrder \in Seq(AuthKeys) /\ Len(KeyOrder) \in Nat
  BY OrderFacts
<1>7. \A i \in 0..Len(KeyOrder), r \in D : r \in P[i] <=> Accepted(r.keys)
  <2> HIDE DEF D, Accepted
  <2> QED OBVIOUS
<1>8. \A i \in 0..Len(KeyOrder) : \A r \in P[i] : r \in D /\ Accepted(r.keys)
  <2> HIDE DEF D, Accepted
  <2> QED OBVIOUS
<1> HIDE DEF D, body, start, P
<1>9. start \in P[0]
  BY <1>3, <1>6, <1>7
<1>10. ASSUME NEW i \in 1..Len(KeyOrder), NEW r \in D, r \in P[i - 1]
       PROVE  body[KeyOrder[i]][r] \in P[i]
  <2>1. KeyOrder[i] \in AuthKeys /\ i \in 0..Len(KeyOrder) /\ i - 1 \in 0..Len(KeyOrder)
    BY <1>6
  <2>2. Accepted(r.keys)
    BY <1>7, <1>10, <2>1, Zenon
  <2>3. MinimizeKey(g, g, rq, r, KeyOrder[i]) \in D /\ Accepted(MinimizeKey(g, g, rq, r, KeyOrder[i]).keys)
    BY <1>1, <2>1, <2>2, Zenon
  <2> QED BY <1>4, <1>7, <2>1, <2>3, Zenon
<1>11. ForEach(KeyOrder, body, start) \in P[Len(KeyOrder)]
  BY <1>2, <1>3, <1>6, <1>9, <1>10, ForEachInduction
<1>12. Accepted(ForEach(KeyOrder, body, start).keys)
  BY <1>6, <1>8, <1>11
<1> QED BY <1>5, <1>12, Zenon

\* The keys that get_required_signatures and minimize_required_signatures
\* choose are accepted by verify_authority, for transactions that require
\* only active or only owner authorities.
THEOREM MinimalIsAccepted == AuthoritySpec => []MinimalAccepted
<1>1. ASSUME RulesType PROVE MinimalAccepted
  <2> SUFFICES ASSUME req.active = {} \/ req.owner = {}, Sufficient
               PROVE  /\ Verifies(RequiredSignatures(graph, graph, req, sigs))
                      /\ Verifies(MinimalSignatures(graph, graph, req, sigs).keys)
    BY DEF MinimalAccepted
  <2>1. /\ graph \in [AuthAccounts -> Authorities]
        /\ req \in [active : SUBSET AuthAccounts, owner : SUBSET AuthAccounts]
        /\ sigs \in SUBSET AuthKeys
    BY <1>1 DEF RulesType
  <2>2. VerifyAnswer(graph, req, sigs).ok
    BY VerifyOutcome, Zenon DEF Sufficient
  <2> DEFINE U == RequiredSignatures(graph, graph, req, sigs)
  <2>3. U = VerifyAnswer(graph, req, sigs).s.used
    BY <2>1, <2>2, RequiredUsed
  <2> HIDE DEF U
  <2>4. U \in SUBSET sigs /\ Verified(VerifyAuthority(graph, graph, req, U, {}, {}))
    BY <2>1, <2>2, <2>3, UsedSuffice
  <2>5. U \in SUBSET AuthKeys
    BY <2>1, <2>4
  <2>6. Verified(VerifyAuthority(graph, graph, req, MinimalSignatures(graph, graph, req, sigs).keys, {}, {}))
    BY <2>4, <2>5, MinimalVerified DEF U
  <2> QED BY <2>4, <2>6, Zenon DEF Verifies, U
<1> QED BY <1>1, RulesTypeInvariant, PTL


-----------------------------------------------------------------------------
(***************************************************************************)
(* The numbers of a synopsis.                                              *)
(***************************************************************************)
\* One step of the loop: n, if it is wanted, and what comes after it.
HalvingNext(n, high) == n + (high - n + 2) \div 2
HalvingStep(n, high, wanted, f) ==
  (IF n \in wanted THEN <<n>> ELSE <<>>)
    \o IF n >= high THEN <<>> ELSE f[HalvingNext(n, high)]

IsHalving(low, top, high, wanted, f) ==
  f = [n \in low..top |-> HalvingStep(n, high, wanted, f)]

\* The loop goes on, and not past its end.
LEMMA HalvingGoesOn ==
  ASSUME NEW n \in Nat, NEW high \in Nat, n < high
  PROVE  HalvingNext(n, high) \in Nat /\ n < HalvingNext(n, high) /\ HalvingNext(n, high) <= high
<1>1. PICK d \in Nat : d = high - n + 2
  OBVIOUS
<1>2. d >= 3 /\ d \div 2 \in Nat /\ (d \div 2) * 2 <= d /\ d < (d \div 2) * 2 + 2
  BY <1>1, DivBounds
<1>3. d \div 2 >= 1 /\ d \div 2 <= d - 2
  BY <1>2
<1> QED BY <1>1, <1>3 DEF HalvingNext

\* The loop comes to an end.
LEMMA HalvingExists ==
  ASSUME NEW low \in Nat, NEW top \in Nat, NEW high \in Nat, low <= top, high <= top, NEW wanted
  PROVE  \E f : IsHalving(low, top, high, wanted, f)
<1> DEFINE T == {d \in 0..(top - low) : \E f : IsHalving(top - d, top, high, wanted, f)}
           m == top - low
<1>1. \A n \in 0..top : n < high => HalvingNext(n, high) \in (n + 1)..top
  BY HalvingGoesOn
<1>2. ASSUME NEW d \in 0..m, NEW h,
             \A n \in (top - d + 1)..top : h[n] = HalvingStep(n, high, wanted, h)
      PROVE  d \in T
  <2> DEFINE f == [n \in (top - d)..top |-> IF n = top - d THEN HalvingStep(n, high, wanted, h) ELSE h[n]]
  <2>1. \A n \in (top - d + 1)..top : f[n] = h[n]
    OBVIOUS
  <2>2. DOMAIN f = (top - d)..top /\ f = [n \in (top - d)..top |-> f[n]]
    OBVIOUS
  <2>3. \A n \in (top - d)..top : f[n] = HalvingStep(n, high, wanted, h)
    BY <1>2
  <2> HIDE DEF f
  <2>4. ASSUME NEW n \in (top - d)..top
        PROVE  HalvingStep(n, high, wanted, f) = HalvingStep(n, high, wanted, h)
    <3>1. n \in 0..top /\ (n < high => HalvingNext(n, high) \in (top - d + 1)..top)
      BY <1>1
    <3>2. n < high => f[HalvingNext(n, high)] = h[HalvingNext(n, high)]
      BY <2>1, <3>1
    <3>3. n < high \/ n >= high
      BY <3>1
    <3> QED BY <3>2, <3>3 DEF HalvingStep
  <2>5. IsHalving(top - d, top, high, wanted, f)
    BY <2>2, <2>3, <2>4, Zenon DEF IsHalving
  <2> QED BY <2>5
<1>3. 0 \in T
  <2>1. 0 \in 0..m /\ \A n \in (top - 0 + 1)..top : <<>>[n] = HalvingStep(n, high, wanted, <<>>)
    OBVIOUS
  <2> HIDE DEF T, m
  <2> QED BY <1>2, <2>1
<1>4. ASSUME NEW d \in 1..m, d - 1 \in T PROVE d \in T
  <2>1. PICK h : IsHalving(top - (d - 1), top, high, wanted, h)
    BY <1>4
  <2>2. top - (d - 1) = top - d + 1 /\ d \in 0..m
    OBVIOUS
  <2>3. \A n \in (top - d + 1)..top : h[n] = HalvingStep(n, high, wanted, h)
    BY <2>1, <2>2 DEF IsHalving
  <2> HIDE DEF T, m
  <2> QED BY <1>2, <2>2, <2>3
<1>5. m \in T
  <2>1. m \in Nat
    OBVIOUS
  <2> HIDE DEF T, m
  <2> QED BY <1>3, <1>4, <2>1, IntervalInduction, Zenon
<1>6. PICK f : IsHalving(top - m, top, high, wanted, f)
  BY <1>5
<1>7. top - m = low
  OBVIOUS
<1> QED BY <1>6, <1>7

\* What the loop lists from n on.
Lists(q, n, high, W, wanted) ==
  /\ q \in Seq(W)
  /\ n \in wanted => q # <<>> /\ q[1] = n
  /\ n <= high /\ high \in wanted => q # <<>> /\ q[Len(q)] = high

\* It lists wanted numbers only, from the first to the last one if wanted.
LEMMA HalvingLists ==
  ASSUME NEW low \in Nat, NEW high \in Nat, NEW wanted, NEW top, top = Max({low, high})
  PROVE  Lists(HalvingTo(low, high, wanted), low, high, wanted \cap low..top, wanted)
<1> DEFINE W == wanted \cap low..top
           from == CHOOSE f : f = [n \in low..Max({low, high}) |->
                      (IF n \in wanted THEN <<n>> ELSE <<>>)
                        \o IF n >= high THEN <<>> ELSE f[n + (high - n + 2) \div 2]]
<1>1. top \in Nat /\ low <= top /\ high <= top
  <2>1. low \in Int /\ high \in Int
    OBVIOUS
  <2>2. top \in {low, high} /\ top >= low /\ top >= high
    BY <2>1, MinMaxOfTwo
  <2> QED BY <2>2
<1>2. IsHalving(low, top, high, wanted, from)
  <2>1. PICK f : IsHalving(low, top, high, wanted, f)
    BY <1>1, HalvingExists
  <2> QED BY <2>1, Zenon DEF IsHalving, HalvingStep, HalvingNext
<1>3. HalvingTo(low, high, wanted) = from[low]
  BY Zenon DEF HalvingTo
<1> HIDE DEF from
<1>4. \A n \in low..top : from[n] = HalvingStep(n, high, wanted, from)
  BY <1>2 DEF IsHalving
<1> DEFINE T == {d \in 0..(top - low) : \A n \in (top - d)..top : Lists(from[n], n, high, W, wanted)}
           m == top - low
<1>5. ASSUME NEW n \in low..top, \A k \in (n + 1)..top : Lists(from[k], k, high, W, wanted)
      PROVE  Lists(from[n], n, high, W, wanted)
  <2> DEFINE first == IF n \in wanted THEN <<n>> ELSE <<>>
             next == HalvingNext(n, high)
             rest == IF n >= high THEN <<>> ELSE from[next]
  <2>1. from[n] = first \o rest
    BY <1>4 DEF HalvingStep
  <2>2. n < high => next \in (n + 1)..top /\ next <= high
    BY <1>1, HalvingGoesOn
  <2>3. n < high => Lists(rest, next, high, W, wanted)
    <3>1. n < high => rest = from[next]
      BY <1>1
    <3> HIDE DEF rest, next
    <3> QED BY <1>5, <2>2, <3>1
  <2>4. n >= high => rest = <<>>
    OBVIOUS
  <2>5. n \in wanted => n \in W
    OBVIOUS
  <2> HIDE DEF rest, next, W
  <2>6. rest \in Seq(W) /\ (n < high /\ high \in wanted => rest # <<>> /\ rest[Len(rest)] = high)
    <3>1. CASE n < high
      BY <2>2, <2>3, <3>1 DEF Lists
    <3>2. CASE n >= high
      BY <2>4, <3>2, <1>1
    <3> QED BY <1>1, <3>1, <3>2
  <2>7. first \in Seq(W)
    BY <2>5
  <2>8. CASE n \in wanted
    <3>1. first = <<n>> /\ Len(first) = 1
      BY <2>8
    <3> HIDE DEF first
    <3> DEFINE q == first \o rest
    <3>2. q \in Seq(W) /\ Len(q) = 1 + Len(rest) /\ Len(rest) \in Nat
      BY <2>6, <2>7, <3>1
    <3>3. q[1] = n
      BY <2>6, <2>7, <3>1, <3>2
    <3>4. q # <<>>
      BY <3>2
    <3>5. rest # <<>> => q[Len(q)] = rest[Len(rest)]
      BY <2>6, <2>7, <3>1, <3>2
    <3>6. n <= high /\ high \in wanted => q[Len(q)] = high
      <4>1. CASE n < high
        BY <2>6, <3>5, <4>1
      <4>2. CASE n >= high
        <5>1. rest = <<>>
          BY <2>4, <4>2
        <5>2. Len(q) = 1
          BY <3>2, <5>1
        <5> QED BY <1>1, <3>3, <4>2, <5>2
      <4>3. n < high \/ n >= high
        BY <1>1
      <4> QED BY <4>1, <4>2, <4>3, Zenon
    <3> HIDE DEF q
    <3>7. from[n] = q
      BY <2>1 DEF q
    <3> QED BY <3>2, <3>3, <3>4, <3>6, <3>7 DEF Lists
  <2>9. CASE n \notin wanted
    <3>1. first = <<>>
      BY <2>9
    <3>2. from[n] = rest
      BY <2>1, <2>6, <3>1
    <3>3. n <= high /\ high \in wanted => n < high
      BY <1>1, <2>9
    <3> QED BY <2>6, <2>9, <3>2, <3>3 DEF Lists
  <2> QED BY <2>8, <2>9
<1> HIDE DEF W
<1>6. 0 \in T
  <2>1. \A n \in (top - 0)..top : n = top /\ n \in low..top
    BY <1>1
  <2>2. \A k \in (top + 1)..top : Lists(from[k], k, high, W, wanted)
    BY <1>1
  <2>3. Lists(from[top], top, high, W, wanted)
    BY <1>1, <1>5, <2>2
  <2> QED BY <1>1, <2>1, <2>3
<1>7. ASSUME NEW d \in 1..m, d - 1 \in T PROVE d \in T
  <2>1. \A k \in (top - (d - 1))..top : Lists(from[k], k, high, W, wanted)
    BY <1>7
  <2> DEFINE n == top - d
  <2>2. n \in low..top /\ n + 1 = top - (d - 1) /\ d \in 0..m
    BY <1>1
  <2>3. Lists(from[n], n, high, W, wanted)
    BY <1>5, <2>1, <2>2
  <2>4. \A k \in n..top : k = n \/ k \in (n + 1)..top
    BY <1>1, <2>2
  <2>5. \A k \in n..top : Lists(from[k], k, high, W, wanted)
    BY <2>1, <2>2, <2>3, <2>4
  <2> QED BY <2>2, <2>5
<1>8. m \in T
  <2>1. m \in Nat
    BY <1>1
  <2> HIDE DEF T, m
  <2> QED BY <1>6, <1>7, <2>1, IntervalInduction, Zenon
<1>9. Lists(from[low], low, high, W, wanted)
  BY <1>1, <1>8
<1> QED BY <1>3, <1>9 DEF W


-----------------------------------------------------------------------------
(***************************************************************************)
(* Chains.                                                                 *)
(***************************************************************************)
\* A chain is a sequence of blocks with block n at position n.
LEMMA ChainFacts ==
  ASSUME NEW c \in Chains
  PROVE  /\ c \in Seq(Blocks) /\ \A n \in 1..Len(c) : num_from_id(c[n]) = n
         /\ \E path \in Paths : Len(c) <= Len(path) /\ path \in Seq(Blocks) /\ \A n \in 1..Len(c) : c[n] = path[n]
<1>1. PICK path \in Paths : c \in Prefixes(path)
  BY DEF Chains
<1>2. PICK l \in 0..Len(path) : c = SubSeq(path, 1, l)
  BY <1>1 DEF Prefixes
<1>3. path \in Seq(ToSet(path)) /\ \A n \in 1..Len(path) : num_from_id(path[n]) = n
  BY PathsAssumption
<1>4. Len(path) \in Nat /\ \A n \in 1..Len(path) : path[n] \in Blocks
  BY <1>3 DEF Blocks
<1>5. path \in Seq(Blocks)
  BY <1>3, <1>4
<1>6. c \in Seq(Blocks) /\ Len(c) = l /\ \A n \in 1..l : c[n] = path[n]
  BY <1>2, <1>4, <1>5
<1> QED BY <1>3, <1>4, <1>5, <1>6

\* The beginning of a chain is one.
LEMMA ChainPrefix ==
  ASSUME NEW c \in Chains, NEW n \in 0..Len(c)
  PROVE  \E d \in Chains : Len(d) = n /\ \A k \in 1..n : d[k] = c[k]
<1>1. PICK path \in Paths : Len(c) <= Len(path) /\ path \in Seq(Blocks) /\ \A k \in 1..Len(c) : c[k] = path[k]
  BY ChainFacts
<1>2. Len(c) \in Nat /\ Len(path) \in Nat
  BY <1>1, ChainFacts
<1> DEFINE d == SubSeq(path, 1, n)
<1>3. n \in 0..Len(path)
  BY <1>1, <1>2
<1>4. d \in Chains
  BY <1>3 DEF Chains, Prefixes
<1>5. Len(d) = n /\ \A k \in 1..n : d[k] = path[k]
  BY <1>1, <1>2, <1>3
<1> HIDE DEF d
<1>6. \A k \in 1..n : d[k] = c[k]
  BY <1>1, <1>2, <1>5
<1> QED BY <1>4, <1>5, <1>6

\* Chains that have a block in common agree up to it.
LEMMA ChainsAgree ==
  ASSUME NEW c \in Chains, NEW d \in Chains, NEW n \in 1..Len(c), n <= Len(d), c[n] = d[n]
  PROVE  \A k \in 1..n : c[k] = d[k]
<1>1. PICK p \in Paths : Len(c) <= Len(p) /\ p \in Seq(Blocks) /\ \A k \in 1..Len(c) : c[k] = p[k]
  BY ChainFacts
<1>2. PICK q \in Paths : Len(d) <= Len(q) /\ q \in Seq(Blocks) /\ \A k \in 1..Len(d) : d[k] = q[k]
  BY ChainFacts
<1>3. Len(c) \in Nat /\ Len(d) \in Nat /\ Len(p) \in Nat /\ Len(q) \in Nat
  BY <1>1, <1>2, ChainFacts
<1>4. n \in 1..Len(p) /\ n <= Len(q) /\ p[n] = q[n] /\ n \in 1..Len(d)
  BY <1>1, <1>2, <1>3
<1>5. SubSeq(p, 1, n) = SubSeq(q, 1, n)
  BY <1>4, PathsAssumption
<1>6. \A k \in 1..n : SubSeq(p, 1, n)[k] = p[k] /\ SubSeq(q, 1, n)[k] = q[k]
  BY <1>1, <1>2, <1>3, <1>4
<1> QED BY <1>1, <1>2, <1>3, <1>4, <1>5, <1>6

\* The fork point is the last block in common.
LEMMA ForkPointFacts ==
  ASSUME NEW c \in Chains, NEW d \in Chains, NEW m, m = ForkPoint(c, d)
  PROVE  /\ m \in Nat /\ m <= Len(c) /\ m <= Len(d)
         /\ \A k \in 1..m : c[k] = d[k]
         /\ \A n \in 1..Len(c) : n <= Len(d) /\ c[n] = d[n] => n <= m
<1> DEFINE T == {0} \cup {n \in 1..Len(c) : n <= Len(d) /\ c[n] = d[n]}
<1>1. Len(c) \in Nat /\ Len(d) \in Nat
  BY ChainFacts
<1>2. T \in SUBSET Nat /\ T # {} /\ \A n \in T : n <= Len(c)
  BY <1>1
<1>3. m = Max(T)
  BY DEF ForkPoint
<1>4. m \in T /\ \A n \in T : n <= m
  <2> HIDE DEF T
  <2> QED BY <1>1, <1>2, <1>3, MaxOfBounded
<1>5. m # 0 => \A k \in 1..m : c[k] = d[k]
  <2>1. m # 0 => m \in 1..Len(c) /\ m <= Len(d) /\ c[m] = d[m]
    BY <1>4
  <2> QED BY <2>1, ChainsAgree
<1> QED BY <1>1, <1>4, <1>5

\* The chain that ends with a block of c is the beginning of c.
LEMMA PathToFacts ==
  ASSUME NEW c \in Chains, NEW n \in 1..Len(c), NEW p, p = PathTo(c[n])
  PROVE  p \in Chains /\ Len(p) = n /\ \A k \in 1..n : p[k] = c[k]
<1>1. Len(c) \in Nat /\ num_from_id(c[n]) = n
  BY ChainFacts
<1>2. PICK d \in Chains : Len(d) = n /\ \A k \in 1..n : d[k] = c[k]
  BY <1>1, ChainPrefix
<1>3. Len(d) = num_from_id(c[n]) /\ (d = <<>> \/ Last(d) = c[n])
  BY <1>1, <1>2 DEF Last
<1>4. p \in Chains /\ Len(p) = num_from_id(c[n]) /\ (p = <<>> \/ Last(p) = c[n])
  <2> DEFINE Ends(q) == Len(q) = num_from_id(c[n]) /\ (q = <<>> \/ Last(q) = c[n])
  <2>1. \E q \in Chains : Ends(q)
    BY <1>3
  <2>2. p = CHOOSE q \in Chains : Ends(q)
    BY DEF PathTo
  <2> HIDE DEF Ends
  <2>3. p \in Chains /\ Ends(p)
    BY <2>1, <2>2
  <2> QED BY <2>3 DEF Ends
<1>5. Len(p) = n /\ p # <<>> /\ p[n] = c[n]
  BY <1>1, <1>4 DEF Last
<1>6. \A k \in 1..n : p[k] = c[k]
  BY <1>1, <1>4, <1>5, ChainsAgree
<1> QED BY <1>4, <1>5, <1>6


-----------------------------------------------------------------------------
(***************************************************************************)
(* The synopsis and the answer.                                            *)
(***************************************************************************)
\* Bounds of Max and Min.
LEMMA MaxWithOne ==
  ASSUME NEW n \in Nat
  PROVE  Max({1, n}) \in Nat /\ Max({1, n}) >= 1 /\ Max({1, n}) >= n /\ (Max({1, n}) = 1 \/ Max({1, n}) = n)
<1>1. PICK one \in Int : one = 1
  OBVIOUS
<1>2. n \in Int
  OBVIOUS
<1>3. Max({one, n}) \in {one, n} /\ Max({one, n}) >= one /\ Max({one, n}) >= n
  BY <1>2, MinMaxOfTwo
<1> QED BY <1>1, <1>3

\* The lesser of two numbers.
LEMMA MinOfTwo ==
  ASSUME NEW a \in Nat, NEW b \in Nat
  PROVE  Min({a, b}) \in Nat /\ Min({a, b}) <= a /\ Min({a, b}) <= b /\ (Min({a, b}) = a \/ Min({a, b}) = b)
<1>1. a \in Int /\ b \in Int
  OBVIOUS
<1>2. Min({a, b}) \in {a, b} /\ Min({a, b}) <= a /\ Min({a, b}) <= b
  BY <1>1, MinMaxOfTwo
<1> QED BY <1>2

\* The blocks of a chain at listed numbers.
LEMMA PickedFacts ==
  ASSUME NEW c \in Chains, NEW W \in SUBSET (1..Len(c)), NEW listed \in Seq(W),
         NEW q, q = [i \in 1..Len(listed) |-> c[listed[i]]]
  PROVE  /\ q \in Seq(Blocks) /\ Len(q) = Len(listed) /\ Len(q) \in Nat
         /\ \A i \in 1..Len(q) : q[i] = c[listed[i]] /\ listed[i] \in W
<1>1. c \in Seq(Blocks) /\ Len(listed) \in Nat /\ \A i \in 1..Len(listed) : listed[i] \in W
  BY ChainFacts
<1>2. \A k \in 1..Len(c) : c[k] \in Blocks
  BY <1>1
<1>3. \A i \in 1..Len(listed) : c[listed[i]] \in Blocks
  BY <1>1, <1>2
<1> QED BY <1>1, <1>3

\* s is a synopsis of the chain c from block low on.
Summary(s, c, low) ==
  /\ s \in Seq(Blocks)
  /\ \A i \in 1..Len(s) : IsIncluded(c, s[i])
  /\ low \in 1..Len(c) => s # <<>> /\ s[1] = c[low]
  /\ Len(c) = 0 => s = <<>>

\* Picking by halving summarises.
LEMMA HalvingSummary ==
  ASSUME NEW c \in Chains, NEW low \in Nat, NEW after \in Nat,
         NEW listed, listed = HalvingTo(low, Len(c) + after, 1..Len(c)),
         NEW s, s = [i \in 1..Len(listed) |-> c[listed[i]]]
  PROVE  Summary(s, c, low)
<1> DEFINE high == Len(c) + after
           wanted == 1..Len(c)
           top == Max({low, high})
           W == wanted \cap low..top
<1>1. Len(c) \in Nat /\ high \in Nat
  BY ChainFacts
<1>2. Lists(listed, low, high, W, wanted)
  <2> HIDE DEF wanted, top, high
  <2> QED BY <1>1, HalvingLists DEF top, high, wanted
<1>3. listed \in Seq(W) /\ W \in SUBSET (1..Len(c)) /\ (low \in wanted => listed # <<>> /\ listed[1] = low)
  <2> HIDE DEF high, top
  <2> QED BY <1>2 DEF Lists
<1> HIDE DEF W, high, top
<1>4. /\ s \in Seq(Blocks) /\ Len(s) = Len(listed) /\ Len(s) \in Nat
      /\ \A i \in 1..Len(s) : s[i] = c[listed[i]] /\ listed[i] \in W
  BY <1>3, PickedFacts
<1>5. ASSUME NEW i \in 1..Len(s) PROVE IsIncluded(c, s[i])
  <2>1. listed[i] \in 1..Len(c) /\ s[i] = c[listed[i]]
    BY <1>3, <1>4
  <2>2. num_from_id(s[i]) = listed[i]
    BY <2>1, ChainFacts
  <2> QED BY <2>1, <2>2 DEF IsIncluded
<1>6. low \in 1..Len(c) => s # <<>> /\ s[1] = c[low]
  BY <1>3, <1>4
<1>7. Len(c) = 0 => s = <<>>
  <2>1. ASSUME Len(c) = 0, Len(s) # 0 PROVE FALSE
    <3>1. 1 \in 1..Len(s)
      BY <1>4, <2>1
    <3>2. listed[1] \in 1..Len(c)
      BY <1>3, <1>4, <3>1
    <3> QED BY <2>1, <3>2
  <2> QED BY <1>4, <2>1
<1> QED BY <1>4, <1>5, <1>6, <1>7 DEF Summary

\* get_blockchain_synopsis without a reference point.
LEMMA WholeSynopsis ==
  ASSUME NEW c \in Chains, NEW undo \in Nat, undo <= Len(c), NEW after \in Nat,
         NEW s, s = GetBlockchainSynopsis(c, undo, ZeroId, after)
  PROVE  \E low \in Nat : /\ low >= 1 /\ low >= Len(c) - undo /\ (low = 1 \/ low = Len(c) - undo)
                          /\ Summary(s, c, low)
<1>1. Len(c) \in Nat /\ ~IsIncluded(c, ZeroId)
  BY ChainFacts DEF IsIncluded, num_from_id, ZeroId
<1> DEFINE undone == Len(c) - undo
           low == Max({1, undone})
           listed == HalvingTo(low, Len(c) + after, 1..Len(c))
<1>2. undone \in Nat
  BY <1>1
<1>3. low \in Nat /\ low >= 1 /\ low >= undone /\ (low = 1 \/ low = undone)
  BY <1>2, MaxWithOne
<1>4. s = [i \in 1..Len(listed) |-> c[listed[i]]]
  BY <1>1, Zenon DEF GetBlockchainSynopsis
<1> HIDE DEF low
<1>5. Summary(s, c, low)
  BY <1>3, <1>4, HalvingSummary
<1> QED BY <1>3, <1>5

\* s begins with one of the first n blocks of c.
BeginsWith(s, c, n) == s \in Seq(Blocks) /\ s # <<>> /\ \E low \in 1..n : s[1] = c[low]

\* get_blockchain_synopsis with block n of the chain as the reference point.
LEMMA ReferredSynopsis ==
  ASSUME NEW c \in Chains, NEW undo \in Nat, undo <= Len(c), NEW after \in Nat,
         NEW n \in 1..Len(c), NEW id, id = c[n]
  PROVE  BeginsWith(GetBlockchainSynopsis(c, undo, id, after), c, n)
<1>0. PICK s : s = GetBlockchainSynopsis(c, undo, c[n], after)
  OBVIOUS
<1>1. Len(c) \in Nat /\ num_from_id(c[n]) = n /\ IsIncluded(c, c[n]) /\ c[n] # ZeroId
  BY ChainFacts DEF IsIncluded, num_from_id, ZeroId
<1> DEFINE p == PathTo(c[n])
           undone == Len(c) - undo
           least == Min({undone, n})
           low == Max({1, least})
           listed == HalvingTo(low, n + after, 1..n)
<1>2. p \in Chains /\ Len(p) = n /\ \A k \in 1..n : p[k] = c[k]
  BY PathToFacts
<1> HIDE DEF p
<1>3. undone \in Nat
  BY <1>1
<1>4. least \in Nat /\ least <= n
  <2> HIDE DEF undone
  <2> QED BY <1>1, <1>3, MinOfTwo
<1>5. low \in 1..n
  <2> HIDE DEF least
  <2> QED BY <1>1, <1>4, MaxWithOne
<1>6. s = [i \in 1..Len(listed) |-> p[listed[i]]]
  <2>1. s = LET high == Len(p)
                lowest == Max({1, Min({Len(c) - undo, high})})
                chosen == HalvingTo(lowest, high + after, 1..high)
            IN [i \in 1..Len(chosen) |-> p[chosen[i]]]
    BY <1>0, <1>1, Zenon DEF GetBlockchainSynopsis, p
  <2> QED BY <1>2, <2>1, Zenon
<1>7. Summary(s, p, low)
  <2>1. listed = HalvingTo(low, Len(p) + after, 1..Len(p)) /\ low \in Nat
    BY <1>2, <1>5
  <2> HIDE DEF low, listed
  <2> QED BY <1>2, <1>6, <2>1, HalvingSummary
<1> HIDE DEF low
<1>8. s \in Seq(Blocks) /\ s # <<>> /\ s[1] = c[low]
  BY <1>2, <1>5, <1>7 DEF Summary
<1>9. BeginsWith(s, c, n)
  BY <1>5, <1>8, Zenon DEF BeginsWith
<1> QED BY <1>0, <1>9


\* A slice of a sequence.
LEMMA SliceFacts ==
  ASSUME NEW S, NEW s \in Seq(S), NEW a \in 1..Len(s), NEW b \in a..Len(s)
  PROVE  /\ SubSeq(s, a, b) \in Seq(S) /\ Len(SubSeq(s, a, b)) = b - a + 1
         /\ \A i \in 1..(b - a + 1) : SubSeq(s, a, b)[i] = s[a + i - 1]
OBVIOUS

\* The end of a sequence that another one is appended to.
LEMMA ConcatLast ==
  ASSUME NEW S, NEW s \in Seq(S), NEW e \in Seq(S), e # <<>>
  PROVE  s \o e \in Seq(S) /\ s \o e # <<>> /\ (s \o e)[Len(s \o e)] = e[Len(e)]
<1>1. Len(s) \in Nat /\ Len(e) \in Nat /\ Len(e) # 0
  OBVIOUS
<1>2. s \o e \in Seq(S) /\ Len(s \o e) = Len(s) + Len(e)
  OBVIOUS
<1>3. (s \o e)[Len(s) + Len(e)] = e[Len(e)]
  BY <1>1
<1> QED BY <1>1, <1>2, <1>3

\* What a peer has listed, what it is then asked with, and how that begins and ends.
ListedAfter(d, m, k) == SubSeq(d, m + 1, m + k)
AskedWith(c, undo, reference, d, m, k) ==
  CreateSynopsisForPeer(c, undo, reference, ListedAfter(d, m, k))
BeginsBy(s, m) == s \in Seq(Blocks) /\ (s = <<>> \/ num_from_id(s[1]) \in 1..m)
EndsAt(q, id) == q \in Seq(Blocks) /\ q # <<>> /\ q[Len(q)] = id

\* create_blockchain_synopsis_for_peer ends with the last id the peer offered.
LEMMA OfferedSynopsis ==
  ASSUME NEW c, NEW undo, NEW reference, NEW d \in Chains,
         NEW m \in Nat, NEW k \in Nat, k # 0, m + k <= Len(d),
         BeginsBy(GetBlockchainSynopsis(c, undo, reference, k), m)
  PROVE  EndsAt(AskedWith(c, undo, reference, d, m, k), d[m + k])
<1>a. PICK offered : offered = SubSeq(d, m + 1, m + k)
  OBVIOUS
<1>b. PICK s : s = GetBlockchainSynopsis(c, undo, reference, k)
  OBVIOUS
<1>c. PICK q : q = CreateSynopsisForPeer(c, undo, reference, offered)
  OBVIOUS
<1>d. q = AskedWith(c, undo, reference, d, m, k)
  BY <1>a, <1>c, Zenon DEF AskedWith, ListedAfter
<1>e. s \in Seq(Blocks) /\ (s = <<>> \/ num_from_id(s[1]) \in 1..m)
  BY <1>b, Zenon DEF BeginsBy
<1>1. d \in Seq(Blocks) /\ Len(d) \in Nat /\ \A n \in 1..Len(d) : num_from_id(d[n]) = n
  BY ChainFacts
<1>2. /\ offered \in Seq(Blocks) /\ Len(offered) = k /\ offered # <<>>
      /\ \A i \in 1..k : offered[i] = d[m + i]
  <2>1. m + 1 \in 1..Len(d) /\ m + k \in (m + 1)..Len(d) /\ (m + k) - (m + 1) + 1 = k
    BY <1>1
  <2>2. /\ offered \in Seq(Blocks) /\ Len(offered) = (m + k) - (m + 1) + 1
        /\ \A i \in 1..((m + k) - (m + 1) + 1) : offered[i] = d[(m + 1) + i - 1]
    <3> DEFINE a == m + 1
               b == m + k
    <3>1. a \in 1..Len(d) /\ b \in a..Len(d)
      BY <2>1
    <3> HIDE DEF a, b
    <3>2. /\ SubSeq(d, a, b) \in Seq(Blocks) /\ Len(SubSeq(d, a, b)) = b - a + 1
          /\ \A i \in 1..(b - a + 1) : SubSeq(d, a, b)[i] = d[a + i - 1]
      BY <1>1, <3>1, SliceFacts
    <3> QED BY <1>a, <3>2 DEF a, b
  <2>3. \A i \in 1..k : (m + 1) + i - 1 = m + i
    OBVIOUS
  <2> QED BY <2>1, <2>2, <2>3
<1>3. num_from_id(Head(offered)) = m + 1
  <2>1. Head(offered) = offered[1] /\ 1 \in 1..k
    BY <1>2
  <2>2. m + 1 \in 1..Len(d)
    BY <1>1
  <2> QED BY <1>1, <1>2, <2>1, <2>2
<1> DEFINE first == m + 1
           high == m + k
           low == IF s = <<>> THEN 1 ELSE num_from_id(s[1])
           top == Max({low, high})
           wanted == first..top
           added == HalvingTo(low, high, wanted)
           W == wanted \cap low..top
           e == [i \in 1..Len(added) |-> d[added[i]]]
<1>4. low \in Nat /\ low >= 1 /\ low <= high /\ high \in Nat /\ top = high
  <2>1. low \in Nat /\ low >= 1 /\ low <= high /\ high \in Nat
    BY <1>e
  <2> HIDE DEF low, high
  <2>2. low \in Int /\ high \in Int
    BY <2>1
  <2>3. top \in {low, high} /\ top >= low /\ top >= high
    BY <2>2, MinMaxOfTwo
  <2> QED BY <2>1, <2>3
<1>5. q = s \o [i \in 1..Len(added) |-> offered[added[i] - first + 1]]
  <2>1. s # <<>> => Head(s) = s[1]
    BY <1>e
  <2>2. low = IF s = <<>> THEN 1 ELSE num_from_id(Head(s))
    BY <2>1
  <2> HIDE DEF low
  <2>3. first + k - 1 = high
    OBVIOUS
  <2>4. q = LET a == HalvingTo(low, first + k - 1, first..Max({low, first + k - 1}))
            IN s \o [i \in 1..Len(a) |-> offered[a[i] - first + 1]]
    <3> DEFINE f == num_from_id(Head(offered))
               l == IF s = <<>> THEN 1 ELSE num_from_id(Head(s))
               a == HalvingTo(l, f + k - 1, f..Max({l, f + k - 1}))
    <3>1. q = s \o [i \in 1..Len(a) |-> offered[a[i] - f + 1]]
      BY <1>2, <1>b, <1>c, Zenon DEF CreateSynopsisForPeer
    <3>2. f = first /\ l = low
      BY <1>3, <2>2
    <3> QED BY <3>1, <3>2, Zenon
  <2> HIDE DEF high
  <2> QED BY <2>3, <2>4, Zenon
<1>6. Lists(added, low, high, W, wanted)
  <2> HIDE DEF low, high, wanted
  <2> QED BY <1>4, HalvingLists DEF top
<1>7. high \in wanted /\ W \in SUBSET (1..Len(d)) /\ \A n \in W : n \in first..high
  <2>1. wanted = first..high
    BY <1>4
  <2>2. high \in first..high /\ \A n \in first..high : n \in 1..Len(d)
    BY <1>1
  <2> HIDE DEF first, high, low, top, wanted
  <2> QED BY <2>1, <2>2
<1> HIDE DEF W, added, wanted, low, top
<1>8. added \in Seq(W) /\ added # <<>> /\ added[Len(added)] = high
  BY <1>4, <1>6, <1>7 DEF Lists
<1>9. /\ e \in Seq(Blocks) /\ Len(e) = Len(added) /\ Len(e) \in Nat
      /\ \A i \in 1..Len(e) : e[i] = d[added[i]] /\ added[i] \in W
  BY <1>7, <1>8, PickedFacts
<1>10. \A i \in 1..Len(added) : offered[added[i] - first + 1] = d[added[i]]
  <2> SUFFICES ASSUME NEW i \in 1..Len(added) PROVE offered[added[i] - first + 1] = d[added[i]]
    OBVIOUS
  <2>1. added[i] \in first..high
    BY <1>7, <1>9
  <2>2. added[i] - first + 1 \in 1..k /\ m + (added[i] - first + 1) = added[i]
    <3>1. \A n \in (m + 1)..(m + k) : n - (m + 1) + 1 \in 1..k /\ m + (n - (m + 1) + 1) = n
      OBVIOUS
    <3> QED BY <2>1, <3>1
  <2> HIDE DEF first
  <2> QED BY <1>2, <2>2
<1>11. q = s \o e
  <2>1. [i \in 1..Len(added) |-> offered[added[i] - first + 1]] = e
    BY <1>10, Zenon
  <2> QED BY <1>5, <2>1
<1> HIDE DEF e, high, first
<1>12. Len(e) >= 1 /\ e[Len(e)] = d[high]
  <2>1. Len(added) \in Nat /\ Len(added) # 0
    BY <1>8
  <2>2. Len(e) \in 1..Len(e)
    BY <1>9, <2>1
  <2> QED BY <1>8, <1>9, <2>1, <2>2
<1>13. e # <<>>
  BY <1>9, <1>12
<1>14. q \in Seq(Blocks) /\ q # <<>> /\ q[Len(q)] = e[Len(e)]
  <2>1. s \o e \in Seq(Blocks) /\ s \o e # <<>> /\ (s \o e)[Len(s \o e)] = e[Len(e)]
    BY <1>9, <1>13, <1>e, ConcatLast, Zenon
  <2> QED BY <1>11, <2>1, Zenon
<1> QED BY <1>12, <1>14, <1>d, Zenon DEF high, EndsAt

\* The number of the first id to answer with, and an answer that begins there.
IsStart(d, s, from) == from \in 1..Len(d) /\ from = Max({1, LastKnown(d, s)})
AnswersFrom(r, d, from) ==
  /\ r.ids \in Seq(Blocks) /\ r.ids # <<>> /\ Len(r.ids) >= 1
  /\ \A i \in 1..Len(r.ids) : num_from_id(r.ids[i]) = from + i - 1
  /\ r.ids[1] = d[from]
  /\ r.remaining = Len(d) - num_from_id(Last(r.ids))

\* The ids that follow the last known one, of which there is one.
LEMMA ServedFrom ==
  ASSUME NEW d \in Chains, NEW s, NEW limit \in Nat, limit # 0,
         ~UnreachableFork(d, s), NEW from, IsStart(d, s, from)
  PROVE  AnswersFrom(GetBlockIds(d, s, limit), d, from)
<1>0. PICK r : r = GetBlockIds(d, s, limit)
  OBVIOUS
<1>s. from \in 1..Len(d) /\ from = Max({1, LastKnown(d, s)})
  BY Zenon DEF IsStart
<1>1. d \in Seq(Blocks) /\ Len(d) \in Nat /\ \A n \in 1..Len(d) : num_from_id(d[n]) = n
  BY ChainFacts
<1> DEFINE top == Min({Len(d), from + limit - 1})
           ids == SubSeq(d, from, top)
<1>2. top \in Nat /\ top >= from /\ top <= Len(d)
  <2>1. from + limit - 1 \in Nat /\ from + limit - 1 >= from
    BY <1>1, <1>s
  <2>2. top \in Nat /\ top <= Len(d) /\ (top = Len(d) \/ top = from + limit - 1)
    BY <1>1, <2>1, MinOfTwo
  <2> QED BY <1>1, <1>s, <2>1, <2>2
<1>3. r = [ids |-> ids, remaining |-> IF ids = <<>> THEN 0 ELSE Len(d) - num_from_id(Last(ids))]
  BY <1>0, <1>s, Zenon DEF GetBlockIds
<1> HIDE DEF top
<1>4. ids \in Seq(Blocks) /\ Len(ids) = top - from + 1 /\ \A i \in 1..Len(ids) : ids[i] = d[from + i - 1]
  <2>1. top \in from..Len(d)
    BY <1>1, <1>2, <1>s
  <2>2. /\ ids \in Seq(Blocks) /\ Len(ids) = top - from + 1
        /\ \A i \in 1..(top - from + 1) : ids[i] = d[from + i - 1]
    BY <1>1, <1>s, <2>1, SliceFacts
  <2> HIDE DEF ids
  <2> QED BY <2>2
<1> HIDE DEF ids
<1>5. ids # <<>> /\ Len(ids) >= 1
  BY <1>1, <1>2, <1>s, <1>4
<1>6. r.ids = ids /\ r.remaining = Len(d) - num_from_id(Last(ids))
  BY <1>3, <1>5
<1>7. \A i \in 1..Len(ids) : num_from_id(ids[i]) = from + i - 1
  <2> SUFFICES ASSUME NEW i \in 1..Len(ids) PROVE num_from_id(ids[i]) = from + i - 1
    OBVIOUS
  <2>1. from + i - 1 \in 1..Len(d) /\ ids[i] = d[from + i - 1]
    <3>1. Len(ids) = top - from + 1 /\ ids[i] = d[from + i - 1]
      BY <1>4
    <3>2. from \in Nat /\ from >= 1 /\ i \in Nat /\ i >= 1 /\ i <= top - from + 1
      BY <1>1, <1>s, <3>1
    <3> QED BY <1>1, <1>2, <3>1, <3>2
  <2> QED BY <1>1, <2>1
<1>8. ids[1] = d[from]
  <2>1. 1 \in 1..Len(ids) /\ from + 1 - 1 = from
    BY <1>1, <1>s, <1>4, <1>5
  <2>2. ids[1] = d[from + 1 - 1]
    BY <1>4, <2>1
  <2> QED BY <2>1, <2>2
<1>9. AnswersFrom(r, d, from)
  BY <1>4, <1>5, <1>6, <1>7, <1>8, Zenon DEF AnswersFrom
<1> QED BY <1>0, <1>9

\* The last block of a synopsis that a chain has.
LEMMA LastKnownFacts ==
  ASSUME NEW d \in Chains, NEW s \in Seq(Blocks), NEW n, n = LastKnown(d, s)
  PROVE  \/ n = 0 /\ \A i \in 1..Len(s) : ~IsIncluded(d, s[i])
         \/ \E i \in 1..Len(s) : /\ IsIncluded(d, s[i]) /\ n = num_from_id(s[i])
                                 /\ \A j \in 1..Len(s) : IsIncluded(d, s[j]) => j <= i
<1> DEFINE known == {i \in 1..Len(s) : IsIncluded(d, s[i])}
<1>1. n = IF known = {} THEN 0 ELSE num_from_id(s[Max(known)])
  BY DEF LastKnown
<1>2. Len(s) \in Nat /\ known \in SUBSET Nat /\ \A i \in known : i <= Len(s)
  OBVIOUS
<1>3. CASE known = {}
  BY <1>1, <1>3
<1>4. CASE known # {}
  <2>1. Max(known) \in known /\ \A i \in known : i <= Max(known)
    <3> HIDE DEF known
    <3> QED BY <1>2, <1>4, MaxOfBounded
  <2>2. PICK i : i = Max(known)
    OBVIOUS
  <2>3. n = num_from_id(s[i])
    BY <1>1, <1>4, <2>2
  <2>4. i \in 1..Len(s) /\ IsIncluded(d, s[i]) /\ \A j \in 1..Len(s) : IsIncluded(d, s[j]) => j <= i
    BY <2>1, <2>2
  <2> QED BY <2>3, <2>4
<1> QED BY <1>3, <1>4


-----------------------------------------------------------------------------
(***************************************************************************)
(* ReplyServes.                                                            *)
(***************************************************************************)
\* Both nodes are on chains, cannot undo more than they have, and what is
\* listed follows the fork point.
ChainsInv ==
  /\ ours \in Chains /\ theirs \in Chains
  /\ undoable \in Nat /\ undoable <= Len(ours)
  /\ offers \in Nat /\ Common + offers <= Len(theirs)
  /\ offers # 0 => Common > 0 \/ ours = <<>>

\* ChainsInv is inductive.
LEMMA ChainsInvariant == SynopsisSpec => []ChainsInv
<1>1. SynopsisInit => ChainsInv
  <2> SUFFICES ASSUME SynopsisInit PROVE ChainsInv
    OBVIOUS
  <2>1. CASE <<>> \in Chains
    <3>1. Common = 0
      <4>1. Common \in Nat /\ Common <= Len(<<>>)
        BY <2>1, ForkPointFacts DEF SynopsisInit, Common
      <4> QED BY <4>1
    <3> QED BY <2>1, <3>1 DEF SynopsisInit, ChainsInv
  <2>2. <<>> \in Chains
    <3>1. PICK path \in Paths : TRUE
      BY PathsAssumption
    <3>2. path \in Seq(ToSet(path)) /\ 0 \in 0..Len(path)
      BY PathsAssumption
    <3>3. SubSeq(path, 1, 0) = <<>>
      BY <3>2
    <3>4. <<>> \in Prefixes(path)
      BY <3>2, <3>3, Zenon DEF Prefixes
    <3> QED BY <3>4 DEF Chains
  <2> QED BY <2>1, <2>2
<1>2. ChainsInv /\ [SynopsisNext]_synopsisVars => ChainsInv'
  <2> SUFFICES ASSUME ChainsInv, [SynopsisNext]_synopsisVars PROVE ChainsInv'
    OBVIOUS
  <2>1. Len(ours) \in Nat /\ Len(theirs) \in Nat
    BY ChainFacts DEF ChainsInv
  <2>2. ASSUME ours' \in Chains, theirs' \in Chains, offers' = 0
        PROVE  offers' \in Nat /\ Common' + offers' <= Len(theirs') /\ offers' = 0
    <3>1. Common' = ForkPoint(ours', theirs')
      BY DEF Common
    <3>2. Common' \in Nat /\ Common' <= Len(theirs')
      BY <2>2, <3>1, ForkPointFacts
    <3> QED BY <2>2, <3>2
  <2>3. CASE OurBlock
    <3>1. ours' \in Chains /\ Len(ours') = Len(ours) + 1 /\ theirs' = theirs /\ offers' = 0
      BY <2>3 DEF OurBlock, Longer
    <3>2. undoable' \in Nat /\ undoable' <= Len(ours) + 1
      BY <2>1, <2>3, SynopsisAssumption DEF OurBlock, ChainsInv
    <3> QED BY <2>2, <3>1, <3>2 DEF ChainsInv
  <2>4. CASE TheirBlock
    <3>1. theirs' \in Chains /\ ours' = ours /\ undoable' = undoable /\ offers' = 0
      BY <2>4 DEF TheirBlock, Longer
    <3> QED BY <2>2, <3>1 DEF ChainsInv
  <2>5. CASE TheyList
    <3>1. Common' = Common
      BY <2>5 DEF TheyList, Common
    <3>2. Common \in Nat
      BY ForkPointFacts DEF ChainsInv, Common
    <3>3. Common + offers + 1 <= Len(theirs) /\ (Common > 0 \/ ours = <<>>)
      BY <2>1, <2>5, <3>2 DEF TheyList, ChainsInv, Common
    <3> QED BY <2>5, <3>1, <3>2, <3>3 DEF TheyList, ChainsInv
  <2>6. CASE UNCHANGED synopsisVars
    <3>1. Common' = Common
      BY <2>6 DEF synopsisVars, Common
    <3> QED BY <2>6, <3>1 DEF synopsisVars, ChainsInv
  <2> QED BY <2>3, <2>4, <2>5, <2>6 DEF SynopsisNext
<1> QED BY <1>1, <1>2, PTL DEF SynopsisSpec

\* What we ask a peer with that has listed nothing.
LEMMA AskedFirst ==
  ASSUME NEW c \in Chains, NEW undo \in Nat, undo <= Len(c)
  PROVE  \E low \in Nat : /\ low >= 1 /\ low >= Len(c) - undo /\ (low = 1 \/ low = Len(c) - undo)
                          /\ Summary(CreateSynopsisForPeer(c, undo, ZeroId, <<>>), c, low)
<1>1. PICK zero \in Nat : zero = 0
  OBVIOUS
<1>2. PICK empty : empty = <<>> /\ Len(empty) = zero
  BY <1>1
<1>3. CreateSynopsisForPeer(c, undo, ZeroId, empty) = GetBlockchainSynopsis(c, undo, ZeroId, zero)
  BY <1>2, Zenon DEF CreateSynopsisForPeer
<1>4. PICK s : s = GetBlockchainSynopsis(c, undo, ZeroId, zero)
  OBVIOUS
<1>5. \E low \in Nat : /\ low >= 1 /\ low >= Len(c) - undo /\ (low = 1 \/ low = Len(c) - undo)
                       /\ Summary(s, c, low)
  BY <1>4, WholeSynopsis
<1> QED BY <1>2, <1>3, <1>4, <1>5, Zenon

\* The synopsis that the listed ids complete begins at or before the fork point.
LEMMA ReferredBegins ==
  ASSUME NEW c \in Chains, NEW undo \in Nat, undo <= Len(c), NEW m \in 1..Len(c), NEW k \in Nat
  PROVE  BeginsBy(GetBlockchainSynopsis(c, undo, c[m], k), m)
<1>1. PICK s : s = GetBlockchainSynopsis(c, undo, c[m], k)
  OBVIOUS
<1>2. PICK low \in 1..m : s \in Seq(Blocks) /\ s # <<>> /\ s[1] = c[low]
  <2>1. PICK id : id = c[m]
    OBVIOUS
  <2>2. BeginsWith(GetBlockchainSynopsis(c, undo, id, k), c, m)
    BY <2>1, ReferredSynopsis
  <2>3. BeginsWith(s, c, m)
    BY <1>1, <2>1, <2>2
  <2> QED BY <2>3, Zenon DEF BeginsWith
<1>3. Len(c) \in Nat
  BY ChainFacts
<1>4. low \in 1..Len(c)
  BY <1>3
<1>5. num_from_id(c[low]) = low
  BY <1>4, ChainFacts
<1>6. BeginsBy(s, m)
  BY <1>2, <1>5 DEF BeginsBy
<1> QED BY <1>1, <1>6

\* A node without blocks has nothing to begin with.
LEMMA EmptyBegins ==
  ASSUME NEW c \in Chains, Len(c) = 0, NEW undo \in Nat, undo <= Len(c), NEW m, NEW k \in Nat
  PROVE  BeginsBy(GetBlockchainSynopsis(c, undo, ZeroId, k), m)
<1>1. PICK s : s = GetBlockchainSynopsis(c, undo, ZeroId, k)
  OBVIOUS
<1>2. PICK low \in Nat : Summary(s, c, low)
  BY <1>1, WholeSynopsis
<1>3. BeginsBy(s, m)
  BY <1>2 DEF BeginsBy, Summary
<1> QED BY <1>1, <1>3

\* What we ask a peer with.
LEMMA AskedFacts ==
  ASSUME ChainsInv
  PROVE  /\ offers # 0 => EndsAt(Asked, theirs[Common + offers])
         /\ offers = 0 => \E low \in Nat : /\ low >= 1 /\ low >= Len(ours) - undoable
                                           /\ low = 1 \/ low = Len(ours) - undoable
                                           /\ Summary(Asked, ours, low)
<1>1. PICK c \in Chains : c = ours
  BY DEF ChainsInv
<1>2. PICK d \in Chains : d = theirs
  BY DEF ChainsInv
<1>3. PICK m : m = Common
  OBVIOUS
<1>4. PICK k \in Nat : k = offers
  BY DEF ChainsInv
<1>5. PICK undo \in Nat : undo = undoable
  BY DEF ChainsInv
<1>6. undo <= Len(c) /\ m + k <= Len(d) /\ (k # 0 => m > 0 \/ c = <<>>)
  BY <1>1, <1>2, <1>3, <1>4, <1>5 DEF ChainsInv
<1>7. m \in Nat /\ m <= Len(c)
  BY <1>1, <1>2, <1>3, ForkPointFacts DEF Common
<1>8. Len(c) \in Nat /\ Len(d) \in Nat /\ d \in Seq(Blocks)
  BY ChainFacts
<1>9. PICK reference : reference = Seen
  OBVIOUS
<1>10. Asked = AskedWith(c, undo, reference, d, m, k)
  BY <1>1, <1>2, <1>3, <1>4, <1>5, <1>9, Zenon DEF Asked, AskedWith, ListedAfter
<1>11. ASSUME k = 0
       PROVE  \E low \in Nat : /\ low >= 1 /\ low >= Len(c) - undo /\ (low = 1 \/ low = Len(c) - undo)
                               /\ Summary(Asked, c, low)
  <2>1. ListedAfter(d, m, k) = <<>>
    <3>1. m + k < m + 1 /\ m + 1 \in Int /\ m + k \in Int
      BY <1>7, <1>11
    <3> QED BY <1>8, <3>1 DEF ListedAfter
  <2>2. reference = ZeroId
    BY <1>4, <1>9, <1>11 DEF Seen
  <2>3. Asked = CreateSynopsisForPeer(c, undo, ZeroId, <<>>)
    BY <1>10, <2>1, <2>2, Zenon DEF AskedWith
  <2>4. \E low \in Nat : /\ low >= 1 /\ low >= Len(c) - undo /\ (low = 1 \/ low = Len(c) - undo)
                         /\ Summary(CreateSynopsisForPeer(c, undo, ZeroId, <<>>), c, low)
    BY <1>6, AskedFirst
  <2> QED BY <2>3, <2>4, Zenon
<1>12. ASSUME k # 0
       PROVE  EndsAt(Asked, d[m + k])
  <2>1. BeginsBy(GetBlockchainSynopsis(c, undo, reference, k), m)
    <3>1. CASE m > 0
      <4>1. reference = c[m] /\ m \in 1..Len(c)
        BY <1>1, <1>3, <1>4, <1>7, <1>8, <1>9, <1>12, <3>1 DEF Seen
      <4>2. BeginsBy(GetBlockchainSynopsis(c, undo, c[m], k), m)
        BY <1>6, <4>1, ReferredBegins
      <4> QED BY <4>1, <4>2
    <3>2. CASE m = 0
      <4>1. reference = ZeroId
        BY <1>3, <1>9, <3>2 DEF Seen
      <4>2. Len(c) = 0
        BY <1>6, <1>12, <3>2
      <4>3. BeginsBy(GetBlockchainSynopsis(c, undo, ZeroId, k), m)
        BY <1>6, <4>2, EmptyBegins
      <4> QED BY <4>1, <4>3
    <3> QED BY <1>7, <3>1, <3>2
  <2>2. EndsAt(AskedWith(c, undo, reference, d, m, k), d[m + k])
    BY <1>6, <1>7, <1>12, <2>1, OfferedSynopsis
  <2> QED BY <1>10, <2>2
<1>13. offers # 0 => EndsAt(Asked, theirs[Common + offers])
  BY <1>2, <1>3, <1>4, <1>12
<1>14. offers = 0 => \E low \in Nat : /\ low >= 1 /\ low >= Len(ours) - undoable
                                      /\ low = 1 \/ low = Len(ours) - undoable
                                      /\ Summary(Asked, ours, low)
  BY <1>1, <1>4, <1>5, <1>11, Zenon
<1> QED BY <1>13, <1>14


\* Where the answer to a synopsis begins: with the last known block, or with block 1.
StartsAt(d, s, from) ==
  /\ from \in 1..Len(d) /\ from = Max({1, LastKnown(d, s)})
  /\ \/ s = <<>> /\ from = 1
     \/ \E i \in 1..Len(s) : /\ IsIncluded(d, s[i]) /\ from = num_from_id(s[i]) /\ s[i] = d[from]
                             /\ \A j \in 1..Len(s) : IsIncluded(d, s[j]) => j <= i

\* It begins somewhere unless nothing is in common.
LEMMA StartExists ==
  ASSUME NEW d \in Chains, Len(d) > 0, NEW s \in Seq(Blocks), ~UnreachableFork(d, s)
  PROVE  \E from : StartsAt(d, s, from)
<1>1. Len(d) \in Nat /\ Len(s) \in Nat
  BY ChainFacts
<1>2. PICK n : n = LastKnown(d, s)
  OBVIOUS
<1>3. CASE n = 0 /\ \A i \in 1..Len(s) : ~IsIncluded(d, s[i])
  <2>1. s = <<>>
    BY <1>3 DEF UnreachableFork
  <2>2. Max({1, n}) = 1
    <3>1. n \in Nat
      BY <1>3
    <3> QED BY <1>3, <3>1, MaxWithOne
  <2>3. 1 \in 1..Len(d)
    BY <1>1
  <2> QED BY <1>2, <2>1, <2>2, <2>3, Zenon DEF StartsAt
<1>4. ASSUME NEW i \in 1..Len(s), IsIncluded(d, s[i]), n = num_from_id(s[i]),
             \A j \in 1..Len(s) : IsIncluded(d, s[j]) => j <= i
      PROVE  StartsAt(d, s, n)
  <2>1. n \in 1..Len(d) /\ d[n] = s[i]
    BY <1>4 DEF IsIncluded
  <2>2. Max({1, n}) = n
    <3>1. n \in Nat /\ n >= 1
      BY <1>1, <2>1
    <3> QED BY <3>1, MaxWithOne
  <2> QED BY <1>2, <1>4, <2>1, <2>2, Zenon DEF StartsAt
<1> QED BY <1>2, <1>3, <1>4, LastKnownFacts

\* The answer holds ids from a block on, and tells how many it leaves out.
Serves(d, r, from) ==
  /\ r.ids # <<>> /\ num_from_id(Head(r.ids)) = from
  /\ r.remaining = Len(d) - num_from_id(Last(r.ids))

\* A known start is served, and accepted.
LEMMA StartServed ==
  ASSUME NEW d \in Chains, NEW s \in Seq(Blocks), NEW limit \in Nat, limit # 0,
         ~UnreachableFork(d, s), NEW from, StartsAt(d, s, from),
         NEW r, r = GetBlockIds(d, s, limit)
  PROVE  Serves(d, r, from) /\ ValidReply(s, r.ids)
<1>1. from \in 1..Len(d) /\ from = Max({1, LastKnown(d, s)})
  BY DEF StartsAt
<1>2. Len(d) \in Nat /\ Len(s) \in Nat
  BY ChainFacts
<1>3. /\ r.ids \in Seq(Blocks) /\ r.ids # <<>> /\ Len(r.ids) >= 1
      /\ \A i \in 1..Len(r.ids) : num_from_id(r.ids[i]) = from + i - 1
      /\ r.ids[1] = d[from]
      /\ r.remaining = Len(d) - num_from_id(Last(r.ids))
  <2>1. IsStart(d, s, from)
    BY <1>1, Zenon DEF IsStart
  <2>2. AnswersFrom(GetBlockIds(d, s, limit), d, from)
    BY <2>1, ServedFrom
  <2> QED BY <2>2, Zenon DEF AnswersFrom
<1>4. PICK ids \in Seq(Blocks) : ids = r.ids
  BY <1>3
<1>5. Len(ids) \in Nat /\ Len(ids) >= 1 /\ from \in Nat
  BY <1>1, <1>2, <1>3, <1>4
<1>6. \A i \in 1..Len(ids) : num_from_id(ids[i]) = from + i - 1
  BY <1>3, <1>4
<1>7. num_from_id(ids[1]) = from
  <2>1. 1 \in 1..Len(ids) /\ from + 1 - 1 = from
    BY <1>5
  <2> QED BY <1>6, <2>1
<1>8. Head(ids) = ids[1]
  BY <1>5
<1>9. Serves(d, r, from)
  BY <1>3, <1>4, <1>7, <1>8, Zenon DEF Serves
<1>10. \A i \in 2..Len(ids) : num_from_id(ids[i]) = num_from_id(ids[1]) + i - 1
  <2>1. \A i \in 2..Len(ids) : i \in 1..Len(ids)
    BY <1>5
  <2> QED BY <1>6, <1>7, <2>1
<1>11. IF s = <<>> THEN num_from_id(ids[1]) = 1 ELSE Contains(s, ids[1])
  <2>1. CASE s = <<>>
    <3>1. ~\E i \in 1..Len(s) : TRUE
      BY <2>1
    <3>2. from = 1
      BY <3>1, Zenon DEF StartsAt
    <3> QED BY <1>7, <2>1, <3>2
  <2>2. CASE s # <<>>
    <3>1. PICK i \in 1..Len(s) : s[i] = d[from]
      BY <2>2, Zenon DEF StartsAt
    <3>2. s[i] = ids[1]
      BY <1>3, <1>4, <3>1, Zenon
    <3> QED BY <2>2, <3>2, Zenon DEF Contains
  <2> QED BY <2>1, <2>2
<1>12. ValidReply(s, ids)
  BY <1>10, <1>11, Zenon DEF ValidReply
<1> QED BY <1>4, <1>9, <1>12

\* Without blocks, or with nothing in common, no ids are answered.
LEMMA NothingServed ==
  ASSUME NEW d \in Chains, NEW s \in Seq(Blocks), NEW limit \in Nat, limit # 0,
         Len(d) = 0 \/ UnreachableFork(d, s), NEW r, r = GetBlockIds(d, s, limit)
  PROVE  r.ids = <<>>
<1>1. CASE UnreachableFork(d, s)
  <2>1. r = [ids |-> <<>>, remaining |-> 0]
    BY <1>1, Zenon DEF GetBlockIds
  <2> QED BY <2>1
<1>2. CASE Len(d) = 0
  <2>1. ~UnreachableFork(d, s) /\ d \in Seq(Blocks)
    BY <1>2, ChainFacts DEF UnreachableFork
  <2>2. \A i \in 1..Len(s) : ~IsIncluded(d, s[i])
    BY <1>2 DEF IsIncluded
  <2>3. LastKnown(d, s) = 0
    BY <2>2, Zenon DEF LastKnown
  <2> DEFINE from == Max({1, LastKnown(d, s)})
             top == Min({Len(d), from + limit - 1})
             ids == SubSeq(d, from, top)
  <2>4. from = 1
    <3>1. PICK n \in Nat : n = LastKnown(d, s)
      BY <2>3
    <3>2. Max({1, n}) = 1
      BY <2>3, <3>1, MaxWithOne
    <3> QED BY <3>1, <3>2, Zenon
  <2>5. top = 0
    <3>1. from + limit - 1 \in Nat /\ Len(d) \in Nat
      BY <1>2, <2>4
    <3> HIDE DEF from
    <3>2. top \in Nat /\ top <= Len(d)
      BY <3>1, MinOfTwo
    <3> QED BY <1>2, <3>2
  <2>6. r = [ids |-> ids, remaining |-> IF ids = <<>> THEN 0 ELSE Len(d) - num_from_id(Last(ids))]
    BY <2>1, Zenon DEF GetBlockIds
  <2> HIDE DEF from, top
  <2>7. ids = <<>>
    BY <2>1, <2>4, <2>5
  <2> HIDE DEF ids
  <2> QED BY <2>6, <2>7
<1> QED BY <1>1, <1>2

\* Whatever synopsis it answers, a node's answer is accepted.
LEMMA AnswerAccepted ==
  ASSUME NEW d \in Chains, NEW s \in Seq(Blocks), NEW limit \in Nat, limit # 0,
         NEW r, r = GetBlockIds(d, s, limit)
  PROVE  ValidReply(s, r.ids)
<1>1. CASE Len(d) = 0 \/ UnreachableFork(d, s)
  <2>1. r.ids = <<>>
    BY <1>1, NothingServed
  <2> QED BY <2>1 DEF ValidReply
<1>2. CASE ~(Len(d) = 0 \/ UnreachableFork(d, s))
  <2>1. Len(d) > 0
    BY <1>2, ChainFacts
  <2>2. PICK from : StartsAt(d, s, from)
    BY <1>2, <2>1, StartExists
  <2> QED BY <1>2, <2>2, StartServed
<1> QED BY <1>1, <1>2


\* If the peer listed blocks, its answer begins with the last of them.
LEMMA StartOfListed ==
  ASSUME NEW d \in Chains, NEW n \in 1..Len(d), NEW s, EndsAt(s, d[n])
  PROVE  ~UnreachableFork(d, s) /\ \A from : StartsAt(d, s, from) => from = n
<1>1. Len(d) \in Nat /\ num_from_id(d[n]) = n
  BY ChainFacts
<1>2. s \in Seq(Blocks) /\ s # <<>> /\ s[Len(s)] = d[n]
  BY Zenon DEF EndsAt
<1>3. Len(s) \in Nat /\ Len(s) \in 1..Len(s)
  BY <1>2
<1>4. IsIncluded(d, s[Len(s)])
  BY <1>1, <1>2 DEF IsIncluded
<1>5. ~UnreachableFork(d, s)
  BY <1>3, <1>4, Zenon DEF UnreachableFork
<1>6. ASSUME NEW from, StartsAt(d, s, from) PROVE from = n
  <2>1. PICK i \in 1..Len(s) : /\ from = num_from_id(s[i])
                               /\ \A j \in 1..Len(s) : IsIncluded(d, s[j]) => j <= i
    BY <1>2, <1>6, Zenon DEF StartsAt
  <2>2. Len(s) <= i
    BY <1>3, <1>4, <2>1, Zenon
  <2>3. i = Len(s)
    BY <1>3, <2>2
  <2> QED BY <1>1, <1>2, <2>1, <2>3, Zenon
<1> QED BY <1>5, <1>6

\* If it listed none and the synopsis begins with a block in common, the
\* answer begins with one.
LEMMA StartInCommon ==
  ASSUME NEW c \in Chains, NEW d \in Chains, NEW m, m = ForkPoint(c, d),
         NEW low \in 1..m, NEW s, Summary(s, c, low)
  PROVE  ~UnreachableFork(d, s) /\ \A from : StartsAt(d, s, from) => from \in 1..m
<1>1. Len(c) \in Nat /\ Len(d) \in Nat /\ \A k \in 1..Len(d) : num_from_id(d[k]) = k
  BY ChainFacts
<1>2. /\ m \in Nat /\ m <= Len(c) /\ m <= Len(d) /\ \A k \in 1..m : c[k] = d[k]
      /\ \A k \in 1..Len(c) : k <= Len(d) /\ c[k] = d[k] => k <= m
  BY ForkPointFacts
<1>3. low \in 1..Len(c) /\ low \in 1..Len(d) /\ c[low] = d[low]
  BY <1>1, <1>2
<1>4. s \in Seq(Blocks) /\ s # <<>> /\ s[1] = c[low] /\ \A i \in 1..Len(s) : IsIncluded(c, s[i])
  BY <1>3, Zenon DEF Summary
<1>5. 1 \in 1..Len(s)
  BY <1>4
<1>6. IsIncluded(d, s[1])
  BY <1>1, <1>3, <1>4 DEF IsIncluded
<1>7. ~UnreachableFork(d, s)
  BY <1>5, <1>6, Zenon DEF UnreachableFork
<1>8. ASSUME NEW from, StartsAt(d, s, from) PROVE from \in 1..m
  <2>1. PICK i \in 1..Len(s) : from = num_from_id(s[i]) /\ s[i] = d[from]
    BY <1>4, <1>8, Zenon DEF StartsAt
  <2>2. from \in 1..Len(d)
    BY <1>8, Zenon DEF StartsAt
  <2>3. from \in 1..Len(c) /\ c[from] = s[i]
    BY <1>4, <2>1, Zenon DEF IsIncluded
  <2>4. from <= Len(d) /\ c[from] = d[from]
    BY <1>1, <2>1, <2>2, <2>3
  <2>5. from <= m
    BY <1>2, <2>3, <2>4, Zenon
  <2> QED BY <1>1, <1>2, <2>3, <2>5
<1> QED BY <1>7, <1>8

\* A synopsis without ids is answered from block 1 on.
LEMMA StartOfAll ==
  ASSUME NEW d, NEW s, s = <<>>
  PROVE  ~UnreachableFork(d, s) /\ \A from : StartsAt(d, s, from) => from = 1
<1>1. ~UnreachableFork(d, s)
  BY Zenon DEF UnreachableFork
<1>2. ~\E i \in 1..Len(s) : TRUE
  OBVIOUS
<1> QED BY <1>1, <1>2, Zenon DEF StartsAt

\* The synopsis is one, whatever the peer listed.
LEMMA AskedIsSynopsis ==
  ASSUME ChainsInv
  PROVE  Asked \in Seq(Blocks)
<1>1. CASE offers = 0
  BY <1>1, AskedFacts, Zenon DEF Summary
<1>2. CASE offers # 0
  BY <1>2, AskedFacts, Zenon DEF EndsAt
<1> QED BY <1>1, <1>2

\* The start of an answer to what we asked.
LEMMA StartOfAsked ==
  ASSUME ChainsInv, Reachable, Len(theirs) > 0, Common > 0 \/ ours = <<>>
  PROVE  /\ ~UnreachableFork(theirs, Asked)
         /\ \A from : StartsAt(theirs, Asked, from) =>
              /\ from \in {1} \cup 1..(Common + offers)
              /\ offers > 0 => from = Common + offers
<1>1. ours \in Chains /\ theirs \in Chains /\ undoable \in Nat /\ offers \in Nat /\ Common + offers <= Len(theirs)
  BY DEF ChainsInv
<1>2. Common \in Nat /\ Common <= Len(ours)
  BY <1>1, ForkPointFacts DEF Common
<1>3. Len(ours) \in Nat /\ Len(theirs) \in Nat
  BY <1>1, ChainFacts
<1>4. CASE offers # 0
  <2>1. PICK n : n = Common + offers
    OBVIOUS
  <2>2. n \in 1..Len(theirs) /\ n \in 1..(Common + offers)
    BY <1>1, <1>2, <1>3, <1>4, <2>1
  <2>3. EndsAt(Asked, theirs[n])
    BY <1>4, <2>1, AskedFacts, Zenon
  <2>4. ~UnreachableFork(theirs, Asked) /\ \A from : StartsAt(theirs, Asked, from) => from = n
    BY <1>1, <2>2, <2>3, StartOfListed
  <2> QED BY <2>1, <2>2, <2>4, Zenon
<1>5. CASE offers = 0
  <2>1. PICK low \in Nat : /\ low >= 1 /\ low >= Len(ours) - undoable
                           /\ low = 1 \/ low = Len(ours) - undoable
                           /\ Summary(Asked, ours, low)
    BY <1>5, AskedFacts, Zenon
  <2>2. ~(offers > 0)
    BY <1>5
  <2>3. CASE ours = <<>>
    <3>1. Asked = <<>>
      <4>1. Len(ours) = 0
        BY <2>3
      <4> QED BY <2>1, <4>1, Zenon DEF Summary
    <3>2. ~UnreachableFork(theirs, Asked) /\ \A from : StartsAt(theirs, Asked, from) => from = 1
      BY <3>1, StartOfAll
    <3> QED BY <2>2, <3>2, Zenon
  <2>4. CASE Common > 0
    <3>1. low \in 1..Common
      BY <1>2, <1>3, <2>1, <2>4 DEF Reachable
    <3>2. PICK m : m = Common /\ m = ForkPoint(ours, theirs)
      BY DEF Common
    <3>3. ~UnreachableFork(theirs, Asked) /\ \A from : StartsAt(theirs, Asked, from) => from \in 1..m
      BY <1>1, <2>1, <3>1, <3>2, StartInCommon
    <3>4. Common + offers = Common
      BY <1>2, <1>5
    <3>5. \A from : StartsAt(theirs, Asked, from) => from \in 1..(Common + offers)
      BY <3>2, <3>3, <3>4, Zenon
    <3> QED BY <2>2, <3>3, <3>5, Zenon
  <2> QED BY <2>3, <2>4
<1> QED BY <1>4, <1>5

(***************************************************************************)
(* A node that answers a synopsis from its chain is not disconnected for   *)
(* an invalid response, and its answer leaves out no block that the one    *)
(* who asked lacks (application_impl::get_block_ids and                    *)
(* node_impl::on_blockchain_item_ids_inventory_message).                   *)
(***************************************************************************)
THEOREM RepliesServe == SynopsisSpec => []ReplyServes
<1>1. ASSUME ChainsInv PROVE ReplyServes
  <2>1. ours \in Chains /\ theirs \in Chains /\ Asked \in Seq(Blocks)
    BY <1>1, AskedIsSynopsis DEF ChainsInv
  <2>2. PICK d \in Chains : d = theirs
    BY <2>1
  <2>3. PICK s \in Seq(Blocks) : s = Asked
    BY <2>1
  <2>4. PICK limit \in Nat : limit # 0 /\ limit = Limit
    BY SynopsisAssumption
  <2>5. PICK r : r = GetBlockIds(d, s, limit)
    OBVIOUS
  <2>6. r = Reply
    BY <2>2, <2>3, <2>4, <2>5, Zenon DEF Reply
  <2>7. ReplyAccepted
    <3>1. ValidReply(s, r.ids)
      BY <2>4, <2>5, AnswerAccepted
    <3> QED BY <2>3, <2>6, <3>1, Zenon DEF ReplyAccepted
  <2>8. NothingSkipped
    <3> SUFFICES ASSUME Reachable, Len(theirs) > 0, Common > 0 \/ ours = <<>>
                 PROVE  /\ Reply.ids # <<>>
                        /\ num_from_id(Head(Reply.ids)) \in {1} \cup 1..(Common + offers)
                        /\ offers > 0 => num_from_id(Head(Reply.ids)) = Common + offers
                        /\ Reply.remaining = Len(theirs) - num_from_id(Last(Reply.ids))
      BY Zenon DEF NothingSkipped
    <3>1. /\ ~UnreachableFork(d, s)
          /\ \A from : StartsAt(d, s, from) =>
               /\ from \in {1} \cup 1..(Common + offers)
               /\ offers > 0 => from = Common + offers
      BY <1>1, <2>2, <2>3, StartOfAsked, Zenon
    <3>2. Len(d) > 0
      BY <2>2
    <3>3. PICK from : StartsAt(d, s, from)
      BY <3>1, <3>2, StartExists
    <3>4. Serves(d, r, from)
      BY <2>4, <2>5, <3>1, <3>3, StartServed
    <3>5. from \in {1} \cup 1..(Common + offers) /\ (offers > 0 => from = Common + offers)
      BY <3>1, <3>3, Zenon
    <3>6. /\ Reply.ids # <<>> /\ num_from_id(Head(Reply.ids)) = from
          /\ Reply.remaining = Len(theirs) - num_from_id(Last(Reply.ids))
      BY <2>2, <2>6, <3>4, Zenon DEF Serves
    <3> QED BY <3>5, <3>6, Zenon
  <2> QED BY <2>7, <2>8 DEF ReplyServes
<1> QED BY <1>1, ChainsInvariant, PTL
=============================================================================
