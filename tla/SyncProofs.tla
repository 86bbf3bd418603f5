----------------------------- MODULE SyncProofs -----------------------------
(***************************************************************************)
(* Proofs about Sync: whom the node asks for a block.  The list            *)
(* _active_sync_requests, the sets sync_items_requested_from_peer of the   *)
(* peers and the two queues of received blocks are kept by different       *)
(* handlers; the theorems say that they agree, for any peers, chains and   *)
(* limits.                                                                 *)
(***************************************************************************)
EXTENDS Sync, NumberLemmas, TLAPS

PeerFields ==
  {"to_get", "being_processed", "unfetched", "seen", "item_ids_requested", "sync_items_requested",
   "items_requested", "advertised", "we_need", "peer_needs", "inhibit"}

IsSequence(x) == \E S : x \in Seq(S)

\* peers are the peers of the node, and what is requested of each is as before
KeepsRequests(before, peers) ==
  /\ DOMAIN peers = Peers
  /\ \A p \in Peers : /\ DOMAIN peers[p] = PeerFields
                      /\ peers[p].sync_items_requested = before[p].sync_items_requested

-----------------------------------------------------------------------------
(* sequences *)

\* Concatenation, reversal and the removal of a found element give sequences.
LEMMA Concatenated ==
  ASSUME NEW x, NEW y, IsSequence(x), IsSequence(y)
  PROVE  IsSequence(x \o y)
<1>1. PICK S : x \in Seq(S)
  BY DEF IsSequence
<1>2. PICK T : y \in Seq(T)
  BY DEF IsSequence
<1> DEFINE U == S \cup T
<1>3. x \in Seq(U) /\ y \in Seq(U)
  BY <1>1, <1>2
<1> HIDE DEF U
<1>4. x \o y \in Seq(U)
  BY <1>3
<1> QED BY <1>4 DEF IsSequence

\* Blocks that were put in front of a list are taken in the order they came.
LEMMA Reversed ==
  ASSUME NEW x, IsSequence(x)
  PROVE  IsSequence(Reverse(x))
<1>1. PICK S : x \in Seq(S)
  BY DEF IsSequence
<1>2. Reverse(x) \in Seq(S)
  BY <1>1 DEF Reverse
<1> QED BY <1>2 DEF IsSequence

\* What is left of a list when one of its elements is removed.
LEMMA Removed ==
  ASSUME NEW x, IsSequence(x), NEW i \in 1..Len(x)
  PROVE  IsSequence(RemoveAt(x, i))
<1>1. PICK S : x \in Seq(S)
  BY DEF IsSequence
<1>2. SubSeq(x, 1, i - 1) \in Seq(S) /\ SubSeq(x, i + 1, Len(x)) \in Seq(S)
  BY <1>1
<1>3. RemoveAt(x, i) \in Seq(S)
  BY <1>2 DEF RemoveAt
<1> QED BY <1>3 DEF IsSequence

-----------------------------------------------------------------------------
(* what the fibers do to the peers *)

\* Going on with the next peer, or starting over with it, requests no block.
LEMMA BeginKeeps ==
  ASSUME NEW before, NEW peers, NEW todo, KeepsRequests(before, peers)
  PROVE  KeepsRequests(before, Begin(peers, todo).peers)
<1> DEFINE q == Head(todo).peer
           state == IF Head(todo).why = "restart" THEN Restarted(peers[q]) ELSE peers[q]
           new == [peers EXCEPT ![q] = state]
<1>1. Begin(peers, todo).peers = IF todo = <<>> THEN peers ELSE new
  BY DEF Begin
<1>2. KeepsRequests(before, new)
  <2>1. DOMAIN new = Peers
    BY DEF KeepsRequests
  <2>2. ASSUME NEW p \in Peers
        PROVE  DOMAIN new[p] = PeerFields
               /\ new[p].sync_items_requested = before[p].sync_items_requested
    <3>1. CASE p # q
      <4>1. new[p] = peers[p]
        BY <3>1 DEF KeepsRequests
      <4> HIDE DEF new
      <4> QED BY <4>1 DEF KeepsRequests
    <3>2. CASE p = q
      <4>1. new[p] = state
        BY <3>2 DEF KeepsRequests
      <4>2. DOMAIN peers[q] = PeerFields /\ peers[q].sync_items_requested = before[p].sync_items_requested
        BY <3>2 DEF KeepsRequests
      <4>3. /\ DOMAIN Restarted(peers[q]) = PeerFields
            /\ Restarted(peers[q]).sync_items_requested = before[p].sync_items_requested
        BY <4>2 DEF Restarted, PeerFields
      <4> QED BY <4>1, <4>2, <4>3
    <3> QED BY <3>1, <3>2
  <2> HIDE DEF new
  <2> QED BY <2>1, <2>2 DEF KeepsRequests
<1> HIDE DEF new
<1> QED BY <1>1, <1>2

\* A peer whose state changes in other ways keeps its requests.
LEMMA OnePeerKeeps ==
  ASSUME NEW before, NEW peers, KeepsRequests(before, peers), NEW q, NEW state,
         q \in Peers => /\ DOMAIN state = PeerFields
                        /\ state.sync_items_requested = before[q].sync_items_requested
  PROVE  KeepsRequests(before, [peers EXCEPT ![q] = state])
<1> DEFINE new == [peers EXCEPT ![q] = state]
<1>1. DOMAIN new = Peers
  BY DEF KeepsRequests
<1>2. \A p \in Peers : new[p] = IF p = q THEN state ELSE peers[p]
  BY DEF KeepsRequests
<1> HIDE DEF new
<1>3. KeepsRequests(before, new)
  BY <1>1, <1>2 DEF KeepsRequests
<1> QED BY <1>3 DEF new

-----------------------------------------------------------------------------
(***************************************************************************)
(* process_backlog_of_sync_blocks.  The states of its loop, and what each  *)
(* round leaves alone.                                                     *)
(***************************************************************************)
RoundFields == {"peers", "received", "fresh", "calls", "more", "todo", "suspended"}

RoundOK(s) ==
  /\ DOMAIN s = RoundFields
  /\ KeepsRequests(peer, s.peers)
  /\ IsSequence(s.received) /\ IsSequence(s.fresh)

\* Handing a block over to the chain database, or taking it off the lists
\* because it was accepted before, requests nothing.
LEMMA TakenKeeps ==
  ASSUME NEW peers, KeepsRequests(peer, peers), NEW id
  PROVE  /\ KeepsRequests(peer, Taken(peers, id))
         /\ KeepsRequests(peer, [p \in Peers |-> IF p \in Active
              THEN [Taken(peers, id)[p] EXCEPT !.being_processed = @ \ {id}] ELSE Taken(peers, id)[p]])
<1> DEFINE taken == Taken(peers, id)
           done == [p \in Peers |-> IF p \in Active
                      THEN [taken[p] EXCEPT !.being_processed = @ \ {id}] ELSE taken[p]]
<1>1. KeepsRequests(peer, taken)
  <2>1. DOMAIN taken = Peers
    BY DEF Taken
  <2>2. ASSUME NEW p \in Peers
        PROVE  DOMAIN taken[p] = PeerFields
               /\ taken[p].sync_items_requested = peer[p].sync_items_requested
    <3> DEFINE b == peers[p].being_processed \cup {id}
               new == [peers[p] EXCEPT !.to_get = Tail(@), !.being_processed = @ \cup {id}]
    <3>1. DOMAIN peers[p] = PeerFields /\ peers[p].sync_items_requested = peer[p].sync_items_requested
      BY DEF KeepsRequests
    <3>2. DOMAIN new = PeerFields /\ new.sync_items_requested = peer[p].sync_items_requested
      BY <3>1 DEF PeerFields
    <3>3. taken[p] = new \/ taken[p] = peers[p]
      BY DEF Taken
    <3> HIDE DEF new, taken
    <3> QED BY <3>1, <3>2, <3>3
  <2> HIDE DEF taken
  <2> QED BY <2>1, <2>2 DEF KeepsRequests
<1> HIDE DEF taken
<1>2. KeepsRequests(peer, done)
  <2>1. DOMAIN done = Peers
    OBVIOUS
  <2>2. ASSUME NEW p \in Peers
        PROVE  DOMAIN done[p] = PeerFields
               /\ done[p].sync_items_requested = peer[p].sync_items_requested
    <3> DEFINE new == [taken[p] EXCEPT !.being_processed = @ \ {id}]
    <3>1. DOMAIN taken[p] = PeerFields /\ taken[p].sync_items_requested = peer[p].sync_items_requested
      BY <1>1 DEF KeepsRequests
    <3>2. DOMAIN new = PeerFields /\ new.sync_items_requested = peer[p].sync_items_requested
      BY <3>1 DEF PeerFields
    <3>3. done[p] = new \/ done[p] = taken[p]
      OBVIOUS
    <3> HIDE DEF new, done
    <3> QED BY <3>1, <3>2, <3>3
  <2> HIDE DEF done
  <2> QED BY <2>1, <2>2 DEF KeepsRequests
<1> QED BY <1>1, <1>2 DEF taken

\* A round keeps the lists of received blocks lists, and requests nothing.
LEMMA RoundKeeps ==
  ASSUME NEW s, RoundOK(s)
  PROVE  RoundOK(Round(s))
<1> DEFINE waiting == Reverse(s.fresh) \o s.received
           i == SelectInSeq(waiting, LAMBDA id : Offering(s.peers, id) # {})
           id == waiting[i]
           taken == Taken(s.peers, id)
           done == [p \in Peers |-> IF p \in Active
                      THEN [taken[p] EXCEPT !.being_processed = @ \ {id}] ELSE taken[p]]
           last == {p \in Active : id \in taken[p].being_processed /\ Exhausted(done[p])}
           none == [s EXCEPT !.received = waiting, !.fresh = <<>>, !.more = FALSE]
           known_block == [s EXCEPT !.received = waiting, !.fresh = <<>>, !.more = FALSE,
                               !.peers = done, !.todo = SetToSeq({Continue(p) : p \in last})]
           handed == [s EXCEPT !.received = RemoveAt(waiting, i), !.fresh = <<>>, !.peers = taken,
                        !.calls = Append(@, [block |-> id, stage |-> "queued", fiber |-> Quiet])]
           next == IF i = 0 THEN none
                   ELSE IF id \in most_recent_blocks_accepted THEN known_block ELSE handed
           full == [next EXCEPT !.more = FALSE, !.suspended = Len(next.received) >= setting.prefetch_max]
<1>1. Round(s) = IF Len(next.calls) >= setting.handle_max THEN full ELSE next
  BY DEF Round
<1>2. IsSequence(waiting) /\ IsSequence(<<>>)
  <2>1. IsSequence(<<>>)
    <3>1. <<>> \in Seq({})
      OBVIOUS
    <3> QED BY <3>1 DEF IsSequence
  <2> QED BY <2>1, Concatenated, Reversed DEF RoundOK
<1>3. i # 0 => i \in 1..Len(waiting)
  <2> HIDE DEF waiting
  <2> DEFINE I == {j \in 1..Len(waiting) : Offering(s.peers, waiting[j]) # {}}
  <2>1. i = IF I # {} THEN Min(I) ELSE 0
    BY DEF SelectInSeq
  <2>2. Len(waiting) \in Nat
    BY <1>2 DEF IsSequence
  <2>3. I # {} => Min(I) \in I
    <3> SUFFICES ASSUME I # {} PROVE Min(I) \in I
      OBVIOUS
    <3>1. I \in SUBSET Nat
      BY <2>2
    <3> HIDE DEF I
    <3>2. \E x \in I : \A y \in I : x <= y
      BY <3>1, LeastNat
    <3> QED BY <3>2 DEF Min
  <2> HIDE DEF I
  <2>4. I \subseteq 1..Len(waiting)
    BY DEF I
  <2> QED BY <2>1, <2>3, <2>4
<1>4. i # 0 => IsSequence(RemoveAt(waiting, i))
  <2> HIDE DEF waiting, i
  <2> QED BY <1>2, <1>3, Removed
<1>5. KeepsRequests(peer, taken) /\ KeepsRequests(peer, done)
  <2>1. KeepsRequests(peer, s.peers)
    BY DEF RoundOK
  <2> HIDE DEF id
  <2> QED BY <2>1, TakenKeeps
<1> HIDE DEF waiting, i, id, taken, done, last
<1>6. RoundOK(none)
  BY <1>2 DEF RoundOK, RoundFields
<1>7. RoundOK(known_block)
  BY <1>2, <1>5 DEF RoundOK, RoundFields
<1>8. i # 0 => RoundOK(handed)
  BY <1>2, <1>4, <1>5 DEF RoundOK, RoundFields
<1> HIDE DEF none, known_block, handed
<1>9. RoundOK(next)
  BY <1>6, <1>7, <1>8
<1> HIDE DEF next
<1>10. RoundOK(full)
  BY <1>9 DEF RoundOK, RoundFields
<1> HIDE DEF full
<1> QED BY <1>1, <1>9, <1>10

\* The loop as a function of the number of rounds.
RoundsRun(start, n, f) ==
  f = [i \in 0..n |-> IF i = 0 THEN start ELSE NextRound(f[i - 1])]

\* The loop comes to its end after any number of rounds.
LEMMA RoundsExist ==
  ASSUME NEW start, NEW n \in Nat
  PROVE  \E f : RoundsRun(start, n, f)
<1> DEFINE T == {i \in 0..n : \E f : RoundsRun(start, i, f)}
<1>1. 0 \in T
  <2> DEFINE f == [i \in 0..0 |-> start]
  <2>1. RoundsRun(start, 0, f)
    BY DEF RoundsRun
  <2> QED BY <2>1
<1>2. \A i \in 1..n : i - 1 \in T => i \in T
  <2> SUFFICES ASSUME NEW i \in 1..n, i - 1 \in T PROVE i \in T
    OBVIOUS
  <2>1. PICK f : RoundsRun(start, i - 1, f)
    OBVIOUS
  <2> DEFINE g == [j \in 0..i |-> IF j = i THEN NextRound(f[i - 1]) ELSE f[j]]
  <2>2. i \in Nat /\ i # 0 /\ i - 1 \in 0..(i - 1)
    OBVIOUS
  <2>3. \A j \in 0..(i - 1) : g[j] = f[j] /\ f[j] = IF j = 0 THEN start ELSE NextRound(f[j - 1])
    BY <2>1, <2>2 DEF RoundsRun
  <2>4. g[i] = NextRound(f[i - 1]) /\ g[i - 1] = f[i - 1]
    BY <2>2, <2>3
  <2>5. DOMAIN g = 0..i /\ g = [j \in 0..i |-> g[j]]
    OBVIOUS
  <2> HIDE DEF g
  <2>6. ASSUME NEW j \in 0..i
        PROVE  g[j] = IF j = 0 THEN start ELSE NextRound(g[j - 1])
    <3>1. CASE j = i
      BY <2>2, <2>4, <3>1
    <3>2. CASE j \in 0..(i - 1)
      <4>1. j # 0 => j - 1 \in 0..(i - 1)
        BY <2>2, <3>2
      <4> QED BY <2>3, <3>2, <4>1
    <3> QED BY <2>2, <3>1, <3>2
  <2>7. RoundsRun(start, i, g)
    BY <2>5, <2>6, Zenon DEF RoundsRun
  <2> QED BY <2>7
<1>3. n \in T
  <2> HIDE DEF T
  <2> QED BY <1>1, <1>2, IntervalInduction, Zenon
<1> QED BY <1>3

\* What the whole loop leaves alone.
LEMMA RoundsKeep ==
  ASSUME KeepsRequests(peer, peer), IsSequence(received_sync_items),
         IsSequence(new_received_sync_items)
  PROVE  RoundOK(Rounds)
<1> DEFINE start == [peers |-> peer, received |-> received_sync_items,
                     fresh |-> new_received_sync_items, calls |-> InProgress, more |-> TRUE,
                     todo |-> <<>>, suspended |-> FALSE]
           most == Len(received_sync_items) + Len(new_received_sync_items) + 1
           after == CHOOSE f : RoundsRun(start, most, f)
<1>1. RoundOK(start)
  BY DEF RoundOK, RoundFields
<1>2. most \in Nat
  BY DEF IsSequence
<1>3. Rounds = after[most]
  BY Zenon DEF Rounds, RoundsFrom, RoundsRun
<1> HIDE DEF start, most
<1>4. RoundsRun(start, most, after)
  BY <1>2, RoundsExist, Zenon
<1> HIDE DEF after
<1> DEFINE T == {i \in 0..most : RoundOK(after[i])}
<1>5. 0 \in T
  BY <1>1, <1>2, <1>4 DEF RoundsRun
<1>6. \A i \in 1..most : i - 1 \in T => i \in T
  <2> SUFFICES ASSUME NEW i \in 1..most, i - 1 \in T PROVE i \in T
    OBVIOUS
  <2> DEFINE t == after[i - 1]
  <2>1. i \in 0..most /\ after[i] = NextRound(t) /\ RoundOK(t)
    BY <1>2, <1>4 DEF RoundsRun
  <2> HIDE DEF t
  <2>2. NextRound(t) = IF t.more THEN Round(t) ELSE t
    BY DEF NextRound
  <2>3. RoundOK(NextRound(t))
    BY <2>1, <2>2, RoundKeeps, Zenon
  <2> QED BY <2>1, <2>3
<1>7. most \in T
  <2> HIDE DEF T
  <2> QED BY <1>2, <1>5, <1>6, IntervalInduction, Zenon
<1> QED BY <1>3, <1>7

-----------------------------------------------------------------------------
(***************************************************************************)
(* fetch_sync_items_loop.  Requests r after the peers of asked had their   *)
(* turn: nothing is requested twice or was requested before.               *)
(***************************************************************************)
RequestsOK(r, asked) ==
  /\ DOMAIN r = {"of", "chosen"}
  /\ DOMAIN r.of = Peers
  /\ r.chosen = UNION {r.of[p] : p \in Peers}
  /\ r.chosen \cap active_sync_requests = {}
  /\ \A p, q \in Peers : p # q => r.of[p] \cap r.of[q] = {}
  /\ \A p \in Peers : p \notin asked => r.of[p] = {}

\* A peer is asked for blocks that nobody was asked for.
LEMMA RequestFromFresh ==
  ASSUME NEW r, NEW asked, RequestsOK(r, asked), NEW p \in Peers \ asked
  PROVE  RequestsOK(RequestFrom(r, p), asked \cup {p})
<1> DEFINE batch == FirstOf(peer[p].to_get, Requestable(peer[p], r.chosen), setting.per_peer)
           new == [of |-> [r.of EXCEPT ![p] = batch], chosen |-> r.chosen \cup batch]
<1>1. RequestFrom(r, p) = new \/ RequestFrom(r, p) = r
  BY DEF RequestFrom
<1>2. batch \cap r.chosen = {} /\ batch \cap active_sync_requests = {}
  BY DEF FirstOf, Requestable
<1> HIDE DEF batch
<1>3. RequestsOK(new, asked \cup {p})
  <2>1. DOMAIN new = {"of", "chosen"} /\ DOMAIN new.of = Peers
    BY DEF RequestsOK
  <2>2. \A q \in Peers : new.of[q] = IF q = p THEN batch ELSE r.of[q]
    BY DEF RequestsOK
  <2>3. new.chosen = r.chosen \cup batch
    OBVIOUS
  <2> HIDE DEF new
  <2>4. \A q \in Peers : r.of[q] \subseteq r.chosen
    BY DEF RequestsOK
  <2>5. new.chosen = UNION {new.of[q] : q \in Peers}
    <3>1. r.of[p] = {} /\ r.chosen = UNION {r.of[q] : q \in Peers}
      BY DEF RequestsOK
    <3> QED BY <2>2, <2>3, <3>1
  <2>6. new.chosen \cap active_sync_requests = {}
    BY <1>2, <2>3 DEF RequestsOK
  <2>7. \A q, t \in Peers : q # t => new.of[q] \cap new.of[t] = {}
    BY <1>2, <2>2, <2>4 DEF RequestsOK
  <2>8. \A q \in Peers : q \notin asked \cup {p} => new.of[q] = {}
    BY <2>2 DEF RequestsOK
  <2> QED BY <2>1, <2>5, <2>6, <2>7, <2>8 DEF RequestsOK
<1> HIDE DEF new
<1>4. RequestsOK(r, asked \cup {p})
  BY DEF RequestsOK
<1> QED BY <1>1, <1>3, <1>4

\* The loop over the active connections as a function of how many had their
\* turn.
NoRequests == [of |-> [p \in Peers |-> {}], chosen |-> {}]

RequestsRun(order, n, f) ==
  f = [i \in 0..n |-> IF i = 0 THEN NoRequests ELSE RequestFrom(f[i - 1], order[i])]

\* The loop over the active connections comes to its end.
LEMMA RequestsExist ==
  ASSUME NEW order, NEW n \in Nat
  PROVE  \E f : RequestsRun(order, n, f)
<1> DEFINE T == {i \in 0..n : \E f : RequestsRun(order, i, f)}
<1>1. 0 \in T
  <2> DEFINE f == [i \in 0..0 |-> NoRequests]
  <2>1. RequestsRun(order, 0, f)
    BY DEF RequestsRun
  <2> QED BY <2>1
<1>2. \A i \in 1..n : i - 1 \in T => i \in T
  <2> SUFFICES ASSUME NEW i \in 1..n, i - 1 \in T PROVE i \in T
    OBVIOUS
  <2>1. PICK f : RequestsRun(order, i - 1, f)
    OBVIOUS
  <2> DEFINE g == [j \in 0..i |-> IF j = i THEN RequestFrom(f[i - 1], order[i]) ELSE f[j]]
  <2>2. i \in Nat /\ i # 0 /\ i - 1 \in 0..(i - 1)
    OBVIOUS
  <2>3. \A j \in 0..(i - 1) :
          g[j] = f[j] /\ f[j] = IF j = 0 THEN NoRequests ELSE RequestFrom(f[j - 1], order[j])
    BY <2>1, <2>2 DEF RequestsRun
  <2>4. g[i] = RequestFrom(f[i - 1], order[i]) /\ g[i - 1] = f[i - 1]
    BY <2>2, <2>3
  <2>5. DOMAIN g = 0..i /\ g = [j \in 0..i |-> g[j]]
    OBVIOUS
  <2> HIDE DEF g
  <2>6. ASSUME NEW j \in 0..i
        PROVE  g[j] = IF j = 0 THEN NoRequests ELSE RequestFrom(g[j - 1], order[j])
    <3>1. CASE j = i
      BY <2>2, <2>4, <3>1
    <3>2. CASE j \in 0..(i - 1)
      <4>1. j # 0 => j - 1 \in 0..(i - 1)
        BY <2>2, <3>2
      <4> QED BY <2>3, <3>2, <4>1
    <3> QED BY <2>2, <3>1, <3>2
  <2>7. RequestsRun(order, i, g)
    BY <2>5, <2>6, Zenon DEF RequestsRun
  <2> QED BY <2>7
<1>3. n \in T
  <2> HIDE DEF T
  <2> QED BY <1>1, <1>2, IntervalInduction, Zenon
<1> QED BY <1>3

\* In whatever order the connections are visited, no block is requested
\* twice or was requested before, and only active peers are asked.
LEMMA RequestsFresh ==
  ASSUME NEW order \in SetToSeqs(Active)
  PROVE  RequestsOK(Requests(order), Active)
<1> DEFINE n == Len(order)
           after == CHOOSE f : RequestsRun(order, n, f)
<1>1. n \in Nat /\ order \in [1..n -> Active] /\ \A i, j \in 1..n : i # j => order[i] # order[j]
  <2>1. IsFiniteSet(Active)
    BY PeersAssumption, FS_Subset, Active \subseteq Peers DEF Active
  <2>2. PICK m \in Nat : m = Cardinality(Active)
    BY <2>1, FS_CardinalityType
  <2>3. order \in [1..m -> Active] /\ \A i, j \in 1..m : i # j => order[i] # order[j]
    BY <2>2 DEF SetToSeqs
  <2>4. Len(order) = m
    BY <2>2, <2>3
  <2> QED BY <2>3, <2>4
<1>2. Requests(order) = after[n]
  BY Zenon DEF Requests, RequestsRun, NoRequests
<1> HIDE DEF n
<1>3. RequestsRun(order, n, after)
  BY <1>1, RequestsExist, Zenon
<1> HIDE DEF after
<1> DEFINE Asked(i) == {order[j] : j \in 1..i}
           T == {i \in 0..n : RequestsOK(after[i], Asked(i))}
<1>4. 0 \in T
  <2>1. after[0] = NoRequests /\ 0 \in 0..n
    BY <1>1, <1>3 DEF RequestsRun
  <2>2. RequestsOK(NoRequests, Asked(0))
    BY DEF RequestsOK, NoRequests
  <2> QED BY <2>1, <2>2
<1>5. \A i \in 1..n : i - 1 \in T => i \in T
  <2> SUFFICES ASSUME NEW i \in 1..n, i - 1 \in T PROVE i \in T
    OBVIOUS
  <2> DEFINE r == after[i - 1]
             p == order[i]
  <2>1. i \in 0..n /\ after[i] = RequestFrom(r, p)
    BY <1>1, <1>3 DEF RequestsRun
  <2>2. RequestsOK(r, Asked(i - 1))
    OBVIOUS
  <2>3. p \in Peers \ Asked(i - 1)
    BY <1>1 DEF Active
  <2>4. Asked(i) = Asked(i - 1) \cup {p}
    BY <1>1
  <2> HIDE DEF r, p, Asked
  <2>5. RequestsOK(RequestFrom(r, p), Asked(i - 1) \cup {p})
    BY <2>2, <2>3, RequestFromFresh
  <2> QED BY <2>1, <2>4, <2>5
<1>6. n \in T
  <2> HIDE DEF T
  <2> QED BY <1>1, <1>4, <1>5, IntervalInduction, Zenon
<1>7. RequestsOK(after[n], Asked(n)) /\ Asked(n) \subseteq Active
  BY <1>1, <1>6
<1> QED BY <1>2, <1>7 DEF RequestsOK

-----------------------------------------------------------------------------
(***************************************************************************)
(* The inductive invariant.  A peer that lacks what it listed keeps its    *)
(* block on the list for good, because on_item_not_available_message does  *)
(* not take it off; the rest holds for such peers as well.                 *)
(***************************************************************************)
AskedOfOne ==
  /\ \A p \in Connected : peer[p].sync_items_requested \subseteq active_sync_requests
  /\ \A p, q \in Connected : p # q =>
       peer[p].sync_items_requested \cap peer[q].sync_items_requested = {}

StillExpected ==
  \A id \in active_sync_requests : \E p \in Connected : id \in peer[p].sync_items_requested

RequestInv ==
  /\ KeepsRequests(peer, peer)
  /\ DOMAIN conn = Peers
  /\ IsSequence(received_sync_items) /\ IsSequence(new_received_sync_items)
  /\ AskedOfOne
  /\ setting.lacking = {} => StillExpected

\* who is connected stays so
SameConnections ==
  DOMAIN conn' = Peers /\ \A p \in Peers : conn'[p] = "gone" <=> conn[p] = "gone"

NothingRequested ==
  /\ KeepsRequests(peer, peer') /\ SameConnections
  /\ active_sync_requests' = active_sync_requests /\ setting' = setting

\* A step that requests nothing, receives nothing and closes no connection
\* keeps the requests in order.
LEMMA NothingRequestedKeeps ==
  ASSUME RequestInv, NothingRequested,
         IsSequence(received_sync_items'), IsSequence(new_received_sync_items')
  PROVE  RequestInv'
<1>1. \A p \in Peers : peer'[p].sync_items_requested = peer[p].sync_items_requested
  BY DEF NothingRequested, KeepsRequests
<1>2. Connected' = Connected
  BY DEF NothingRequested, SameConnections, Connected
<1>3. KeepsRequests(peer', peer')
  BY DEF NothingRequested, KeepsRequests
<1>4. AskedOfOne' /\ (StillExpected => StillExpected')
  BY <1>1, <1>2 DEF AskedOfOne, StillExpected, NothingRequested, RequestInv, Connected
<1> QED BY <1>3, <1>4 DEF RequestInv, NothingRequested, SameConnections

\* Marking a connection as closing, or a set of them, leaves nobody out.
LEMMA ClosingKeeps ==
  ASSUME DOMAIN conn = Peers
  PROVE  /\ \A ps : conn' = Drop(conn, ps) => SameConnections
         /\ conn' = conn => SameConnections
         /\ \A q : conn[q] # "gone" /\ conn' = [conn EXCEPT ![q] = "closing"] => SameConnections
<1>1. \A ps : conn' = Drop(conn, ps) => SameConnections
  BY DEF Drop, SameConnections
<1>2. conn' = conn => SameConnections
  BY DEF SameConnections
<1>3. \A q : conn[q] # "gone" /\ conn' = [conn EXCEPT ![q] = "closing"] => SameConnections
  BY DEF SameConnections
<1> QED BY <1>1, <1>2, <1>3

\* fetch_next_batch_of_item_ids_from_peer asks for ids, not for blocks.
LEMMA SynopsisReadyKeeps ==
  ASSUME RequestInv, NEW fiber, SynopsisReady(fiber)
  PROVE  KeepsRequests(peer, peer') /\ SameConnections
<1> DEFINE p == fiber.ask.peer
           peers == Resumed(fiber).peers
<1>1. KeepsRequests(peer, peers) /\ DOMAIN conn = Peers
  BY BeginKeeps DEF RequestInv, Resumed
<1> HIDE DEF peers, p
<1>2. CASE NoSynopsis(fiber)
  <2>1. peer' = peers
    BY <1>2 DEF SynopsisReady, peers
  <2>2. conn' = [conn EXCEPT ![p] = IF @ # "gone" /\ GivenUp(fiber) THEN "closing" ELSE @]
    BY <1>2 DEF SynopsisReady, p
  <2>3. SameConnections
    BY <1>1, <2>2 DEF SameConnections
  <2> QED BY <1>1, <2>1, <2>3
<1>3. CASE ~NoSynopsis(fiber)
  <2> DEFINE synopsis == Ask(fiber).synopsis
             state == [peers[p] EXCEPT !.item_ids_requested = synopsis]
  <2>1. peer' = [peers EXCEPT ![p].item_ids_requested = synopsis] /\ conn' = conn
    BY <1>3, Zenon DEF SynopsisReady, peers, p
  <2> HIDE DEF synopsis
  <2>2. peer' = [peers EXCEPT ![p] = state]
    BY <2>1
  <2>3. p \in Peers => /\ DOMAIN state = PeerFields
                       /\ state.sync_items_requested = peer[p].sync_items_requested
    BY <1>1 DEF KeepsRequests, PeerFields
  <2> HIDE DEF state
  <2>4. KeepsRequests(peer, peer')
    BY <1>1, <2>2, <2>3, OnePeerKeeps
  <2> QED BY <1>1, <2>1, <2>4, ClosingKeeps
<1> QED BY <1>2, <1>3

\* The fibers that were waiting for a synopsis go on.
LEMMA ResumesKeep ==
  ASSUME RequestInv,
         \/ BacklogResumes
         \/ \E i \in 1..Len(calls) : CallResumes(i)
         \/ \E p \in Peers : HandlerResumes(p)
  PROVE  RequestInv'
<1>1. PICK fiber : SynopsisReady(fiber)
  BY DEF BacklogResumes, CallResumes, HandlerResumes
<1>2. UNCHANGED <<itemVars, setting>>
  BY DEF BacklogResumes, CallResumes, HandlerResumes
<1>3. NothingRequested
  BY <1>1, <1>2, SynopsisReadyKeeps DEF NothingRequested, itemVars
<1> QED BY <1>2, <1>3, NothingRequestedKeeps DEF itemVars, RequestInv

\* on_blockchain_item_ids_inventory_message changes the peer's list of ids.
LEMMA ListedKeeps ==
  ASSUME NEW p, NEW state, NEW reply, DOMAIN state = PeerFields
  PROVE  /\ DOMAIN Listed(p, state, reply) = PeerFields
         /\ Listed(p, state, reply).sync_items_requested = state.sync_items_requested
<1> DEFINE same(t) == DOMAIN t = PeerFields /\ t.sync_items_requested = state.sync_items_requested
           merged ==
             IF reply.ids = <<>> THEN state
             ELSE IF state.to_get # <<>> THEN Extended(state, reply.ids)
             ELSE IF FirstForOtherPeer(p, reply.ids) THEN [state EXCEPT !.to_get = reply.ids]
             ELSE Unseen(state, reply.ids)
<1>1. Listed(p, state, reply) = [merged EXCEPT !.unfetched = reply.remaining]
  BY DEF Listed
<1>2. same(Extended(state, reply.ids))
  <2>1. \A x : same([state EXCEPT !.to_get = x])
    BY DEF PeerFields
  <2>2. \A x, y : same([state EXCEPT !.to_get = x, !.seen = y])
    BY DEF PeerFields
  <2> HIDE DEF same
  <2> QED BY <2>1, <2>2, Zenon DEF Extended
<1>3. same(Unseen(state, reply.ids))
  <2>1. \A x, y : same([state EXCEPT !.to_get = x, !.seen = y])
    BY DEF PeerFields
  <2> HIDE DEF same
  <2> QED BY <2>1, Zenon DEF Unseen
<1>4. same(state) /\ same([state EXCEPT !.to_get = reply.ids])
  BY DEF PeerFields
<1>5. same(merged)
  <2> HIDE DEF same
  <2> QED BY <1>2, <1>3, <1>4
<1> HIDE DEF merged
<1>6. same([merged EXCEPT !.unfetched = reply.remaining])
  BY <1>5 DEF PeerFields
<1> QED BY <1>1, <1>6

\* An answer to a request for ids.
LEMMA OnItemIdsKeeps ==
  ASSUME RequestInv, NEW p \in Peers, OnItemIds(p)
  PROVE  RequestInv'
<1>1. UNCHANGED <<itemVars, setting>> /\ conn[p] # "gone"
  BY DEF OnItemIds
<1>2. PICK reply : ItemIds(p, reply)
  BY DEF OnItemIds
<1> DEFINE state == [peer[p] EXCEPT !.item_ids_requested = None]
           listed == Listed(p, state, reply)
           todo == IF AskAgain(listed) THEN <<Continue(p)>> ELSE <<>>
           begun == Begin([peer EXCEPT ![p] = listed], todo)
           settled == [state EXCEPT !.we_need = FALSE]
<1>3. DOMAIN state = PeerFields /\ state.sync_items_requested = peer[p].sync_items_requested
  BY DEF RequestInv, KeepsRequests, PeerFields
<1>4. DOMAIN settled = PeerFields /\ settled.sync_items_requested = peer[p].sync_items_requested
  <2> HIDE DEF state
  <2> QED BY <1>3 DEF PeerFields
<1>5. DOMAIN listed = PeerFields /\ listed.sync_items_requested = peer[p].sync_items_requested
  <2> HIDE DEF state
  <2> QED BY <1>3, ListedKeeps
<1>6. \/ peer' = peer /\ (conn' = conn \/ conn' = [conn EXCEPT ![p] = "closing"])
      \/ peer' = [peer EXCEPT ![p] = settled] /\ conn' = conn
      \/ peer' = begun.peers /\ conn' = conn
  BY <1>2, Zenon DEF ItemIds
<1> HIDE DEF listed, settled, todo
<1>7. KeepsRequests(peer, [peer EXCEPT ![p] = settled]) /\ KeepsRequests(peer, [peer EXCEPT ![p] = listed])
  BY <1>4, <1>5, OnePeerKeeps DEF RequestInv
<1>8. KeepsRequests(peer, begun.peers)
  BY <1>7, BeginKeeps
<1> HIDE DEF begun
<1>9. KeepsRequests(peer, peer')
  BY <1>6, <1>7, <1>8 DEF RequestInv
<1>10. SameConnections
  BY <1>1, <1>6, ClosingKeeps DEF RequestInv
<1>11. NothingRequested
  BY <1>1, <1>9, <1>10 DEF NothingRequested, itemVars
<1> QED BY <1>1, <1>11, NothingRequestedKeeps DEF itemVars, RequestInv

\* fetch_sync_items_loop: what is requested now was not requested before.
LEMMA FetchKeeps ==
  ASSUME RequestInv, FetchSyncItems
  PROVE  RequestInv'
<1>1. UNCHANGED <<conn, received_sync_items, new_received_sync_items, setting>>
  BY DEF FetchSyncItems
<1>2. Connected' = Connected
  BY <1>1 DEF Connected
<1>3. CASE suspend_fetching_sync_blocks
  <2>1. UNCHANGED <<peer, active_sync_requests>>
    BY <1>3 DEF FetchSyncItems
  <2> QED BY <1>1, <1>2, <2>1 DEF RequestInv, AskedOfOne, StillExpected
<1>4. CASE ~suspend_fetching_sync_blocks
  <2>1. PICK r \in {Requests(order) : order \in SetToSeqs(Active)} :
          /\ active_sync_requests' = active_sync_requests \cup r.chosen
          /\ peer' = [p \in Peers |-> [peer[p] EXCEPT !.sync_items_requested = @ \cup r.of[p]]]
    BY <1>4, Zenon DEF FetchSyncItems
  <2>2. RequestsOK(r, Active)
    BY RequestsFresh
  <2>3. /\ active_sync_requests' = active_sync_requests \cup r.chosen
        /\ DOMAIN peer' = Peers
        /\ \A p \in Peers : peer'[p] = [peer[p] EXCEPT !.sync_items_requested = @ \cup r.of[p]]
    BY <2>1
  <2>4. \A p \in Peers : /\ DOMAIN peer'[p] = PeerFields
                         /\ peer'[p].sync_items_requested = peer[p].sync_items_requested \cup r.of[p]
    BY <2>3 DEF RequestInv, KeepsRequests, PeerFields
  <2>5. KeepsRequests(peer', peer')
    BY <2>3, <2>4 DEF KeepsRequests
  <2>6. /\ \A p \in Peers : r.of[p] \subseteq r.chosen
        /\ r.chosen \cap active_sync_requests = {}
        /\ \A p, q \in Peers : p # q => r.of[p] \cap r.of[q] = {}
        /\ \A id \in r.chosen : \E p \in Peers : id \in r.of[p] /\ p \in Active
    BY <2>2 DEF RequestsOK
  <2>7. Connected \subseteq Peers /\ Active \subseteq Connected
    BY DEF Connected, Active
  <2>8. AskedOfOne'
    <3>1. \A p \in Connected : peer[p].sync_items_requested \subseteq active_sync_requests
      BY DEF RequestInv, AskedOfOne
    <3>2. \A p \in Connected : peer'[p].sync_items_requested \subseteq active_sync_requests'
      BY <2>3, <2>4, <2>6, <2>7, <3>1
    <3>3. ASSUME NEW p \in Connected, NEW q \in Connected, p # q
          PROVE  peer'[p].sync_items_requested \cap peer'[q].sync_items_requested = {}
      <4>1. peer[p].sync_items_requested \cap peer[q].sync_items_requested = {}
        BY <3>3 DEF RequestInv, AskedOfOne
      <4> QED BY <2>4, <2>6, <2>7, <3>1, <3>3, <4>1
    <3> QED BY <1>2, <3>2, <3>3 DEF AskedOfOne
  <2>9. StillExpected => StillExpected'
    <3> SUFFICES ASSUME StillExpected, NEW id \in active_sync_requests'
                 PROVE  \E p \in Connected : id \in peer'[p].sync_items_requested
      BY <1>2 DEF StillExpected
    <3>1. CASE id \in active_sync_requests
      <4>1. PICK p \in Connected : id \in peer[p].sync_items_requested
        BY <3>1 DEF StillExpected
      <4> QED BY <2>4, <2>7, <4>1
    <3>2. CASE id \in r.chosen
      <4>1. PICK p \in Peers : id \in r.of[p] /\ p \in Active
        BY <2>6, <3>2
      <4> QED BY <2>4, <2>7, <4>1
    <3> QED BY <2>3, <3>1, <3>2
  <2> QED BY <1>1, <2>5, <2>8, <2>9 DEF RequestInv
<1> QED BY <1>3, <1>4

\* What a step that takes the block id off the requests of the peer p, and
\* perhaps off the list, does to the rest.
TakesOff(p, id) ==
  /\ DOMAIN peer' = Peers
  /\ \A q \in Peers :
       /\ DOMAIN peer'[q] = PeerFields
       /\ peer'[q].sync_items_requested =
            IF q = p THEN peer[q].sync_items_requested \ {id} ELSE peer[q].sync_items_requested

\* A block that a peer was asked for arrives, or the peer lacks it.
LEMMA TakesOffKeeps ==
  ASSUME RequestInv, NEW p \in Connected, NEW id, TakesOff(p, id), SameConnections,
         id \in peer[p].sync_items_requested, setting' = setting,
         IsSequence(received_sync_items'), IsSequence(new_received_sync_items'),
         \/ active_sync_requests' = active_sync_requests \ {id}
         \/ active_sync_requests' = active_sync_requests /\ setting.lacking # {}
  PROVE  RequestInv'
<1>1. Connected' = Connected /\ Connected \subseteq Peers
  BY DEF SameConnections, Connected
<1>2. KeepsRequests(peer', peer')
  BY DEF TakesOff, KeepsRequests
<1>3. /\ \A q \in Connected : peer[q].sync_items_requested \subseteq active_sync_requests
      /\ \A q, r \in Connected : q # r =>
           peer[q].sync_items_requested \cap peer[r].sync_items_requested = {}
  BY DEF RequestInv, AskedOfOne
<1>4. \A q \in Connected : q # p => id \notin peer[q].sync_items_requested
  BY <1>3
<1>5. \A q \in Connected : peer'[q].sync_items_requested = peer[q].sync_items_requested \ {id}
  BY <1>1, <1>4 DEF TakesOff
<1>6. AskedOfOne'
  BY <1>1, <1>3, <1>5 DEF AskedOfOne
<1>7. setting'.lacking = {} => StillExpected'
  BY <1>1, <1>5 DEF RequestInv, StillExpected
<1> QED BY <1>2, <1>6, <1>7 DEF RequestInv, SameConnections

\* process_block_message for a block that was requested while synchronising:
\* it leaves the list and joins the received ones in the same step.
LEMMA SyncBlockKeeps ==
  ASSUME RequestInv, NEW p \in Connected, NEW id \in peer[p].sync_items_requested,
         SyncBlock(p, id), setting' = setting
  PROVE  RequestInv'
<1> DEFINE state == [peer[p] EXCEPT !.sync_items_requested = @ \ {id}]
           before == [peer EXCEPT ![p] = state]
           more == idle(state) /\ state.unfetched > 0 /\ Len(state.to_get) < setting.min_prefetch
           todo == IF more THEN <<AfterBlock(p)>> ELSE <<>>
           peers == Begin(before, todo).peers
<1>1. /\ peer' = peers
      /\ active_sync_requests' = active_sync_requests \ {id}
      /\ new_received_sync_items' = <<id>> \o new_received_sync_items
      /\ received_sync_items' = received_sync_items /\ conn' = conn
  BY Zenon DEF SyncBlock
<1>2. p \in Peers /\ KeepsRequests(peer, peer) /\ DOMAIN conn = Peers
  BY DEF RequestInv, Connected
<1>3. DOMAIN state = PeerFields /\ state.sync_items_requested = peer[p].sync_items_requested \ {id}
  BY <1>2 DEF KeepsRequests, PeerFields
<1> HIDE DEF state
<1>4. DOMAIN before = Peers /\ \A q \in Peers : before[q] = IF q = p THEN state ELSE peer[q]
  BY <1>2 DEF KeepsRequests
<1> HIDE DEF before, todo
<1>5. KeepsRequests(before, before)
  BY <1>2, <1>3, <1>4 DEF KeepsRequests
<1>6. KeepsRequests(before, peers)
  BY <1>5, BeginKeeps
<1> HIDE DEF peers
<1>7. TakesOff(p, id)
  BY <1>1, <1>3, <1>4, <1>6 DEF KeepsRequests, TakesOff
<1>8. IsSequence(new_received_sync_items')
  <2>1. <<id>> \in Seq({id})
    OBVIOUS
  <2> QED BY <1>1, <2>1, Concatenated DEF IsSequence, RequestInv
<1>9. IsSequence(received_sync_items') /\ SameConnections
  BY <1>1, <1>2, ClosingKeeps DEF RequestInv
<1> QED BY <1>1, <1>7, <1>8, <1>9, TakesOffKeeps

\* process_block_during_normal_operation touches other requests.
LEMMA NormalBlockKeeps ==
  ASSUME RequestInv, NEW p \in Peers, NEW id, NormalBlock(p, id), setting' = setting
  PROVE  RequestInv'
<1> DEFINE one == [peer[p] EXCEPT !.items_requested = @ \ {id}]
           asked == [peer EXCEPT ![p] = one]
           seen == [q \in Peers |-> IF conn[q] = "active" /\ id \in peer[q].advertised
                                    THEN [asked[q] EXCEPT !.seen = id] ELSE asked[q]]
           peers == Begin(asked, <<Restart(p)>>).peers
<1>1. KeepsRequests(peer, peer) /\ DOMAIN conn = Peers
  BY DEF RequestInv
<1>2. [peer EXCEPT ![p].items_requested = @ \ {id}] = asked
  OBVIOUS
<1>3. DOMAIN one = PeerFields /\ one.sync_items_requested = peer[p].sync_items_requested
  BY <1>1 DEF KeepsRequests, PeerFields
<1>4. \/ peer' = seen /\ conn' = conn
      \/ peer' = peers /\ conn' = conn
      \/ peer' = asked /\ \E ps : conn' = Drop(conn, ps)
  BY <1>2 DEF NormalBlock, chainVars
<1>5. UNCHANGED itemVars
  BY DEF NormalBlock
<1> HIDE DEF one
<1>6. KeepsRequests(peer, asked)
  BY <1>1, <1>3, OnePeerKeeps
<1> HIDE DEF asked
<1>7. KeepsRequests(peer, peers)
  BY <1>6, BeginKeeps
<1>8. KeepsRequests(peer, seen)
  <2>1. DOMAIN seen = Peers
    OBVIOUS
  <2>2. ASSUME NEW q \in Peers
        PROVE  DOMAIN seen[q] = PeerFields
               /\ seen[q].sync_items_requested = peer[q].sync_items_requested
    <3> DEFINE new == [asked[q] EXCEPT !.seen = id]
    <3>1. DOMAIN asked[q] = PeerFields /\ asked[q].sync_items_requested = peer[q].sync_items_requested
      BY <1>6 DEF KeepsRequests
    <3>2. DOMAIN new = PeerFields /\ new.sync_items_requested = peer[q].sync_items_requested
      BY <3>1 DEF PeerFields
    <3>3. seen[q] = new \/ seen[q] = asked[q]
      OBVIOUS
    <3> HIDE DEF new, seen
    <3> QED BY <3>1, <3>2, <3>3
  <2> HIDE DEF seen
  <2> QED BY <2>1, <2>2 DEF KeepsRequests
<1> HIDE DEF seen, peers
<1>9. KeepsRequests(peer, peer') /\ SameConnections
  BY <1>1, <1>4, <1>6, <1>7, <1>8, ClosingKeeps
<1>10. NothingRequested
  BY <1>5, <1>9 DEF NothingRequested, itemVars
<1> QED BY <1>5, <1>10, NothingRequestedKeeps DEF itemVars, RequestInv

\* A block arrives.
LEMMA OnBlockKeeps ==
  ASSUME RequestInv, NEW p \in Peers, OnBlock(p)
  PROVE  RequestInv'
<1> DEFINE id == Head(wire[p]).id
<1>1. conn[p] # "gone" /\ setting' = setting /\ p \in Connected
  BY DEF OnBlock, Connected
<1>2. \/ NormalBlock(p, id)
      \/ id \in peer[p].sync_items_requested /\ SyncBlock(p, id)
      \/ conn' = [conn EXCEPT ![p] = "closing"] /\ UNCHANGED <<peer, itemVars>>
  BY Zenon DEF OnBlock
<1> HIDE DEF id
<1>3. CASE conn' = [conn EXCEPT ![p] = "closing"] /\ UNCHANGED <<peer, itemVars>>
  <2>1. NothingRequested
    BY <1>1, <1>3, ClosingKeeps DEF NothingRequested, RequestInv, itemVars
  <2> QED BY <1>3, <2>1, NothingRequestedKeeps DEF itemVars, RequestInv
<1> QED BY <1>1, <1>2, <1>3, NormalBlockKeeps, SyncBlockKeeps

\* A peer lacks a block that it listed: the block stays on the list.
LEMMA NotAvailableKeeps ==
  ASSUME RequestInv, NEW p \in Peers, OnItemNotAvailable(p)
  PROVE  RequestInv'
<1> DEFINE id == Head(wire[p]).id
           state == [peer[p] EXCEPT !.sync_items_requested = @ \ {id},
                                    !.inhibit = @ \/ peer[p].peer_needs]
<1>1. /\ setting.lacking # {} /\ p \in Connected /\ id \in peer[p].sync_items_requested
      /\ UNCHANGED <<itemVars, setting>>
      /\ conn' = conn \/ conn' = Drop(conn, {p})
  BY DEF OnItemNotAvailable, Connected
<1>2. peer' = [peer EXCEPT ![p] = state]
  BY DEF OnItemNotAvailable
<1> HIDE DEF id
<1>3. KeepsRequests(peer, peer) /\ DOMAIN conn = Peers
  BY DEF RequestInv
<1>4. DOMAIN state = PeerFields /\ state.sync_items_requested = peer[p].sync_items_requested \ {id}
  BY <1>3 DEF KeepsRequests, PeerFields
<1> HIDE DEF state
<1>5. TakesOff(p, id)
  BY <1>2, <1>3, <1>4 DEF TakesOff, KeepsRequests
<1>6. SameConnections
  BY <1>1, <1>3, ClosingKeeps
<1> QED BY <1>1, <1>5, <1>6, TakesOffKeeps DEF itemVars, RequestInv

\* process_backlog_of_sync_blocks hands blocks over and requests none.
LEMMA ProcessBacklogKeeps ==
  ASSUME RequestInv, ProcessBacklog
  PROVE  RequestInv'
<1> DEFINE end == Rounds
           peers == Begin(end.peers, end.todo).peers
<1>1. RoundOK(end)
  BY RoundsKeep DEF RequestInv
<1>2. \/ UNCHANGED <<peer, received_sync_items, new_received_sync_items>>
      \/ peer' = peers /\ received_sync_items' = end.received /\ new_received_sync_items' = end.fresh
  BY Zenon DEF ProcessBacklog
<1>3. UNCHANGED <<conn, active_sync_requests, setting>>
  BY Zenon DEF ProcessBacklog
<1> HIDE DEF end
<1>4. KeepsRequests(peer, peers) /\ IsSequence(end.received) /\ IsSequence(end.fresh)
  BY <1>1, BeginKeeps DEF RoundOK
<1> HIDE DEF peers
<1>5. NothingRequested
  BY <1>2, <1>3, <1>4, ClosingKeeps DEF NothingRequested, RequestInv
<1> QED BY <1>2, <1>4, <1>5, NothingRequestedKeeps DEF RequestInv

\* send_sync_block_to_node_delegate, after the chain database accepted.
LEMMA BlockAcceptedKeeps ==
  ASSUME RequestInv, NEW i, BlockAccepted(i)
  PROVE  RequestInv'
<1> DEFINE id == calls[i].block
           settled == [p \in Peers |-> IF p \in Active THEN Settled(peer[p], id) ELSE peer[p]]
           peers == Begin(settled, ToAsk(id)).peers
<1>1. peer' = peers /\ UNCHANGED <<conn, itemVars, setting>>
  BY Zenon DEF BlockAccepted
<1>2. KeepsRequests(peer, settled)
  <2> HIDE DEF id
  <2>1. DOMAIN settled = Peers
    OBVIOUS
  <2>2. ASSUME NEW p \in Peers
        PROVE  DOMAIN settled[p] = PeerFields
               /\ settled[p].sync_items_requested = peer[p].sync_items_requested
    <3> DEFINE new == [peer[p] EXCEPT !.being_processed = @ \ {id}, !.seen = id]
    <3>1. DOMAIN peer[p] = PeerFields
      BY DEF RequestInv, KeepsRequests
    <3>2. DOMAIN new = PeerFields /\ new.sync_items_requested = peer[p].sync_items_requested
      BY <3>1 DEF PeerFields
    <3>3. settled[p] = new \/ settled[p] = peer[p]
      BY DEF Settled
    <3> HIDE DEF new, settled
    <3> QED BY <3>1, <3>2, <3>3
  <2> HIDE DEF settled
  <2> QED BY <2>1, <2>2 DEF KeepsRequests
<1> HIDE DEF settled, id
<1>3. KeepsRequests(peer, peers)
  BY <1>2, BeginKeeps
<1> HIDE DEF peers
<1>4. NothingRequested
  BY <1>1, <1>3, ClosingKeeps DEF NothingRequested, RequestInv, itemVars
<1> QED BY <1>1, <1>4, NothingRequestedKeeps DEF RequestInv, itemVars

\* on_fetch_blockchain_item_ids_message: a peer asks us.
LEMMA OnFetchItemIdsKeeps ==
  ASSUME RequestInv, NEW p \in Peers, OnFetchItemIds(p)
  PROVE  RequestInv'
<1>1. PICK needs, todo : peer' = Begin([peer EXCEPT ![p].peer_needs = needs], todo).peers
  BY DEF OnFetchItemIds
<1>2. /\ UNCHANGED <<itemVars, setting>>
      /\ conn' = conn \/ conn' = Drop(conn, {p})
  BY DEF OnFetchItemIds
<1> DEFINE state == [peer[p] EXCEPT !.peer_needs = needs]
           before == [peer EXCEPT ![p] = state]
<1>3. peer' = Begin(before, todo).peers
  BY <1>1
<1>4. DOMAIN state = PeerFields /\ state.sync_items_requested = peer[p].sync_items_requested
  BY DEF RequestInv, KeepsRequests, PeerFields
<1> HIDE DEF state
<1>5. KeepsRequests(peer, before)
  BY <1>4, OnePeerKeeps DEF RequestInv
<1> HIDE DEF before
<1>6. KeepsRequests(peer, peer')
  BY <1>3, <1>5, BeginKeeps
<1>7. NothingRequested
  BY <1>2, <1>6, ClosingKeeps DEF NothingRequested, RequestInv, itemVars
<1> QED BY <1>2, <1>7, NothingRequestedKeeps DEF RequestInv, itemVars

\* A peer advertises a block: that is requested in another way.
LEMMA AdvertiseKeeps ==
  ASSUME RequestInv, NEW p \in Peers, Advertise(p)
  PROVE  RequestInv'
<1> DEFINE id == Last(theirs[p])
           state == [peer[p] EXCEPT !.advertised = @ \cup {id}, !.items_requested = {id}]
<1>1. peer' = [peer EXCEPT ![p] = state] /\ UNCHANGED <<conn, itemVars, setting>>
  BY DEF Advertise
<1> HIDE DEF id
<1>2. DOMAIN state = PeerFields /\ state.sync_items_requested = peer[p].sync_items_requested
  BY DEF RequestInv, KeepsRequests, PeerFields
<1> HIDE DEF state
<1>3. KeepsRequests(peer, peer')
  BY <1>1, <1>2, OnePeerKeeps DEF RequestInv
<1>4. NothingRequested
  BY <1>1, <1>3, ClosingKeeps DEF NothingRequested, RequestInv, itemVars
<1> QED BY <1>1, <1>4, NothingRequestedKeeps DEF RequestInv, itemVars

\* The steps that change neither what is requested nor what was received:
\* the chain database handles or rejects a block, a peer's chain grows, and
\* a connection is given up.
LEMMA OthersKeep ==
  ASSUME RequestInv,
         \/ HandleBlock
         \/ \E i \in 1..Len(calls) : BlockRejected(i)
         \/ \E p \in Peers : TerminateInactive(p) \/ TheirChainGrows(p)
  PROVE  RequestInv'
<1>1. UNCHANGED <<peer, itemVars, setting>>
  BY DEF HandleBlock, BlockRejected, TerminateInactive, TheirChainGrows
<1>2. SameConnections
  <2>1. CASE HandleBlock \/ \E p \in Peers : TheirChainGrows(p)
    <3>1. conn' = conn
      BY <2>1 DEF HandleBlock, TheirChainGrows
    <3> QED BY <3>1, ClosingKeeps DEF RequestInv
  <2>2. CASE \E i \in 1..Len(calls) : BlockRejected(i)
    <3>1. \E ps : conn' = Drop(conn, ps)
      BY <2>2 DEF BlockRejected
    <3> QED BY <3>1, ClosingKeeps DEF RequestInv
  <2>3. CASE \E p \in Peers : TerminateInactive(p)
    <3>1. PICK p \in Peers : conn[p] = "active" /\ conn' = [conn EXCEPT ![p] = "closing"]
      BY <2>3 DEF TerminateInactive
    <3> QED BY <3>1, ClosingKeeps DEF RequestInv
  <2> QED BY <2>1, <2>2, <2>3
<1>3. NothingRequested
  BY <1>1, <1>2 DEF NothingRequested, RequestInv, itemVars
<1> QED BY <1>1, <1>3, NothingRequestedKeeps DEF RequestInv, itemVars

\* on_connection_closed frees what the peer was to send for the others.
LEMMA ClosedConnectionKeeps ==
  ASSUME RequestInv, NEW p \in Peers, OnConnectionClosed(p)
  PROVE  RequestInv'
<1> DEFINE freed == peer[p].sync_items_requested
<1>1. /\ conn[p] = "closing" /\ conn' = [conn EXCEPT ![p] = "gone"]
      /\ active_sync_requests' = active_sync_requests \ freed
      /\ UNCHANGED <<peer, received_sync_items, new_received_sync_items, setting>>
  BY DEF OnConnectionClosed
<1>2. DOMAIN conn' = Peers /\ Connected' = Connected \ {p} /\ p \in Connected
  BY <1>1 DEF RequestInv, Connected
<1>3. /\ \A q \in Connected : peer[q].sync_items_requested \subseteq active_sync_requests
      /\ \A q, r \in Connected : q # r =>
           peer[q].sync_items_requested \cap peer[r].sync_items_requested = {}
  BY DEF RequestInv, AskedOfOne
<1>4. AskedOfOne'
  BY <1>1, <1>2, <1>3 DEF AskedOfOne
<1>5. StillExpected => StillExpected'
  BY <1>1, <1>2 DEF StillExpected
<1> QED BY <1>1, <1>2, <1>4, <1>5 DEF RequestInv

\* new_peer_just_added: a new connection has no requests.
LEMMA NewPeerKeeps ==
  ASSUME RequestInv, NEW p \in Peers, NewPeerJustAdded(p)
  PROVE  RequestInv'
<1> DEFINE before == [peer EXCEPT ![p] = NewPeer]
           peers == Begin(before, <<Restart(p)>>).peers
<1>1. /\ conn[p] = "gone" /\ conn' = [conn EXCEPT ![p] = "active"] /\ peer' = peers
      /\ UNCHANGED <<itemVars, setting>>
  BY Zenon DEF NewPeerJustAdded
<1>2. DOMAIN conn' = Peers /\ Connected' = Connected \cup {p} /\ p \notin Connected
      /\ Connected \subseteq Peers
  BY <1>1 DEF RequestInv, Connected
<1>3. DOMAIN NewPeer = PeerFields /\ NewPeer.sync_items_requested = {}
  BY DEF NewPeer, PeerFields
<1>4. /\ DOMAIN before = Peers
      /\ \A q \in Peers : before[q] = IF q = p THEN NewPeer ELSE peer[q]
  BY DEF RequestInv, KeepsRequests
<1> HIDE DEF before
<1>5. KeepsRequests(before, before)
  BY <1>3, <1>4 DEF RequestInv, KeepsRequests
<1>6. KeepsRequests(before, peers)
  BY <1>5, BeginKeeps
<1> HIDE DEF peers
<1>7. \A q \in Peers : peer'[q].sync_items_requested =
        IF q = p THEN {} ELSE peer[q].sync_items_requested
  BY <1>1, <1>3, <1>4, <1>6 DEF KeepsRequests
<1>8. KeepsRequests(peer', peer')
  BY <1>1, <1>6 DEF KeepsRequests
<1>9. AskedOfOne'
  BY <1>1, <1>2, <1>7 DEF RequestInv, AskedOfOne, itemVars
<1>10. StillExpected => StillExpected'
  BY <1>1, <1>2, <1>7 DEF StillExpected, itemVars
<1> QED BY <1>1, <1>2, <1>8, <1>9, <1>10 DEF RequestInv, itemVars

-----------------------------------------------------------------------------
\* The requests are in order after every step of the node and of the peers.
LEMMA RequestInvCorrect == Spec => []RequestInv
<1>1. Init => RequestInv
  <2> SUFFICES ASSUME Init PROVE RequestInv
    OBVIOUS
  <2>1. DOMAIN NewPeer = PeerFields /\ NewPeer.sync_items_requested = {}
    BY DEF NewPeer, PeerFields
  <2>2. DOMAIN peer = Peers /\ \A p \in Peers : peer[p] = NewPeer
    BY DEF Init
  <2>3. <<>> \in Seq({})
    OBVIOUS
  <2>4. DOMAIN conn = Peers /\ active_sync_requests = {}
        /\ received_sync_items = <<>> /\ new_received_sync_items = <<>>
    BY DEF Init
  <2>5. AskedOfOne /\ StillExpected
    BY <2>1, <2>2, <2>4 DEF AskedOfOne, StillExpected, Connected
  <2> QED BY <2>1, <2>2, <2>3, <2>4, <2>5 DEF RequestInv, KeepsRequests, IsSequence
<1>2. RequestInv /\ [Next]_vars => RequestInv'
  <2> SUFFICES ASSUME RequestInv, [Next]_vars PROVE RequestInv'
    OBVIOUS
  <2>1. CASE UNCHANGED vars
    BY <2>1 DEF vars, RequestInv, AskedOfOne, StillExpected, Connected
  <2>2. CASE FetchSyncItems
    BY <2>2, FetchKeeps
  <2>3. CASE ProcessBacklog
    BY <2>3, ProcessBacklogKeeps
  <2>4. CASE BacklogResumes \/ (\E i \in 1..Len(calls) : CallResumes(i))
             \/ (\E p \in Peers : HandlerResumes(p))
    BY <2>4, ResumesKeep
  <2>5. CASE HandleBlock \/ (\E i \in 1..Len(calls) : BlockRejected(i))
             \/ (\E p \in Peers : TerminateInactive(p) \/ TheirChainGrows(p))
    BY <2>5, OthersKeep
  <2>6. CASE \E i \in 1..Len(calls) : BlockAccepted(i)
    BY <2>6, BlockAcceptedKeeps
  <2>7. CASE \E p \in Peers : OnItemIds(p)
    BY <2>7, OnItemIdsKeeps
  <2>8. CASE \E p \in Peers : OnBlock(p)
    BY <2>8, OnBlockKeeps
  <2>9. CASE \E p \in Peers : OnItemNotAvailable(p)
    BY <2>9, NotAvailableKeeps
  <2>10. CASE \E p \in Peers : OnFetchItemIds(p)
    BY <2>10, OnFetchItemIdsKeeps
  <2>11. CASE \E p \in Peers : OnConnectionClosed(p)
    BY <2>11, ClosedConnectionKeeps
  <2>12. CASE \E p \in Peers : NewPeerJustAdded(p)
    BY <2>12, NewPeerKeeps
  <2>13. CASE \E p \in Peers : Advertise(p)
    BY <2>13, AdvertiseKeeps
  <2> QED BY <2>1, <2>2, <2>3, <2>4, <2>5, <2>6, <2>7, <2>8, <2>9, <2>10, <2>11, <2>12, <2>13,
             Zenon DEF Next
<1> QED BY <1>1, <1>2, PTL DEF Spec

\* A block is requested of one connected peer at a time, and is on the list
\* _active_sync_requests while it is, also when peers lack what they listed.
THEOREM NoBlockAskedOfTwo == Spec => []AskedOfOne
<1>1. RequestInv => AskedOfOne
  BY DEF RequestInv
<1> QED BY <1>1, RequestInvCorrect, PTL

\* "list of sync blocks we've asked for from peers but have not yet
\* received": with peers that have what they list, a block is on it exactly
\* while one connected peer is expected to send it, so that a block is never
\* withheld from the fetch loop for a request that nobody will answer.
THEOREM RequestsAreExpected == Spec => [](setting.lacking = {} => RequestedOfOne)
<1>1. RequestInv => (setting.lacking = {} => RequestedOfOne)
  <2> SUFFICES ASSUME RequestInv, setting.lacking = {} PROVE RequestedOfOne
    OBVIOUS
  <2>1. AskedOfOne /\ StillExpected
    BY DEF RequestInv
  <2> QED BY <2>1 DEF AskedOfOne, StillExpected, RequestedOfOne
<1> QED BY <1>1, RequestInvCorrect, PTL
=============================================================================
