--------------------------- MODULE ChainDatabase ---------------------------
(***************************************************************************)
(* graphene::chain::database, the part that turns blocks and transactions  *)
(* arriving in any order into one chain: push_block with its fork          *)
(* switches, push_transaction and the pending block, generate_block, and   *)
(* close, open and reindex, with the fork database and the block log they  *)
(* use.                                                                    *)
(*                                                                         *)
(* The network delivers blocks of a fixed tree, in any order and any       *)
(* number of times.  A block is a model value; its header and transactions *)
(* are constant functions.  What a transaction does to the object database *)
(* is abstracted to the number of times it has been applied, and that it   *)
(* fails after a transaction it conflicts with.                            *)
(*                                                                         *)
(* Each iteration of the loops of push_block, close and reindex is a step, *)
(* so that a crash can fall between any two; nothing else runs in between. *)
(* The undo database is taken as what UndoDatabase is proved to implement, *)
(* a stack of complete copies.  Its bottom part, the committed states, is  *)
(* undo; the state at the head block is db and the one with the changes of *)
(* _pending_tx_session is pending_db.                                      *)
(***************************************************************************)
EXTENDS Integers, Sequences, FiniteSets, SequencesExt, FiniteSetsExt

CONSTANTS Blocks, NoBlock,  \* the block tree; NoBlock is the zero block id
          Prev,             \* previous, per block
          Slot,             \* timestamp, per block
          WitnessOf,        \* witness, per block
          TxsOf,            \* transactions, per block
          Bad,              \* blocks that fail to apply for a reason of their own
          Txs,              \* transactions
          Expires,          \* expiration, per transaction
          MaxUntilExpiration,  \* maximum_time_until_expiration
          Conflicts,        \* transactions that must not have been applied before
          ProposalTxs,      \* transactions that execute a proposal at once
          Witnesses,        \* the active witnesses
          BlockCap,         \* how many transactions fit into a block
          MaxUndoHistory,   \* GRAPHENE_MAX_UNDO_HISTORY
          InitialMax,       \* _max_size of both databases before the first block
          Restarts          \* whether the node may stop, crash and start again

Ids == Blocks \cup {NoBlock}

(***************************************************************************)
(* block_header::block_num, and the chain that ends in a block.            *)
(***************************************************************************)
Num[b \in Ids] == IF b = NoBlock THEN 0 ELSE Num[Prev[b]] + 1
Path[b \in Ids] == IF b = NoBlock THEN <<>> ELSE Append(Path[Prev[b]], b)

Nums == {Num[b] : b \in Blocks}

ASSUME BlockAssumption ==
  /\ NoBlock \notin Blocks
  /\ Prev \in [Blocks -> Ids]
  /\ \A S \in (SUBSET Blocks) \ {{}} : \E b \in S : Prev[b] \notin S  \* no cycles
  /\ Slot \in [Blocks -> Nat \ {0}]
  /\ WitnessOf \in [Blocks -> Witnesses]
  /\ \A b \in Blocks : TxsOf[b] \in Seq(Txs)
  /\ Bad \subseteq Blocks

ASSUME TxAssumption ==
  /\ Expires \in [Txs -> Nat]
  /\ Conflicts \in [Txs -> SUBSET Txs]
  /\ ProposalTxs \subseteq Txs
  /\ MaxUntilExpiration \in Nat
  /\ BlockCap \in Nat /\ MaxUndoHistory \in Nat /\ InitialMax \in Nat
  /\ Restarts \in BOOLEAN
  /\ IsFiniteSet(Witnesses) /\ Witnesses # {}

VARIABLES db,               \* the object database at the head block
          pending_db,       \* the same with the pending transactions applied
          pending_session,  \* _pending_tx_session.valid()
          pending,          \* _pending_tx
          popped,           \* _popped_tx
          undo,             \* the committed states of _undo_db, oldest first
          undo_max,         \* _undo_db._max_size
          fork,             \* _fork_db
          log,              \* _block_id_to_block
          unflushed,        \* the last store, which a crash may lose
          disk,             \* the object database as last flushed
          task              \* the call that is running, and where it is

vars == <<db, pending_db, pending_session, pending, popped, undo, undo_max,
          fork, log, unflushed, disk, task>>
pendingVars == <<pending_db, pending_session, pending>>
logVars == <<log, unflushed>>

-----------------------------------------------------------------------------
(***************************************************************************)
(* The object database: dynamic global properties, the last block of each  *)
(* witness, the transaction index and what the transactions did.           *)
(***************************************************************************)
Genesis ==
  [head |-> NoBlock, time |-> 0, lib |-> 0,
   confirmed |-> [w \in Witnesses |-> 0],
   dedupe |-> {},
   times |-> [t \in Txs |-> 0]]

Failed == [head |-> NoBlock, failed |-> TRUE]

(***************************************************************************)
(* _apply_transaction; skip is skip_transaction_dupe_check.                *)
(***************************************************************************)
CanApplyTx(d, t, skip) ==
  /\ skip \/ t \notin d.dedupe
  /\ d.head # NoBlock => d.time <= Expires[t] /\ Expires[t] <= d.time + MaxUntilExpiration
  /\ \A u \in Conflicts[t] : d.times[u] = 0

AfterTx(d, t, skip) ==
  [d EXCEPT !.dedupe = IF skip THEN @ ELSE @ \cup {t},
            !.times[t] = @ + 1]

TxStep(d, t, skip) ==
  IF d # Failed /\ CanApplyTx(d, t, skip) THEN AfterTx(d, t, skip) ELSE Failed

ApplyTxs(d, ts, skip) ==
  LET after[i \in 0..Len(ts)] == IF i = 0 THEN d ELSE TxStep(after[i - 1], ts[i], skip)
  IN after[Len(ts)]

(***************************************************************************)
(* update_last_irreversible_block: the number that all but 30% of the      *)
(* active witnesses have reached.                                          *)
(***************************************************************************)
LastIrreversible(confirmed) ==
  LET offset == (3 * Cardinality(Witnesses)) \div 10
  IN CHOOSE n \in {confirmed[w] : w \in Witnesses} :
       /\ Cardinality({w \in Witnesses : confirmed[w] < n}) <= offset
       /\ Cardinality({w \in Witnesses : confirmed[w] <= n}) > offset

(***************************************************************************)
(* update_global_dynamic_data, update_signing_witness,                     *)
(* update_last_irreversible_block and clear_expired_transactions.          *)
(***************************************************************************)
\* Mutant: a transaction is forgotten at its expiration time, not after it.
ClearAtExpiration(d) == {t \in d.dedupe : d.time < Expires[t]}

ClearExpired(d) == {t \in d.dedupe : d.time <= Expires[t]}

Advance(d, b) ==
  LET confirmed == [d.confirmed EXCEPT ![WitnessOf[b]] = Num[b]]
      e == [d EXCEPT !.head = b,
                     !.time = Slot[b],
                     !.confirmed = confirmed,
                     !.lib = Max({@, LastIrreversible(confirmed)})]
  IN [e EXCEPT !.dedupe = ClearExpired(e)]

(***************************************************************************)
(* _apply_block on top of d: the new state, or Failed if it throws.        *)
(***************************************************************************)
HeaderOK(d, b) == b \notin Bad /\ Prev[b] = d.head /\ d.time < Slot[b]

ApplyBlock(d, b, skip) ==
  LET e == ApplyTxs(d, TxsOf[b], skip)
  IN IF /\ HeaderOK(d, b)
        /\ e # Failed
        /\ Num[b] - d.lib < MaxUndoHistory
     THEN Advance(e, b)
     ELSE Failed

-----------------------------------------------------------------------------
(***************************************************************************)
(* start_undo_session when nested sessions are already live above the      *)
(* committed states: the stack is trimmed to _max_size, from the bottom.   *)
(***************************************************************************)
KeepNewest(s, n) ==
  IF n <= 0 THEN <<>>
  ELSE IF Len(s) > n THEN SubSeq(s, Len(s) - n + 1, Len(s)) ELSE s

\* Mutant: the trimming leaves no room for the new state.
OpenedShort(u, nested) == KeepNewest(u, undo_max - nested - 1)

Opened(u, nested) == KeepNewest(u, undo_max - nested)

(***************************************************************************)
(* A transaction that executes a proposal opens one more session.          *)
(***************************************************************************)
OpenedFor(u, d, ts, nested, skip) ==
  IF \E i \in DOMAIN ts :
       /\ ts[i] \in ProposalTxs
       /\ ApplyTxs(d, SubSeq(ts, 1, i), skip) # Failed
  THEN Opened(u, nested + 1)
  ELSE Opened(u, nested)

-----------------------------------------------------------------------------
(***************************************************************************)
(* fork_database.  linked holds the items of the index whose prev pointer  *)
(* still leads to an item; head_linked says it of _head, which may be an   *)
(* item that is no longer in the index.                                    *)
(***************************************************************************)
EmptyFork == [index |-> {}, linked |-> {}, head |-> NoBlock,
              head_linked |-> FALSE, max |-> InitialMax]

\* Mutant: the links of what is removed stay.
DiscardKeepsLinks(f, gone) == [f EXCEPT !.index = @ \ gone]

Discard(f, gone) ==
  [f EXCEPT
     !.index = @ \ gone,
     !.linked = {x \in @ : x \notin gone /\ Prev[x] \notin gone},
     !.head_linked = @ /\ Prev[f.head] \notin gone]

TooOld(f, b) ==
  f.head # NoBlock /\ Num[b] <= Max({0, Num[f.head] - f.max})

Unlinkable(f, b) ==
  f.head # NoBlock /\ Prev[b] # NoBlock /\ Prev[b] \notin f.index

ForkPush(f, b) ==
  LET links == f.head # NoBlock /\ Prev[b] # NoBlock
      g == [f EXCEPT !.index = @ \cup {b},
                     !.linked = IF links /\ b \notin f.index
                                THEN @ \cup {b} ELSE @]
      h == [g EXCEPT !.head = b, !.head_linked = links]
  IN IF f.head = NoBlock THEN h
     ELSE IF Num[b] > Num[f.head]
     THEN Discard(h, {x \in h.index : Num[x] < Num[b] - Min({h.max, Num[b]})})
     ELSE g

ForkSetMaxSize(f, size) ==
  LET g == [f EXCEPT !.max = size]
  IN IF f.head = NoBlock THEN g
     ELSE Discard(g, {x \in g.index : Num[x] < Max({0, Num[f.head] - size})})

ForkSetHead(f, b) == [f EXCEPT !.head = b, !.head_linked = b \in f.linked]

\* Mutant: pop_block also takes the block out of the index.
ForkPopErases(f) == Discard(ForkSetHead(f, Prev[f.head]), {f.head})

ForkPop(f) == ForkSetHead(f, Prev[f.head])

ForkStart(f, b) ==
  [f EXCEPT !.index = @ \cup {b}, !.head = b, !.head_linked = FALSE]

(***************************************************************************)
(* fetch_branch_from: the two branches, oldest block first, or nothing if  *)
(* a block on the way is not in the fork database any more.                *)
(***************************************************************************)
DivergeAt(first, second) ==
  Max({i \in 1 .. Min({Num[first], Num[second]}) :
         Prev[Path[first][i]] = Prev[Path[second][i]]})

BranchFrom(first, second) ==
  SubSeq(Path[first], DivergeAt(first, second), Num[first])

BranchesKnown(f, first, second) ==
  /\ first \in f.index /\ second \in f.index
  /\ \A b \in Range(Tail(BranchFrom(first, second)))
              \cup Range(Tail(BranchFrom(second, first))) : b \in f.linked

-----------------------------------------------------------------------------
(***************************************************************************)
(* block_database: an entry of the index file names a block and points to  *)
(* the data of a block.                                                    *)
(***************************************************************************)
NoEntry == [id |-> NoBlock, data |-> NoBlock]
Flushed == [num |-> 0, was |-> NoEntry]
\* Mutant: an entry is never replaced.
StoreOnce(l, id, b) ==
  IF l[Num[id]] # NoEntry THEN l
  ELSE [l EXCEPT ![Num[id]] = [id |-> id, data |-> b]]

Store(l, id, b) == [l EXCEPT ![Num[id]] = [id |-> id, data |-> b]]
Valid(e) == e # NoEntry /\ e.id = e.data

FetchByNumber(l, n) ==
  IF n \in DOMAIN l /\ Valid(l[n]) THEN l[n].data ELSE NoBlock

FetchOptional(l, id) ==
  IF l[Num[id]].id = id /\ Valid(l[Num[id]]) THEN id ELSE NoBlock

(***************************************************************************)
(* last_index_entry: the newest readable entry; what is behind it is cut   *)
(* off.                                                                    *)
(***************************************************************************)
LastNum(l) == Max({0} \cup {n \in DOMAIN l : Valid(l[n])})
CutAfter(l, last) == [n \in DOMAIN l |-> IF n <= last THEN l[n] ELSE NoEntry]

-----------------------------------------------------------------------------
(***************************************************************************)
(* What is running.  at: idle, or the loop of push_block, close or reindex *)
(* that is being executed, or down.  block is the argument of push_block,  *)
(* keep the transactions pending when it was called and before the         *)
(* database at that time; todo and good are the branches still to be       *)
(* applied.  While reindex runs, i is its loop counter and last its bound. *)
(***************************************************************************)
Idle == [at |-> "idle", block |-> NoBlock, keep |-> <<>>, before |-> Genesis,
         todo |-> <<>>, good |-> <<>>, failed |-> FALSE, i |-> 0, last |-> 0]

Stopped == [Idle EXCEPT !.at = "down"]
Broken == [Idle EXCEPT !.at = "broken"]  \* open has thrown
Replaying == task.i # 0

Init ==
  /\ db = Genesis
  /\ pending_db = Genesis
  /\ pending_session = FALSE
  /\ pending = <<>>
  /\ popped = <<>>
  /\ undo = <<>>
  /\ undo_max = InitialMax
  /\ fork = EmptyFork
  /\ log = [n \in Nums |-> NoEntry]
  /\ unflushed = Flushed
  /\ disk = Genesis
  /\ task = Idle

(***************************************************************************)
(* database::push_block up to the first loop.  u is the undo stack it      *)
(* starts from.  The pending session is undone and the pending             *)
(* transactions are set aside; all ways out lead to the restorer.          *)
(***************************************************************************)
Calling(b) ==
  [task EXCEPT !.at = "restore_pending", !.block = b, !.keep = pending,
               !.before = db, !.failed = FALSE]

ClearPending ==
  /\ pending' = <<>>
  /\ pending_session' = FALSE

RejectBlock(b, u) ==
  /\ TooOld(fork, b) \/ Unlinkable(fork, b)
  /\ task' = [Calling(b) EXCEPT !.failed = TRUE]
  /\ undo' = u
  /\ UNCHANGED <<db, pending_db, popped, undo_max, fork, logVars, disk>>

CacheBlock(b, u) ==
  LET f == ForkPush(fork, b)
  IN /\ Prev[f.head] # db.head /\ Num[f.head] <= Num[db.head]
     /\ fork' = f
     /\ task' = Calling(b)
     /\ undo' = u
     /\ UNCHANGED <<db, pending_db, popped, undo_max, logVars, disk>>

StartSwitch(b, u) ==
  LET f == ForkPush(fork, b)
  IN /\ Prev[f.head] # db.head /\ Num[f.head] > Num[db.head]
     /\ fork' = f
     /\ task' = IF BranchesKnown(f, f.head, db.head)
                THEN [Calling(b) EXCEPT
                        !.at = "switch_pop",
                        !.todo = BranchFrom(f.head, db.head),
                        !.good = BranchFrom(db.head, f.head)]
                ELSE [Calling(b) EXCEPT !.failed = TRUE]
     /\ undo' = u
     /\ UNCHANGED <<db, pending_db, popped, undo_max, logVars, disk>>

(***************************************************************************)
(* The session in which one block is applied; what is stored under which   *)
(* id; the sizes that update_global_dynamic_data sets.                     *)
(***************************************************************************)
Applied(b, id, f, u) ==
  LET d == ApplyBlock(db, b, Replaying)
      size == Num[b] - db.lib + 1
  IN /\ d # Failed
     /\ db' = d
     /\ undo' = Append(OpenedFor(u, db, TxsOf[b], 0, Replaying), db)
     /\ undo_max' = size
     /\ fork' = ForkSetMaxSize(f, size)
     /\ log' = Store(log, id, b)
     /\ unflushed' = [num |-> Num[id], was |-> log[Num[id]]]

NotApplied(b, f, u) ==
  /\ ApplyBlock(db, b, Replaying) = Failed
  /\ undo' = IF HeaderOK(db, b)
             THEN OpenedFor(u, db, TxsOf[b], 0, Replaying)
             ELSE Opened(u, 0)
  /\ fork' = f
  /\ UNCHANGED <<db, undo_max, logVars>>

ExtendHead(b, u) ==
  LET f == ForkPush(fork, b)
  IN /\ Prev[f.head] = db.head
     /\ \/ Applied(b, b, f, u) /\ task' = Calling(b)
        \/ /\ NotApplied(b, Discard(f, {b}), u)
           /\ task' = [Calling(b) EXCEPT !.failed = TRUE]
     /\ UNCHANGED <<pending_db, popped, disk>>

EnterPushBlock(b, u) ==
  /\ ClearPending
  /\ \/ RejectBlock(b, u)
     \/ /\ ~TooOld(fork, b) /\ ~Unlinkable(fork, b)
        /\ CacheBlock(b, u) \/ StartSwitch(b, u) \/ ExtendHead(b, u)

PushBlock(b) == task = Idle /\ EnterPushBlock(b, undo)

(***************************************************************************)
(* database::pop_block.  It asks for the head block first, moves the head  *)
(* of the fork database back and then pops the undo state; either may      *)
(* throw.                                                                  *)
(***************************************************************************)
HeadBlockFound ==
  /\ db.head # NoBlock
  /\ db.head \in fork.index \/ FetchOptional(log, db.head) # NoBlock

PopThrows == ~HeadBlockFound \/ ~fork.head_linked \/ undo = <<>>

\* Mutant: the effects of the transactions are not undone.
PopBlockKeepsEffects ==
  /\ ~PopThrows
  /\ db' = [Last(undo) EXCEPT !.times = db.times]
  /\ undo' = Front(undo)
  /\ popped' = TxsOf[db.head] \o popped

PopBlock ==
  /\ ~PopThrows
  /\ db' = Last(undo)
  /\ undo' = Front(undo)
  /\ popped' = TxsOf[db.head] \o popped

PopFails ==
  /\ PopThrows
  /\ fork' = IF HeadBlockFound /\ fork.head_linked THEN ForkPop(fork) ELSE fork
  /\ UNCHANGED <<db, undo, popped>>

Common == Prev[Head(task.good)]

(***************************************************************************)
(* The fork switch: pop to the common ancestor, apply the other branch.    *)
(* If one of its blocks fails, pop what was applied of it, and apply the   *)
(* good branch again.  Nothing catches an exception of pop_block.          *)
(***************************************************************************)
PopToCommon ==
  /\ task.at \in {"switch_pop", "bad_pop"}
  /\ \/ /\ PopBlock /\ fork' = ForkPop(fork)
        /\ task' = [task EXCEPT
             !.at = IF db'.head # Common THEN @
                    ELSE IF @ = "switch_pop" THEN "switch_apply" ELSE "good_apply"]
     \/ /\ PopFails
        /\ task' = [task EXCEPT !.at = "restore_pending", !.failed = TRUE]
  /\ UNCHANGED <<pendingVars, undo_max, logVars, disk>>

SwitchApply ==
  LET b == Head(task.todo)
  IN /\ task.at = "switch_apply"
     /\ \/ /\ Applied(b, b, fork, undo)
           /\ task' = [task EXCEPT
                !.at = IF Len(task.todo) = 1 THEN "restore_pending" ELSE @,
                !.todo = Tail(@)]
        \/ /\ NotApplied(b,
                ForkSetHead(Discard(fork, Range(task.todo)), Last(task.good)),
                undo)
           /\ task' = [task EXCEPT
                !.at = IF db.head = Common THEN "good_apply" ELSE "bad_pop",
                !.todo = <<>>,
                !.failed = TRUE]
     /\ UNCHANGED <<pendingVars, popped, disk>>

\* Mutant: only the first block of the good branch is restored.
GoodApplyOnce ==
  /\ task.at = "good_apply"
  /\ Applied(Head(task.good), task.block, fork, undo)
  /\ task' = [task EXCEPT !.at = "restore_pending"]
  /\ UNCHANGED <<pendingVars, popped, disk>>

GoodApply ==
  LET g == Head(task.good)
  IN /\ task.at = "good_apply"
     /\ \/ /\ Applied(g, task.block, fork, undo)
           /\ task' = [task EXCEPT
                !.at = IF Len(task.good) = 1 THEN "restore_pending" ELSE @,
                !.good = Tail(@)]
        \/ /\ NotApplied(g, fork, undo)
           /\ task' = [task EXCEPT !.at = "restore_pending"]
     /\ UNCHANGED <<pendingVars, popped, disk>>

-----------------------------------------------------------------------------
(***************************************************************************)
(* _push_transaction, on the part of the state it works on.  It leaves the *)
(* pending session open even if the transaction fails.                     *)
(***************************************************************************)
\* Mutant: the transaction is queued before it is applied.
PushTxQueuesFirst(p, t, skip) ==
  LET ok == CanApplyTx(p.db, t, skip)
      u == Opened(IF p.session THEN p.undo ELSE Opened(p.undo, 0), 1)
  IN [session |-> TRUE,
      undo |-> OpenedFor(u, p.db, <<t>>, 1, skip),
      db |-> IF ok THEN AfterTx(p.db, t, skip) ELSE p.db,
      txs |-> Append(p.txs, t)]

PushTx(p, t, skip) ==
  LET ok == CanApplyTx(p.db, t, skip)
      u == Opened(IF p.session THEN p.undo ELSE Opened(p.undo, 0), 1)
  IN [session |-> TRUE,
      undo |-> OpenedFor(u, p.db, <<t>>, 1, skip),
      db |-> IF ok THEN AfterTx(p.db, t, skip) ELSE p.db,
      txs |-> IF ok THEN Append(p.txs, t) ELSE p.txs]

(***************************************************************************)
(* ~pending_transactions_restorer: popped transactions first, then the     *)
(* ones that were pending; failures are dropped.                           *)
(***************************************************************************)
RequeueTx(p, t) == IF t \in p.db.dedupe THEN p ELSE PushTx(p, t, Replaying)

Requeue(p, ts) ==
  LET after[i \in 0..Len(ts)] == IF i = 0 THEN p ELSE RequeueTx(after[i - 1], ts[i])
  IN after[Len(ts)]

\* Mutant: the loop of reindex does not advance.
RestorePendingSameBlock ==
  /\ task.at = "restore_pending"
  /\ pending_session' = FALSE
  /\ pending_db' = db
  /\ pending' = <<>>
  /\ popped' = <<>>
  /\ task' = IF Replaying THEN [task EXCEPT !.at = "reindex"] ELSE Idle
  /\ UNCHANGED <<db, undo, undo_max, fork, logVars, disk>>

RestorePending ==
  LET p == Requeue([session |-> FALSE, undo |-> undo, db |-> db, txs |-> <<>>],
                   popped \o task.keep)
  IN /\ task.at = "restore_pending"
     /\ pending_session' = p.session
     /\ pending_db' = p.db
     /\ pending' = p.txs
     /\ undo' = p.undo
     /\ popped' = <<>>
     /\ task' = IF ~Replaying THEN Idle
                ELSE IF task.failed THEN Broken
                ELSE IF task.i = task.last THEN Idle
                ELSE [Idle EXCEPT !.at = "reindex", !.i = task.i + 1,
                                  !.last = task.last]
     /\ UNCHANGED <<db, undo_max, fork, logVars, disk>>

(***************************************************************************)
(* push_transaction for a new transaction, and validate_transaction, which *)
(* always undoes its session.                                              *)
(***************************************************************************)
PushTransaction(t) ==
  LET p == PushTx([session |-> pending_session, undo |-> undo,
                   db |-> pending_db, txs |-> pending], t, FALSE)
  IN /\ task = Idle
     /\ pending_session' = p.session
     /\ pending_db' = p.db
     /\ pending' = p.txs
     /\ undo' = p.undo
     /\ UNCHANGED <<db, popped, undo_max, fork, logVars, disk, task>>

ValidateTransaction(t) ==
  /\ task = Idle
  /\ undo' = OpenedFor(undo, pending_db, <<t>>,
                       IF pending_session THEN 1 ELSE 0, FALSE)
  /\ UNCHANGED <<db, pendingVars, popped, undo_max, fork, logVars, disk, task>>

(***************************************************************************)
(* _generate_block: the pending session is rebuilt from the pending        *)
(* transactions; the ones that still apply, as far as they fit, make up    *)
(* the block.  It is enabled when the tree has that block.                 *)
(***************************************************************************)
SelectTx(p, t) == IF Len(p.txs) < BlockCap THEN PushTx(p, t, FALSE) ELSE p

Select(p, ts) ==
  LET after[i \in 0..Len(ts)] == IF i = 0 THEN p ELSE SelectTx(after[i - 1], ts[i])
  IN after[Len(ts)]

Selected ==
  Select([session |-> TRUE, undo |-> Opened(undo, 0), db |-> db, txs |-> <<>>], pending)

GenerateBlock(b) ==
  /\ task = Idle
  /\ Prev[b] = db.head /\ db.time < Slot[b]
  /\ TxsOf[b] = Selected.txs
  /\ EnterPushBlock(b, Selected.undo)

-----------------------------------------------------------------------------
(***************************************************************************)
(* close: rewind to the last irreversible block as far as the undo history *)
(* goes, flush the object database.                                        *)
(***************************************************************************)
Close ==
  /\ Restarts /\ task = Idle
  /\ ClearPending
  /\ pending_db' = db
  /\ task' = [Idle EXCEPT !.at = "rewind", !.last = db.lib]
  /\ UNCHANGED <<db, popped, undo, undo_max, fork, logVars, disk>>

Rewind ==
  /\ task.at = "rewind"
  /\ Num[db.head] > task.last
  /\ PopBlock /\ fork' = Discard(ForkPop(fork), {db.head})
  /\ UNCHANGED <<pendingVars, undo_max, logVars, disk, task>>

Flush ==
  /\ task.at = "rewind"
  /\ Num[db.head] <= task.last \/ PopThrows
  /\ disk' = db
  /\ unflushed' = Flushed
  /\ task' = Stopped
  /\ UNCHANGED <<db, pendingVars, popped, undo, undo_max, fork, log>>

(***************************************************************************)
(* The process stops.  What is in memory is lost.  The files of the block  *)
(* log are written through buffers of their own, and each store begins     *)
(* with a seek, which writes them out: of the last store the index entry   *)
(* may be missing, or be there without the block.  That a machine that     *)
(* stops may lose more, since nothing is synced to the disk, is left out.  *)
(***************************************************************************)
Survivors ==
  {log} \cup
  UNION {{[log EXCEPT ![n] = unflushed.was], [log EXCEPT ![n].data = NoBlock]} :
           n \in {unflushed.num} \cap Nums}

Crash ==
  /\ Restarts
  /\ task.at \notin {"down", "broken"}
  /\ log' \in Survivors
  /\ unflushed' = Flushed
  /\ task' = Stopped
  /\ UNCHANGED <<db, pendingVars, popped, undo, undo_max, fork, disk>>

(***************************************************************************)
(* reindex, up to its loop.  Chains shorter than 50 blocks are replayed    *)
(* with undo enabled, by push_block.                                       *)
(***************************************************************************)
StartReindex(l, last) ==
  LET first == FetchByNumber(l, Num[disk.head])
  IN \/ /\ last <= Num[disk.head]
        /\ task' = Idle /\ fork' = EmptyFork
     \/ /\ last > Num[disk.head]
        /\ disk.head # NoBlock /\ first = NoBlock
        /\ task' = Broken /\ fork' = EmptyFork
     \/ /\ last > Num[disk.head]
        /\ disk.head # NoBlock => first # NoBlock
        /\ task' = [Idle EXCEPT !.at = "reindex", !.i = Num[disk.head] + 1,
                                !.last = last]
        /\ fork' = IF disk.head = NoBlock THEN EmptyFork
                   ELSE ForkStart(EmptyFork, first)

(***************************************************************************)
(* open throws when the last id of the log is below the id of the head.    *)
(* Ids begin with the number of the block; ids of the same number are      *)
(* ordered by their hash, which may come out either way.                   *)
(***************************************************************************)
Open ==
  LET l == CutAfter(log, LastNum(log))
      last == LastNum(log)
  IN /\ task.at = "down"
     /\ db' = disk /\ pending_db' = disk
     /\ pending_session' = FALSE
     /\ pending' = <<>> /\ popped' = <<>>
     /\ undo' = <<>> /\ undo_max' = InitialMax
     /\ log' = l /\ unflushed' = Flushed
     /\ \/ last = 0 /\ task' = Idle /\ fork' = EmptyFork
        \/ /\ last # 0 /\ last <= Num[disk.head]
           /\ FetchByNumber(l, Num[disk.head]) # disk.head
           /\ task' = Broken /\ fork' = EmptyFork
        \/ /\ last # 0 /\ last >= Num[disk.head]
           /\ StartReindex(l, last)
     /\ UNCHANGED disk

(***************************************************************************)
(* One iteration of the loop of reindex.                                   *)
(***************************************************************************)
ReplayBlock ==
  /\ task.at = "reindex"
  /\ FetchByNumber(log, task.i) # NoBlock
  /\ EnterPushBlock(FetchByNumber(log, task.i), undo)

ReplayGap ==
  /\ task.at = "reindex"
  /\ FetchByNumber(log, task.i) = NoBlock
  /\ log' = CutAfter(log, LastNum(CutAfter(log, task.i)))
  /\ task' = Idle
  /\ UNCHANGED <<db, pendingVars, popped, undo, undo_max, fork, unflushed,
                 disk>>

-----------------------------------------------------------------------------
Step ==
  \/ PopToCommon \/ SwitchApply \/ GoodApply \/ RestorePending
  \/ Rewind \/ Flush \/ ReplayBlock \/ ReplayGap

Next ==
  \/ Step
  \/ \E b \in Blocks : PushBlock(b) \/ GenerateBlock(b)
  \/ \E t \in Txs : PushTransaction(t) \/ ValidateTransaction(t)
  \/ Close \/ Crash \/ Open

(***************************************************************************)
(* A call of the database runs to its end.                                 *)
(***************************************************************************)
Spec == Init /\ [][Next]_vars /\ WF_vars(Step)
-----------------------------------------------------------------------------
Loops == {"switch_pop", "switch_apply", "bad_pop", "good_apply"}
Places == Loops \cup {"idle", "restore_pending", "rewind", "reindex", "down",
                      "broken"}

DbType ==
  [head : Ids, time : Nat, lib : Nat, confirmed : [Witnesses -> Nat],
   dedupe : SUBSET Txs, times : [Txs -> Nat]]

\* The variables keep their types; the branches of a fork switch are there
\* while it runs, and the fork database links only what it has.
TypeOK ==
  /\ db \in DbType /\ pending_db \in DbType /\ disk \in DbType
  /\ pending_session \in BOOLEAN
  /\ pending \in Seq(Txs) /\ popped \in Seq(Txs)
  /\ undo \in Seq(DbType)
  /\ undo_max \in Nat
  /\ fork.index \subseteq Blocks /\ fork.linked \subseteq fork.index
  /\ fork.head \in Ids /\ fork.head_linked \in BOOLEAN /\ fork.max \in Nat
  /\ log \in [Nums -> [id : Ids, data : Ids]]
  /\ unflushed.num \in Nums \cup {0}
  /\ task.at \in Places
  /\ task.at \in Loops => task.good # <<>>

(***************************************************************************)
(* The reference: the blocks of a chain applied one after the other to the *)
(* genesis state, by a node that never saw another block.                  *)
(***************************************************************************)
Replayed[b \in Ids] ==
  IF b = NoBlock THEN Genesis ELSE
  LET d == Replayed[Prev[b]]
  IN IF d = Failed THEN Failed ELSE ApplyBlock(d, b, FALSE)

Working == task.at \notin {"down", "broken"}

WithoutDedupe(d) == [d EXCEPT !.dedupe = {}]

\* Whatever blocks arrived in whatever order, and whatever was switched,
\* popped and restored on the way, the state is the one that replaying the
\* chain of the head block gives (_push_block, pop_block).
StateIsReplay ==
  Working => /\ Replayed[db.head] # Failed
             /\ WithoutDedupe(db) = WithoutDedupe(Replayed[db.head])

\* The deduplication index holds the unexpired transactions of the chain: a
\* transaction_object is added for each transaction that is included.
DedupeComplete ==
  Working => db.dedupe = Replayed[db.head].dedupe

\* No transaction takes effect twice on one chain, in the state of the head
\* block or in the pending state.
NoTransactionTwice ==
  task.at = "idle" => \A t \in Txs : db.times[t] <= 1 /\ pending_db.times[t] <= 1

\* Duplicates are detected: the index is complete, and so no transaction that
\* was included, popped with its block or set aside is applied once more.
DuplicatesDetected == DedupeComplete /\ NoTransactionTwice

\* Between calls the pending session is the result of applying the pending
\* transactions to the head block (comment in _generate_block).
PendingMatches ==
  task.at = "idle" =>
    /\ pending_db = ApplyTxs(db, pending, FALSE)
    /\ pending # <<>> => pending_session

\* After a call the block log holds the chain of the head block, each block
\* under its own id (doc of push_block).
LogMatchesChain ==
  task.at = "idle" =>
    \A n \in 1 .. Num[db.head] :
      log[n] = [id |-> Path[db.head][n], data |-> Path[db.head][n]]

\* The part of "every partial change is unwound" (doc of push_block) that holds:
\* when push_block fails, the objects at the head block are those it started
\* from, also after a switch was given up half way.  The block log is not
\* unwound (LogMatchesChain fails then), and the fork database may keep the
\* removed block as its head.
FailedPushUnwound ==
  task.at = "restore_pending" /\ task.failed => db = task.before

\* Every block above the last irreversible one can be popped again.
UndoCoversReversible ==
  task.at = "idle" => Len(undo) >= Num[db.head] - Max({db.lib, Num[disk.head]})

\* the fork database takes whatever builds on the head block
HeadUsable ==
  \A b \in Blocks :
    Prev[b] = db.head => ~TooOld(fork, b) /\ ~Unlinkable(fork, b)

\* A successor of the head block is not turned away by the fork database: no
\* push, pop, trimming or removal, and no failed switch, takes from it what
\* the next block links to, unless its own head is a block that was removed
\* because it failed to apply (_push_block, fork_database::remove).
NextBlockAccepted ==
  [][HeadUsable /\ fork.head \in fork.index => HeadUsable']_vars

\* Every call of push_block, close and reindex comes to its end.
CallsEnd == task.at # "idle" ~> task.at \in {"idle", "down", "broken"}
=============================================================================
