# A TLA+ model of zos-core

zos-core is a Graphene-style blockchain node in C++. Witnesses take turns to
sign blocks; a node receives blocks and transactions from its peers in whatever
order the network delivers them, keeps the longest chain, and can go back from a
fork because every change of its in-memory object database can be undone. This
directory models the core of the node: the undo database, the chain database
with its fork database and block log, synchronisation with peers, block
production and elections, proposals with the authority checks they rest on, and
the budget of the core asset.

## The system

| part | state | operations | correct when |
|---|---|---|---|
| undo database (`libraries/db/undo_database.*`) | a stack of `undo_state`, the number of live sessions, `_disabled`, `_max_size` | `start_undo_session`, `undo`, `merge`, `commit`, `pop_commit`, the hooks `on_create`, `on_modify`, `on_remove` | undoing a session restores the database as it was when the session began |
| object database, primary index (`libraries/db`) | the objects and the next id of each type | `create`, `modify`, `remove`, `insert`, `flush`, `open` | ids are never handed out twice; each change reaches the undo database |
| fork database (`chain/fork_database.*`) | the recent blocks, linked by weak pointers, and a head | `push_block`, `pop_block`, `start_block`, `set_head`, `set_max_size`, `remove`, `fetch_branch_from` | a block that links is accepted; the branches of a switch are complete |
| block log (`chain/block_database.*`) | an index file and a block file | `store`, `fetch_*`, `last`, `remove` | it holds the current chain, each block under its own id |
| chain database, blocks (`chain/db_block.cpp`, `db_with.hpp`) | head block, pending transactions and their session, popped transactions | `push_block`, `push_transaction`, `validate_transaction`, `generate_block`, `pop_block` | the state is that of the head block; no transaction counts twice; a failed push leaves nothing behind |
| open, close, reindex (`chain/db_management.cpp`) | the object database on disk | `open`, `close`, `reindex`, `wipe` | a node that was stopped, cleanly or not, comes back on a state of the chain |
| end of block (`chain/db_update.cpp`) | last irreversible block, deduplication index, proposals, feeds | `update_*`, `clear_expired_*` | what must be undoable stays undoable; duplicates are detected until they expire |
| slots and schedule (`chain/db_witness_schedule.cpp`), witness plugin | current slot, shuffled witnesses, missed blocks | `get_slot_time`, `get_slot_at_time`, `update_witness_schedule`, the production loop | everybody computes the same slots; blocks keep coming; enough undo history is left |
| maintenance (`chain/db_maint.cpp`) | votes, active witnesses, parameters, budget | `perform_chain_maintenance`, `budget_miners`, `pay_workers` | the next maintenance is ahead; the core asset is neither lost nor made |
| proposals (`chain/proposal_*.cpp`), authorities (`protocol/transaction.cpp`) | proposals with approvals, ordered by expiration | create, update, delete, expiration; `check_authority`, `verify_authority` | a proposal is applied at most once, for sufficient approval, and ends |
| node, peers (`net/node.cpp`), application (`app/application.cpp`) | for each peer the ids it has offered and the blocks requested, the backlog of received blocks, calls to the chain database in progress | message handlers and asynchronous tasks on one thread, which other tasks interleave wherever one waits | blocks are handed over in order, every block is fetched, only guilty peers are dropped |
| other evaluators, vesting, API, history plugins, wallet | the objects of each kind, derived indexes | one evaluator per operation | consensus rules |

How they interact: the node calls `application::handle_block`, which calls
`database::push_block`; the witness plugin calls `generate_block`, which ends in
`push_block`. `push_block` sets the pending transactions aside, asks the fork
database for the head of the longest chain, pops and applies blocks in undo
sessions, stores them in the block log, and re-applies the transactions on the
way out. Applying a block updates slots, missed blocks and the last irreversible
block, executes and clears proposals, and now and then holds a maintenance with
elections and a new budget. The chain database works call by call on one thread;
what is hard there is order (blocks of two branches interleaved, repeated,
early), calls that fail half way, nested undo sessions with a bounded stack, and
a stop of the process between any two writes. The node is where fibers
interleave: a handler waits for a synopsis or for the result of a block, and
what it read before may have changed when it goes on.

## Modules

| module | what it is |
|---|---|
| `UndoDatabase` | the undo database and the primary index, one action per operation |
| `UndoHistory` | the same with a history variable `saved`, the specification and its properties |
| `SnapshotStack` | the abstract specification: a database with nested savepoints that are complete copies |
| `UndoProofs` | TLAPS proofs about `UndoHistory` |
| `ChainDatabase` | push_block and fork switches, pending transactions, block generation, close, crash, open, reindex; with fork database and block log |
| `ChainProofs` | TLAPS proofs about `ChainDatabase` |
| `Authority` | check_authority, verify_authority and the choice of signatures, as functions |
| `AuthorityRules` | what they should mean, for growing sets of signatures and approvals |
| `Proposals` | proposals, on top of `Authority` |
| `ProposalProofs` | TLAPS proofs about `Proposals` |
| `Synopsis` | the synopsis of a chain and its answer, as functions |
| `SynopsisRules` | what two nodes promise each other with them |
| `RulesProofs` | TLAPS proofs about `AuthorityRules` and `SynopsisRules` |
| `Sync` | synchronisation with several peers, on top of `Synopsis` |
| `SyncProofs` | TLAPS proofs about `Sync` |
| `Production` | slots, schedule, missed blocks, irreversibility, elections, production loop |
| `ProductionProofs` | TLAPS proofs about `Production` |
| `Budget` | issue, pay and destruction of the core asset, over the slots between maintenances |
| `BudgetProofs` | TLAPS proofs about `Budget` |
| `NumberLemmas` | facts about numbers, intervals and cardinalities that several proofs use |
| `MCUndo`, `MCChain`, `MCRules`, `MCProposals`, `MCSync`, `MCProduction`, `MCBudget` | instances for TLC |

`ChainDatabase` builds on the result of the first group: it uses committed undo
states as complete copies (`undo`), which is what `UndoDatabase` is proved to
implement; what it keeps of the mechanism is the trimming of the stack.
`Proposals` does the same for the objects of a block. `Sync` takes from
`ChainDatabase` that a block is accepted when its parent is known and it is
valid, and that the longest chain is preferred (`Pushed`). `Production` shares
one chain between the nodes; forks are the subject of `ChainDatabase`.

### UndoDatabase

`objects` maps each object id to its contents or `None`, `next_id` is the
counter of each index. An `undo_state` is a record of total functions, `None`
standing for "no entry". `Create`, `Modify` and `Remove` are the operations of
`primary_index` with their hook; `StartUndoSession`, `Undo`, `Merge`, `Commit`,
`PopCommit`, `SetMaxSize`, `Disable` and `Enable` those of `undo_database`.
`MergeStates` is the composition of the three loops of `merge`, in their order.
The end of a session includes its destructor (`EndSession`). What would make
`undo` throw is collected in `Revertible`, a guard of `Undo` and `PopCommit`;
`RevertNeverThrows` says that it never matters.

The callers' discipline is in the guards: sessions are strictly nested, only the
session of a block is committed, sessions other than forced ones are opened
while undo is enabled, and undo is switched off only when nothing is on the
stack. `DepthAssumption` states the relation between the nesting depth and the
size limit that keeps the states of live sessions on the stack; depth 3 is the
pending block, a transaction and a proposal.

### ChainDatabase

Blocks form a fixed tree, given by constant functions (`Prev`, `Slot`,
`WitnessOf`, `TxsOf`); the environment delivers any block at any time, any
number of times. A transaction is what its effects are to the properties: how
often it has been applied, when it expires, which transactions it cannot follow.
Some execute a proposal at once, which opens one undo session more. The object
database is a record: head block, time, last irreversible block, the last block
of each witness, the deduplication index, the effects.

* `db` is the state at the head block, `pending_db` the state with the pending
  session; `undo` holds the committed states below.
* `task` says which call is running and where it is. `PushBlock` and
  `GenerateBlock` run `push_block` up to its first loop (`RejectBlock`,
  `CacheBlock`, `StartSwitch`, `ExtendHead`); `PopToCommon`, `SwitchApply` and
  `GoodApply` are iterations of its loops; `RestorePending` is the destructor
  that ends every way out of it. `Close`, `Rewind` and `Flush` are `close`;
  `Open`, `StartReindex`, `ReplayBlock` and `ReplayGap` are `open` and `reindex`.
* No other call starts while one is running; a `Crash` may fall between any two
  steps.
* `fork` has the index, the items whose weak pointer to the previous item still
  works (`linked`), and the head, which may be an item that was removed.
* `log` has an entry per number: the id in the index file and the block found
  at its position, which `GoodApply` makes differ. `unflushed` is what the last
  store replaced; `Crash` may lose that store or tear it. This is what a stop of
  the process can do; a machine that stops can lose more, because nothing is
  synced to the disk, and that is not modelled.

### Authority and Proposals

An authority is a threshold with weights of keys and accounts. `CheckAuthority`
is `sign_state::check_authority`: it visits keys and accounts in their order,
remembers approved accounts and used keys over the whole check, also from
branches that fail, and stops at the threshold and at the recursion limit.
`VerifyAuthority` and `MinimalSignatures` are built from it as in the code. A
`for` of the code is `ForEach`, which applies the function of one pass to each
element in turn; the recursion is a function of the levels left, whose value at
a level holds the answers for every account and every sign state
(`CheckBelow`).

In `Proposals`, `Create`, `Update` and `Delete` are the three evaluators with
their checks (review period, locked accounts, lifetime); executing a proposed
transaction either applies it or fails and is undone. A block advances the head
time (`NextBlock`) and clears expired proposals one by one in the order of the
expiration index (`ClearExpired`). `UndoBlock` is the undo of a block. Other
transactions change an account's authority and whether a proposed transaction
applies. `required_approval_index`, which would find proposals by account, is
not modelled: its registration (`db_init.cpp:351-353`) and its only reader
(`database_api.cpp:1168`) are commented out. In `verify_authority` the check that
only proposed transactions require the committee (`transaction.cpp:271`) is left
out, because proposals pass `allow_committe`, and no account of `AuthorityRules`
is the committee.

### Synopsis and Sync

A block id is a number and the name of its branch. `GetBlockchainSynopsis` and
`GetBlockIds` are the delegate's (`application.cpp`), `CreateSynopsisForPeer` and
`ValidReply` the node's. `HalvingTo` is the loop both synopses share. In
`SynopsisRules` two chains grow and a peer lists blocks; it lists only what
follows a block we have, or all of its chain if we have none, since a node with
nothing in common answers with nothing.

`Sync` keeps, per peer, the list of ids to get, the blocks requested and being
processed and the outstanding request for ids; and for the node the active
requests, the two lists of received blocks, the blocks accepted recently, the
suspension of fetching, and the calls handed to the chain database. Everything
between two waits of a fiber is one action: `OnItemIds`, `OnBlock`,
`OnItemNotAvailable`, `OnFetchItemIds`, `OnConnectionClosed`,
`NewPeerJustAdded` are the handlers, `FetchSyncItems`, `ProcessBacklog` and
`TerminateInactive` the loops, `HandleBlock` the chain database's thread,
`BlockAccepted` and `BlockRejected` the rest of the call that handed a block
over. A fiber that waits for a synopsis keeps what it read before (`ask`);
`HandlerResumes`, `CallResumes` and `BacklogResumes` go on from there. Peers
answer in the order they were asked, at any time; they may grow, move to a
longer fork, lack a block, be dropped and come back. Three details are left out:
`process_block_during_normal_operation` is one step, although its fiber waits for
`handle_block`; the disconnection for an implausible number of ids, which no
chain that exists leads to; and what happens to a block that `handle_block`
reports as older than the undo history, which it never does.

### Production

`s` is the part of the chain's state that production depends on. `Applied` is
`_apply_block`: count the missed slots, record who signed, advance the last
irreversible block, hold a maintenance if it is due (`CheckWitness`, `Elected`,
`NextMaintenance`), renew the schedule. A second of the clock is one step, and
each node's production loop runs once in it: `Produce` or `DoNotProduce`, which
may still enable production. `Fail` and `Recover` stop witnesses, `RestartNode`
makes a node wait until it has seen a recent block. The shuffle is a parameter:
any permutation that depends on the time. `since` and `restarted` are history
variables: when the last block was made or witnesses recovered, and when each
node was restarted.

### Budget

Amounts are integers. Accounts, vesting balances and pending fees are one
number, because a transfer among them changes nothing here. `Block` is a block
in the next slot, or after missed ones, that comes before the next maintenance;
it pays its witness out of the budget. `Maintenance` is the block that is due:
it pays its witness, sets the pending parameters and the next maintenance time
(`NextMaintenance`), and runs `process_budget` after the fees were collected:
`budget_miners` and `pay_workers`, each of which takes from fees or from the
platform first and issues the rest within its limits. What the witnesses need is
computed as in the code, from the time until the next maintenance, rounded up to
blocks (`blocks_to_maint`), while the blocks that come are those of the slots
(`get_slot_time`). `Issue` and `Revoke` are a gateway's, `Reserve`, `ReserveFees`
and `BuyFromPlatform` an account's. `changed`, `destroyed`, `unbacked` and
`at_max` are history variables.

## Runs

| run | question | states |
|---|---|---|
| `undo` | is the undo database a stack of savepoints? | 458 386 |
| `chain_switch` | three branches in every order, of which one ends in a block that fails, with transactions and generated blocks: are duplicates detected, are pending transactions and undo history right after each call, is a failed switch undone, and does the fork database take the next block? | 88 203 |
| `chain_restart` | stops and crashes anywhere, with the sessions of proposals: is the state after a restart that of the head block and the log that of the chain, and does every call end? | 53 954 |
| `rules` | are the authority checks exact, is a proposal applied at most once, for sufficient approval and not before its expiration if it is reviewed, does it end, and do synopsis and answer fit together? | 160 058 |
| `sync` | do interleaved answers and results keep lists, backlog and requests consistent, and are only guilty peers dropped? | 328 147 |
| `sync_fair` | does every request end, and do we get every block? | 30 032 |
| `production` | are slots, missed blocks, maintenance and irreversibility right over elections, changes, outages and restarts, and do blocks keep coming? | 355 044 |
| `budget` | is the core asset conserved, and does a budget last over missed slots and changed intervals? | 219 167 |

The passing runs check:

* `StackDescribesHistory`: each `undo_state` is exactly the difference between
  two consecutive savepoints. `ImplementsSnapshots`: the refinement.
  `CausalTiming`: the cases `merge` does not handle do not occur.
  `RevertNeverThrows`: a destructor never throws half way.
* `StateIsReplay`: the state equals the one obtained by applying the chain of
  the head block, and nothing else, to the genesis state. `DuplicatesDetected`
  says the same of the deduplication index, and that no transaction takes effect
  twice. `PendingMatches` (the invariant that the comment in `_generate_block`
  names), `LogMatchesChain`, `FailedPushUnwound` (the objects are those of before
  the call; the log is the subject of `failed_switch_log`), `UndoCoversReversible`
  (every block above the last irreversible one, or above the one the node was
  started from, can be popped), `NextBlockAccepted` (no push, pop, trimming or
  removal makes the fork database turn away a successor of the head block, unless
  its own head is a removed block), `CallsEnd`.
* `CheckExact`: check_authority accepts what signatures and approvals justify
  and, within the recursion limit, nothing less. `MinimalAccepted`: a minimised
  set of keys verifies, if active or owner authorities alone are required. `ReplyServes`: an honest answer to a synopsis passes the
  receiver's test and leaves out no block.
* `AppliedOnce`, `GoesForAReason`, `RevocableUntilExpiration` (once it is there, a
  proposal with a review period is not applied before its expiration, whatever
  approvals come; its creation is the subject of `review_at_creation`),
  `ProposalsEnd`.
* `ValidBlocksAccepted` (blocks are handed over parent first), `ListsAreChains`,
  `SynopsisEndsWithOffer` (an assertion of the code, about state that changes
  while a fiber waits), `NothingForgotten` (there is always somebody who will go
  on), `InnocentKept`; `RequestedOfOne`, `RequestsEnd`, `Synchronises`.
* `SlotsAreUsable`, `MissedRightly` (a witness is charged only for turns it let
  pass), `MaintenanceAhead` and `HistorySuffices` (assertions of the code),
  `IrreversibleIsBacked`, `BlocksKeepComing` (a block follows within a round of
  slots while participation suffices and a working witness of the schedule is on a
  node that may produce; a node may not produce only if it was restarted after the
  first slot had come).
* `Conservation`, `SharesKept`, `UnbackedOnlyAtLimit`, `BudgetLasts` (every block
  until the next maintenance is paid for, unless a limit cut the budget; only the
  last one may not be, and only if the block interval was changed and no slot is
  skipped).

Four more runs show where the code does not do what its comments say; each ends
with a counterexample:

| run | what happens |
|---|---|
| `duplicate_after_reindex` | blocks replayed by `reindex` leave no trace in the deduplication index; their transactions are accepted again |
| `sync_stuck` | a block that was accepted before ends the loop over received blocks; another received block, whose parent we have, is never handed over |
| `failed_switch_log` | a switch that fails restores the state, but the block log keeps the branch that was given up, and the restored blocks are stored under the id and number of the block that failed |
| `review_at_creation` | a proposal with a review period is applied by the operation that creates it, if the proposer alone is enough by then |

### What else modelling has shown

These are in the models (an action or an outcome stands for each), but no run is
devoted to them. Where a property above has an exception, it is one of these, and
the property says that there is no other.

* Chain database. After a failed switch (`failed_switch_log`) `LogMatchesChain`
  does not hold; `chain_restart` checks it on a tree without an invalid block.
  When a block fails to apply, `_fork_db.remove` takes it from the index but
  leaves it as the head of the fork database. If the node's head block is then
  delivered again, it does not apply either and is removed itself
  (`db_block.cpp:208`), and from then on no block links: this is the exception of
  `NextBlockAccepted`. During a switch `pop_block` moves the head of the
  fork database on the wrong branch, so that a later push need not return the
  highest block. A crash during a switch can leave a log on which `reindex`
  throws (`Broken`). `close` stops rewinding where the fork database ends, not
  where the undo history ends. A pending transaction that executes a proposal
  trims the undo history by one state more (`undo_database.cpp:40`), so
  `UndoCoversReversible` is checked without such transactions. `push_block` of the
  fork database is documented to cache a block that does not link, but throws
  before it does; the comment in `clear_expired_transactions` speaks of two forking
  windows, while the code clears at the first block after the expiration.
* Proposals. Key approvals are accepted during the review period.
  `get_required_signatures` may return keys that are not needed.
* Signatures. `get_required_signatures` is documented to return keys that are
  sufficient (`transaction.hpp:134`). It checks owner authorities first, while
  `verify_authority` checks the active ones first, and both remember the accounts
  they have found approved. With both kinds of requirement the first may rely on
  an account that is too deep for the second: let a list c or d, c list b, and b
  and d each hold a key, with one level of nesting allowed, the active authority
  of a and the owner authority of c required. The keys of b alone are chosen
  (b is approved while c is checked, so that a is found through c), and
  `verify_authority` then misses the authority of a, which it would have found
  through d. `MinimalAccepted` is about transactions with one kind.
* Synchronisation. A second request for ids to a peer overwrites the first, and
  the answer to the first is checked against the second synopsis
  (`node.cpp:2447`), so an honest peer may be disconnected. The test for a stalled
  synchronisation holds whenever the last blocks of a peer are being processed
  (`node.cpp:1426`). `on_item_not_available_message` leaves the block in
  `_active_sync_requests`; `RequestedOfOne` is checked for peers that have what
  they list. The assertion that a peer's new list begins with a block that we
  have (`node.cpp:2642`) fails for a block that is still on its way to the chain
  database. With two peers that list the same blocks synchronisation can stop
  (`sync_stuck`), so `Synchronises` is about one peer.
* Production. A witness that is down for one whole interval does not reach the
  number of missed blocks at which it is disabled unless the schedule gives it
  more than half of all slots. After a long outage participation is zero, and a
  node that requires any never produces again; `required-participation` is read
  as a switch, so the requirement is 0 or 1 percent. Nodes that are restarted
  after the first slot wait for a block, and if all of them are, one after the
  other, none produces without `--enable-stale-production`. Both are exceptions of
  `BlocksKeepComing`, and the run reaches both.
* Budget. When nothing can be issued because a limit is reached, the fees, or the
  platform's balance, are handed out but not deducted (`db_maint.cpp:215` and
  `287`): `unbacked` counts them, and `Conservation` says that nothing else is
  made or lost. The budget of the witnesses may be one block short: a maintenance
  at 8 changes the block interval from 2 to 3 and puts the next maintenance at 14;
  two blocks are budgeted (`db_maint.cpp:177`), and with no slot skipped blocks
  come at 9, 12 and 15, because the slots lie on multiples of the new interval.

### Bounds

`undo`: one type with two ids, two values, nesting depth 3, stack limits 2 and
3. Two ids are needed to tell an object created after a savepoint from one
created before; depth 3 is what the code reaches; limit 2 is the smallest the
code sets, and together with depth 3 it makes trimming happen right below the
live sessions. The theorems remove these bounds.

`chain_*`: the trees are drawn in `MCChain`. Two valid branches of length three after
a common block make a switch with two blocks to pop and three to apply, a second
switch back, and blocks that arrive too early. Three witnesses make the last
irreversible block advance on one branch and stall on the other. One transaction
expires in the middle, so that it is a duplicate in some blocks and expired in
others; the second conflicts with it, so that restoring pending transactions can
fail; a third is too far in the future at first. The third branch ends in a
block that repeats a transaction, and six blocks in a row make the fork database
trim the first. `BlockCap = 1` makes `generate_block` postpone a transaction. `InitialMax`
(256 and 1024 in the code) and `MaxUndoHistory` (10000) are larger than the
trees; chains shorter than 50 blocks are replayed by `push_block`. No tree has a
fork below a block that is irreversible on another branch, which the consensus
rules out as long as more than 70% of the witnesses sign one block per slot.
For the types, and without restarts for the state, the duplicates and the pending
transactions, the theorems hold for every tree, with such forks or without.

`rules`: three accounts allow cycles, diamonds and chains longer than the
recursion limit of 1; thresholds 1 and 2 need one or two of them. Ten blocks give
a synopsis of up to four ids, forks at 3 and 7 lie below and within an undo
history of up to 4, and 3 ids per answer need several answers. There is one
proposal with every single change of approvals over three seconds, or two, or one
with a block undone. Lifetime 2 and review 1 give proposals before, in and after
their review. `sync`: the limits (1 or 2 blocks handled, requested or prefetched,
2 to 4 ids per answer) are smaller than the chains of 3 to 5 blocks, so each of
them is reached; a fork that is longer than the list we hold; one drop, one
growth and one advertised block. `production`: six witnesses for four seats (or
three), so that an election replaces half of them; a threshold of 70 percent,
intervals of 6 and 9 seconds with blocks every 1, 2 or 3 seconds; two outages of
one witness or of four; one node of four is restarted, or two of two; 25 to 36
seconds. `Window` is 4 slots (128 in the code).
`budget`: limits of 5, 4 and 1 units, a pay of 1 and three maintenances reach
every limit from below and exactly; block intervals of 2 and 3 seconds with
maintenances every 4 and 6 make each change of interval happen at a time that is
and at one that is not a multiple of the new one, with and without skipped slots
and with one slot missed in a row. The theorems remove the bounds of `rules`,
`production` and `budget`, but for the properties that are only
model-checked.

### Fairness

* `ChainDatabase`, `WF_vars(Step)`: a call that has started continues until it
  returns. All steps belong to one thread of one process and wait for nothing.
* `Sync`, `Fairness`: weak fairness of each loop, each handler and of the calls.
  The thread runs its fibers in turn, the chain database works off its calls, and
  a connected peer answers: one that does not is dropped after a timeout, and the
  closing of the connection takes back what was requested of it. Nothing is
  assumed about drops, growth or new connections.
* `Proposals`, `WF_vars(Advance)`: witnesses go on producing blocks, and the
  loop of `clear_expired_proposals` runs within the block. This is an assumption
  about the chain, for which `BlocksKeepComing` is the safety counterpart.

Deadlock is not checked where the system or the model really may stop: a node
whose `open` has thrown (`chain_restart`), a node that has every block (`sync`,
`sync_fair`, `sync_stuck`), inputs that only grow and proposals whose time ends (`rules`), the end of the clock
(`production`) and of the maintenances (`budget`).

## Proofs

`UndoProofs` proves, for every set of types and values, every number of ids,
every set of size limits and every nesting depth that satisfy the assumptions of
`UndoDatabase`: `TypeCorrect`, `StackCorrect`, `RevertSafe`,
`MergeAssumptionsHold` (`HSpec => []...` for `TypeOK`, `StackDescribesHistory`,
`RevertNeverThrows`, `CausalTiming`) and `UndoImplementsSnapshots`
(`HSpec => ImplementsSnapshots`).

The inductive invariant is `TypeOK /\ StackDescribesHistory`. `RevertNeverThrows`
and `CausalTiming` say what must not go wrong but not why; the reason is that
each `undo_state` describes the step from one savepoint to the next (`Describes`),
and that ids below `next_id` are never handed out again (`Fresh`). The lemmas go
along with the code: what each hook does to a description (`OnCreate`,
`OnModify`, `OnRemove`), that reverting a described state gives the savepoint
back, and that merging two adjacent descriptions describes the whole step. The
last one is the heart of it: it goes through the three loops of `merge` object by
object. The refinement follows because `Undo` restores `saved[Len(saved)]` and
trimming never reaches a live session (`DepthAssumption`).

`BudgetProofs` proves, for every supply, share, pay, set of amounts
(`BudgetAssumption`) and chain parameters (`ParametersAssumption`, what
`chain_parameters::validate` checks), and without a bound on the number of maintenances
other than that it is a number: `CoreAssetConserved` (`Conservation`),
`SharesCorrect` (`SharesKept`), `UnbackedAtLimit` (`UnbackedOnlyAtLimit`) and
`PayLasts` (`BudgetLasts`). The inductive invariant `BudgetInv` adds to these the
types and that there is no budget before the first maintenance. The lemmas
follow the code: what `budget_miners` and `pay_workers` do to a treasury
(`MinersBudgeted`, `WorkersPaid`), what a maintenance does as a whole
(`MaintenanceEffect`), and that each operation keeps the sum. `PayLasts` compares
two grids of slots. A block lies on that of its interval, and what may come after
it are the later slots of the same grid (`BlockLasts`). A maintenance block lies
on the old grid, and less than an interval after a slot of the new one; the
rounding makes up for that if the grid has not changed or a slot is skipped, and
otherwise lacks one block (`MaintenanceLasts`). So the exception of `BudgetLasts`
is where the proof needs it.

`ChainProofs` proves about `ChainDatabase`, for every set of blocks and
transactions, every limit of the undo history and every order of calls:

* `ChainTypeCorrect` (`TypeOK`), with crashes, restarts and reindexing. It is
  more than types: the fork database links only what it holds, and while a loop
  of a switch runs the branch to return to is there.
* `StateIsThatOfItsChain` (`StateIsReplay`), `DuplicatesAreDetected`
  (`DuplicatesDetected`) and `PendingStateMatches` (`PendingMatches`), for a
  process that is not restarted (`ASSUME ~Restarts`). The hypothesis is needed:
  `DuplicatesDetected` is false after a reindex (the finding of
  `duplicate_after_reindex`), and a replayed state has another deduplication
  index than one that was reached block by block.

The assumptions are those of the module: `TxAssumption`, and `BlockAssumption`,
which says that no set of blocks is closed under going to the parent. A block
contains the hash of its parent, so there are no cycles. The argument is that every state a node
holds is the state of some chain: the head state, each state of the undo history
and the one on disk are in a set that is closed under `ApplyBlock`.
`HistoryIn(S)` states this for a parameter `S`, so that one lemma per action
serves two purposes: with the well-formed states (`DbStates`) for `ChainInv`,
and with the states obtained by replaying a chain (`ReplayStates`) for
`RunningInv`, which adds that the node does not replay and that the pending
state follows from the queue. `StateIsReplay` alone is not inductive, because
`pop_block` brings back a state of the undo history. The function that replays a
chain is recursive along the tree; that it is defined and unique is proved from
the assumption that there are no cycles (`TreeRecursion`), with sets of blocks
on which partial solutions agree, in place of an induction principle.

`ProposalProofs` proves, for all authorities, transactions, settings and numbers
of proposals (`ProposalAssumption`): `ProposalAppliedOnce` (`AppliedOnce`),
`ProposalGoesForAReason` (`GoesForAReason`) and `ReviewPeriodKept`
(`RevocableUntilExpiration`). The inductive invariant
`ProposalInv` adds what an undone block needs: the same facts of the objects
before the current block, and that ids not handed out have no proposal and were
never applied. Who is authorised plays no part in these proofs: they hold
whatever `verify_authority` answers.

`ProductionProofs` proves, for every number of witnesses, nodes and seats, all
intervals and all changes of them (`SettingsAssumption`), and for every shuffle
that is a permutation (`ShuffleAssumption`): `NextMaintenanceIsAhead`
(`MaintenanceAhead`), `WitnessesChargedRightly` (`MissedRightly`), `UsableSlots`
(`HistorySuffices => SlotsAreUsable`) and `IrreversibleBlocksBacked`
(`IrreversibleIsBacked`). The inductive invariant `ProductionInv` relates three
things that the code computes apart: the misses charged to a witness, together
with its slots that have passed since the head block (`Passed`), are no more than
the turns the nodes let go by, the last block each witness confirmed is one it
signed, and the schedule names witnesses and is not empty. `UsableSlots` has its hypothesis because a node accepts
no block at all once the undo history is exhausted; whether that happens depends
on who keeps signing, so `HistorySuffices` is a property of the settings checked,
and not a theorem.

`SyncProofs` proves, for every finite set of peers (`PeersAssumption`), all
chains, limits and faults: `NoBlockAskedOfTwo`, and `RequestsAreExpected`
(`RequestedOfOne`) for peers that have what they list. The hypothesis
`setting.lacking = {}` is needed: `on_item_not_available_message` takes a block
off the peer's requests but not off `_active_sync_requests`, so that it is never
requested of another peer (see above); `NoBlockAskedOfTwo` holds all the same. The
inductive invariant `RequestInv` adds that the lists of received blocks are
sequences, over which the loop of `process_backlog_of_sync_blocks` runs. The
loops of the backlog and of `fetch_sync_items_loop` are followed pass by pass
(`RoundKeeps`, `RequestFromFresh`); the rest is that no other handler touches a
request. What a synopsis or a list contains plays no part.

`RulesProofs` proves what two pure algorithms compute, as invariants of the
specifications in which their inputs grow:

* `CheckIsExact` (`CheckExact`), for every graph of authorities with natural
  weights and thresholds, all requirements, every order of accounts and keys and
  every recursion limit (`AuthorityAssumption`, `RulesAssumption`). Each level of
  the recursion is shown to count a weight that lies between two others: at least
  that of the accounts which can be satisfied within the levels left, and at most
  that of any set which holds the approvals and every account that it suffices
  for. The upper bound is what makes the memory of failed branches harmless: every
  account ever marked as approved lies in each such set.
* `MinimalIsAccepted` (`MinimalAccepted`), from the same assumptions. The check
  with all available keys and the check with only those it used run in step:
  they mark the same accounts, the used keys only grow, and a key that was used
  is among the ones kept. So the second run succeeds and uses every key it was
  given, and `minimize_required_signatures` drops a key only after the same
  verification.
* `RepliesServe` (`ReplyServes`), for all trees of blocks in which a block has its
  number and one chain of ancestors (`PathsAssumption`), every undo history and
  every limit above zero (`SynopsisAssumption`). `ChainsInv` says that both nodes
  are on chains of the tree and that what is listed follows the fork point.
  The loop of the synopsis takes its first number, and reaches its last
  (`HalvingLists`); so a synopsis begins with a block in common if the fork is
  within the undo history, and ends with the last block that was listed
  (`OfferedSynopsis`). The last known block of such a synopsis is no later than
  the fork point, or is that last one (`StartInCommon`, `StartOfListed`).

The functions are recursive, and the library's induction principles cannot be
used; in their place stands `IntervalInduction` of `NumberLemmas`, that a set
which holds 0 and with each number the next holds an interval. Each recursion is
first shown to have a solution, as a set of the numbers up to which there is one
(`PassesExist`, `HalvingExists`).

Only model-checked, and why:

* `CallsEnd`, `ProposalsEnd`, `RequestsEnd` and `Synchronises` are liveness under
  fairness, which is beyond the prover.
* `HistorySuffices` holds for settings in which enough witnesses work, as those
  of the run do. `BlocksKeepComing` bounds a wait by the length of the schedule,
  which needs an invariant on every order of a round and every set of working
  witnesses.
* `FailedPushUnwound`, `UndoCoversReversible`, `NextBlockAccepted` and
  `LogMatchesChain` hold on trees without a fork below an irreversible block and
  with an undo history and a fork database that are long enough. On other trees
  they fail: a switch then pops more than there is to undo.
* `StateIsReplay` with restarts: after a reindex the node may accept a block with
  a duplicate transaction, which a node that never stopped rejects.
* `ValidBlocksAccepted`, `ListsAreChains`, `SynopsisEndsWithOffer`,
  `NothingForgotten` and `InnocentKept` of `Sync` rest on what two fibers that ask
  the same peer may have saved while lists, chain and requests changed. The facts
  about synopses that they need are proved in `RulesProofs`, the invariant over
  all fibers and requests under way is not.

## Plan

1. Theorems: the order of the blocks that `Sync` hands over, from an invariant
   on lists and saved lists; `UndoCoversReversible` from an assumption about the
   tree.
2. Unique secondary keys in the object database, and `undo` in the order the
   code restores them.
3. Block log: the two files with positions and sizes, I/O errors, the renames of
   `object_database::flush`; the part of `reindex` that runs with undo disabled.
4. Vesting balances and withdraw permissions; handshake and inventory of
   transactions in the node.

## Not modelled

Signatures, TaPoS, Merkle roots and checkpoints (a block either applies or is
bad); the effects of most operations on their own objects, which are straight-line
field checks and assignments; feeds and exchange rates; the tally of votes; the
business library, of which only headers are in the repository; handshake,
addresses, bandwidth and firewall checks of the node; the wallet, the API and the
plugins that fill their own indexes or external stores. More than half of the
lines of the repository are a word list (`utilities/words.cpp`), the vendored `fc`
with its compression library, the wallet, read-only API code and the database
plugins that turn objects into rows: they hold no protocol state of their own.
`PROJECT.json` lists every part with its status.
