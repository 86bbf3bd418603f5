-------------------------------- MODULE Sync --------------------------------
(***************************************************************************)
(* Synchronisation: how node_impl fetches the blocks it lacks from its     *)
(* peers and hands them to the chain database, in order, while peers come  *)
(* and go and their chains change.                                         *)
(*                                                                         *)
(* The network code runs on one thread whose fibers give way only where    *)
(* they wait.  Two waits are modelled: a block handed to the chain         *)
(* database is a call that passes through stages, and                      *)
(* get_blockchain_synopsis is asked of the chain database with the peer's  *)
(* state as it was before (a fiber's ask) and used afterwards.  Everything *)
(* between two waits is one action.                                        *)
(***************************************************************************)
EXTENDS Synopsis, FiniteSets, TLC

CONSTANTS
  Peers,
  Settings,            \* the situations to start from
  None

ASSUME PeersAssumption == IsFiniteSet(Peers)

(***************************************************************************)
(* A setting fixes the node's limits and what the environment may do:      *)
(*   peers, ours, theirs  who is connected, our chain and the peers'       *)
(*   invalid, lacking     blocks that the chain database rejects, peers    *)
(*                        that may answer that they lack a block           *)
(*   limit                ids in one answer, the default of get_block_ids  *)
(*   min_prefetch         GRAPHENE_NET_MIN_BLOCK_IDS_TO_PREFETCH           *)
(*   per_peer             _maximum_blocks_per_peer_during_syncing          *)
(*   handle_max           _maximum_number_of_blocks_to_handle_at_one_time  *)
(*   prefetch_max         _maximum_number_of_sync_blocks_to_prefetch       *)
(*   undoable             the size of the undo history, in blocks          *)
(*   max_growth, max_drops, max_advertised                                 *)
(*                        how often a peer's chain changes, a peer is      *)
(*                        dropped and a block is advertised                *)
(***************************************************************************)
VARIABLES
  chain, known,                    \* the preferred chain; every block of the fork database
  theirs,                          \* the peers' chains
  peer,                            \* peer_connection: the synchronisation state of each peer
  conn,                            \* the list each connection is in
  wire,                            \* requests each peer has yet to answer
  active_sync_requests, received_sync_items, new_received_sync_items,
  most_recent_blocks_accepted,
  suspend_fetching_sync_blocks,
  fetch_due,                       \* fetch_sync_items_loop has been triggered
  handler,                         \* the fiber that handles each peer's messages
  calls,                           \* _handle_message_calls_in_progress
  backlog,                         \* process_backlog_of_sync_blocks: idle, scheduled or waiting
  setting,                         \* one of Settings
  faults                           \* how often the environment has acted

vars == <<chain, known, theirs, peer, conn, wire, active_sync_requests, received_sync_items,
          new_received_sync_items, most_recent_blocks_accepted, suspend_fetching_sync_blocks,
          fetch_due, handler, calls, backlog, setting, faults>>

chainVars == <<chain, known>>
itemVars == <<active_sync_requests, received_sync_items, new_received_sync_items>>

(***************************************************************************)
(* A fiber that asks peers for their ids, one after the other: what it has *)
(* saved for the synopsis it is waiting for, and the peers still to come.  *)
(***************************************************************************)
Quiet == [ask |-> None, todo |-> <<>>]
Continue(p) == [peer |-> p, why |-> "ids"]
AfterBlock(p) == [peer |-> p, why |-> "block"]
Restart(p) == [peer |-> p, why |-> "restart"]

\* start_synchronizing_with_peer, before it asks
Restarted(state) ==
  [state EXCEPT !.to_get = <<>>, !.unfetched = 0, !.we_need = TRUE, !.seen = ZeroId,
                !.inhibit = FALSE]

\* a fiber goes on to the next peer and saves what the synopsis will be made from
Begin(peers, todo) ==
  IF todo = <<>> THEN [peers |-> peers, fiber |-> Quiet]
  ELSE LET p == Head(todo).peer
           state == IF Head(todo).why = "restart" THEN Restarted(peers[p]) ELSE peers[p]
       IN [peers |-> [peers EXCEPT ![p] = state],
           fiber |-> [ask |-> [peer |-> p, why |-> Head(todo).why, seen |-> state.seen,
                               to_get |-> state.to_get],
                      todo |-> Tail(todo)]]

Asking(fiber) == fiber.ask # None
Undo(c) == Min({setting.undoable, Len(c)})
Active == {p \in Peers : conn[p] = "active"}
idle(state) ==
  state.items_requested = {} /\ state.sync_items_requested = {} /\ state.item_ids_requested = None

NewPeer ==
  [to_get |-> <<>>, being_processed |-> {}, unfetched |-> 0, seen |-> ZeroId,
   item_ids_requested |-> None, sync_items_requested |-> {}, items_requested |-> {},
   advertised |-> {}, we_need |-> TRUE, peer_needs |-> TRUE, inhibit |-> FALSE]

Init ==
  /\ setting \in Settings
  /\ chain = setting.ours
  /\ known = ToSet(setting.ours)
  /\ theirs = setting.theirs
  /\ peer = [p \in Peers |-> NewPeer]
  /\ conn = [p \in Peers |-> IF p \in setting.peers THEN "active" ELSE "gone"]
  /\ wire = [p \in Peers |-> <<>>]
  /\ active_sync_requests = {}
  /\ received_sync_items = <<>>
  /\ new_received_sync_items = <<>>
  /\ most_recent_blocks_accepted = {}
  /\ suspend_fetching_sync_blocks = FALSE
  /\ fetch_due = FALSE
  /\ handler = [p \in Peers |-> IF p \in setting.peers
                                 THEN Begin([q \in Peers |-> NewPeer], <<Restart(p)>>).fiber
                                 ELSE Quiet]
  /\ calls = <<>>
  /\ backlog = [stage |-> "idle", fiber |-> Quiet]
  /\ faults = [growth |-> 0, drops |-> 0, advertised |-> 0]

-----------------------------------------------------------------------------
(* fetch_next_batch_of_item_ids_from_peer: the synopsis is ready *)

Ask(fiber) == [type |-> "ids", synopsis |->
  CreateSynopsisForPeer(chain, Undo(chain), fiber.ask.seen, fiber.ask.to_get)]
TooOld(fiber) == ForkedTooLongAgo(chain, Undo(chain), fiber.ask.seen)
Unknown(fiber) == fiber.ask.seen \notin known \cup {ZeroId}
NoSynopsis(fiber) == Unknown(fiber) \/ TooOld(fiber)

(***************************************************************************)
(* An exception without a name of its own, for a reference point that the  *)
(* chain database does not have, is caught by the handlers: that of a list *)
(* goes no further, that of a block goes on and takes the block for one    *)
(* that was not requested.                                                 *)
(***************************************************************************)
GivenUp(fiber) == IF Unknown(fiber) THEN fiber.ask.why = "block" ELSE TRUE

\* the fiber goes on with the next peer
Resumed(fiber) == Begin(peer, fiber.todo)

\* records the request and sends it, or gives the peer up
SynopsisReady(fiber) ==
  LET p == fiber.ask.peer
  IN /\ Asking(fiber)
     /\ IF NoSynopsis(fiber)
        THEN /\ peer' = Resumed(fiber).peers
             /\ conn' = [conn EXCEPT ![p] =
                          IF @ # "gone" /\ GivenUp(fiber) THEN "closing" ELSE @]
             /\ UNCHANGED wire
        ELSE \E request \in {Ask(fiber)} :
             /\ peer' = [Resumed(fiber).peers EXCEPT ![p].item_ids_requested = request.synopsis]
             /\ wire' = [wire EXCEPT ![p] = IF conn[p] = "gone" THEN @ ELSE Append(@, request)]
             /\ UNCHANGED conn

Scheduled == [stage |-> "scheduled", fiber |-> Quiet]
\* trigger_process_backlog_of_sync_blocks: nothing happens while the task is not done
Triggered == IF backlog.stage = "idle" THEN Scheduled ELSE backlog

\* a call that is over stays on the list until process_backlog_of_sync_blocks collects it
Finished(i) == [calls EXCEPT ![i].stage = "done", ![i].fiber = Quiet]
InProgress == SelectSeq(calls, LAMBDA c : c.stage # "done")

HandlerResumes(p) ==
  /\ SynopsisReady(handler[p])
  /\ handler' = [handler EXCEPT ![p] = Resumed(handler[p]).fiber]
  /\ UNCHANGED <<chainVars, theirs, itemVars, most_recent_blocks_accepted,
                 suspend_fetching_sync_blocks, fetch_due, calls, backlog, setting, faults>>

\* the last thing a call does is to schedule the backlog
CallResumes(i) ==
  LET next == Resumed(calls[i].fiber).fiber
  IN /\ SynopsisReady(calls[i].fiber)
     /\ IF Asking(next)
        THEN calls' = [calls EXCEPT ![i].fiber = next] /\ UNCHANGED backlog
        ELSE calls' = Finished(i) /\ backlog' = Triggered
     /\ UNCHANGED <<chainVars, theirs, itemVars, most_recent_blocks_accepted,
                    suspend_fetching_sync_blocks, fetch_due, handler, setting, faults>>

BacklogResumes ==
  LET next == Resumed(backlog.fiber).fiber
      suspended == \/ suspend_fetching_sync_blocks
                   \/ Len(calls) >= setting.handle_max /\ Len(received_sync_items) >= setting.prefetch_max
  IN /\ SynopsisReady(backlog.fiber)
     /\ IF Asking(next)
        THEN backlog' = [backlog EXCEPT !.fiber = next]
             /\ UNCHANGED <<suspend_fetching_sync_blocks, fetch_due>>
        ELSE /\ backlog' = [stage |-> "idle", fiber |-> Quiet]
             /\ suspend_fetching_sync_blocks' = suspended
             /\ fetch_due' = (fetch_due \/ ~suspended)
     /\ UNCHANGED <<chainVars, theirs, itemVars, most_recent_blocks_accepted, handler, calls, setting, faults>>

-----------------------------------------------------------------------------
(* on_blockchain_item_ids_inventory_message *)

has_item(id) == id \in known

UpToDate(state, reply) ==
  /\ reply.remaining = 0
  /\ reply.ids = <<>> \/ (Len(reply.ids) = 1 /\ has_item(reply.ids[1]))
  /\ state.to_get = <<>> /\ state.unfetched = 0

\* the first block of the list heads the list of another peer
FirstForOtherPeer(p, ids) ==
  \E q \in Active \ {p} : peer[q].to_get # <<>> /\ Head(peer[q].to_get) = Head(ids)

\* drops the blocks at the front that we have
Unseen(state, ids) ==
  LET wanted == SelectInSeq(ids, LAMBDA id : ~has_item(id))
      first == IF wanted = 0 THEN Len(ids) + 1 ELSE wanted
  IN [state EXCEPT !.to_get = SubSeq(ids, first, Len(ids)),
                   !.seen = IF first = 1 THEN @ ELSE ids[first - 1]]

\* mutant: appends the list without looking for the block where it meets ours
ExtendedBlindly(state, ids) == [state EXCEPT !.to_get = @ \o ids]

\* the new list replaces the old one from the block where they meet, if they do
Extended(state, ids) ==
  IF Contains(state.to_get, Head(ids))
  THEN [state EXCEPT !.to_get =
          SubSeq(@, 1, SelectInSeq(@, LAMBDA id : id = Head(ids)) - 1) \o ids]
  ELSE [state EXCEPT !.to_get = Tail(ids), !.seen = Head(ids)]

Listed(p, state, reply) ==
  LET merged ==
        IF reply.ids = <<>> THEN state
        ELSE IF state.to_get # <<>> THEN Extended(state, reply.ids)
        ELSE IF FirstForOtherPeer(p, reply.ids) THEN [state EXCEPT !.to_get = reply.ids]
        ELSE Unseen(state, reply.ids)
  IN [merged EXCEPT !.unfetched = reply.remaining]

\* the peer has more ids and too few are known, or all of them are blocks we have by now
AskAgain(state) ==
  IF state.unfetched # 0 THEN Len(state.to_get) <= setting.min_prefetch ELSE state.to_get = <<>>

\* The disconnect for more ids than there can be blocks by now is left out: peers
\* here list chains that exist.
ItemIds(p, reply) ==
  LET state == [peer[p] EXCEPT !.item_ids_requested = None]
      listed == Listed(p, state, reply)
      begun == Begin([peer EXCEPT ![p] = listed], IF AskAgain(listed) THEN <<Continue(p)>> ELSE <<>>)
  IN IF peer[p].item_ids_requested = None
     THEN UNCHANGED <<peer, conn, handler, fetch_due>>
     ELSE IF ~ValidReply(peer[p].item_ids_requested, reply.ids)
     THEN conn' = [conn EXCEPT ![p] = "closing"] /\ UNCHANGED <<peer, handler, fetch_due>>
     ELSE IF UpToDate(state, reply)
     THEN /\ peer' = [peer EXCEPT ![p] = [state EXCEPT !.we_need = FALSE]]
          /\ UNCHANGED <<conn, handler, fetch_due>>
     ELSE /\ peer' = begun.peers
          /\ handler' = [handler EXCEPT ![p] = begun.fiber]
          /\ fetch_due' = (fetch_due \/ ~AskAgain(listed))
          /\ UNCHANGED conn

\* the peer answers a request for ids, from the chain it is on now
OnItemIds(p) ==
  /\ conn[p] # "gone" /\ wire[p] # <<>> /\ ~Asking(handler[p])
  /\ Head(wire[p]).type = "ids"
  /\ wire' = [wire EXCEPT ![p] = Tail(@)]
  /\ \E reply \in {GetBlockIds(theirs[p], Head(wire[p]).synopsis, setting.limit)} : ItemIds(p, reply)
  /\ UNCHANGED <<chainVars, theirs, itemVars, most_recent_blocks_accepted,
                 suspend_fetching_sync_blocks, calls, backlog, setting, faults>>

-----------------------------------------------------------------------------
(* fetch_sync_items_loop *)

\* have_already_received_sync_item
Received == ToSet(received_sync_items) \cup ToSet(new_received_sync_items)

\* mutant: does not look whether another peer has been asked
RequestableTwice(state, chosen) == ToSet(state.to_get) \ Received

Requestable(state, chosen) ==
  ToSet(state.to_get) \ (Received \cup active_sync_requests \cup chosen)

\* the first n of the ids in the order of the list
FirstOf(list, ids, n) ==
  {id \in ids : Cardinality({i \in 1..Len(list) :
     list[i] \in ids /\ \E j \in 1..Len(list) : i < j /\ list[j] = id}) < n}

\* what the next peer is asked for, besides the requests r
RequestFrom(r, p) ==
  LET batch == FirstOf(peer[p].to_get, Requestable(peer[p], r.chosen), setting.per_peer)
  IN IF peer[p].we_need /\ idle(peer[p]) /\ ~peer[p].inhibit
     THEN [of |-> [r.of EXCEPT ![p] = batch], chosen |-> r.chosen \cup batch]
     ELSE r

\* what is requested of each peer, in the order of the list of active connections
Requests(order) ==
  LET after[i \in 0..Len(order)] ==
        IF i = 0 THEN [of |-> [p \in Peers |-> {}], chosen |-> {}]
        ELSE RequestFrom(after[i - 1], order[i])
  IN after[Len(order)]

BlockRequests(list, ids) ==
  LET batch == SelectSeq(list, LAMBDA id : id \in ids)
  IN [i \in 1..Len(batch) |-> [type |-> "block", id |-> batch[i]]]

FetchSyncItems ==
  /\ fetch_due
  /\ fetch_due' = FALSE
  /\ IF suspend_fetching_sync_blocks THEN UNCHANGED <<peer, wire, active_sync_requests>>
     ELSE \E requests \in {Requests(order) : order \in SetToSeqs(Active)} :
               /\ active_sync_requests' = active_sync_requests \cup requests.chosen
               /\ peer' = [p \in Peers |-> [peer[p] EXCEPT
                    !.sync_items_requested = @ \cup requests.of[p]]]
               /\ wire' = [p \in Peers |-> wire[p] \o BlockRequests(peer[p].to_get, requests.of[p])]
  /\ UNCHANGED <<chainVars, theirs, conn, received_sync_items, new_received_sync_items,
                 most_recent_blocks_accepted, suspend_fetching_sync_blocks, handler, calls,
                 backlog, setting, faults>>

-----------------------------------------------------------------------------
(* process_block_message *)

Drop(cs, ps) == [p \in Peers |-> IF p \in ps /\ cs[p] # "gone" THEN "closing" ELSE cs[p]]

\* push_block, from what the chain database promises: a block that is known changes nothing
Accepts(id) ==
  id \notin setting.invalid /\ (num_from_id(id) = 1 \/ PathTo(id)[num_from_id(id) - 1] \in known)
Pushed(id) == IF num_from_id(id) > Len(chain) THEN PathTo(id) ELSE chain

SyncBlock(p, id) ==
  LET state == [peer[p] EXCEPT !.sync_items_requested = @ \ {id}]
      more == idle(state) /\ state.unfetched > 0 /\ Len(state.to_get) < setting.min_prefetch
      begun == Begin([peer EXCEPT ![p] = state], IF more THEN <<AfterBlock(p)>> ELSE <<>>)
  IN /\ active_sync_requests' = active_sync_requests \ {id}
     /\ new_received_sync_items' = <<id>> \o new_received_sync_items
     /\ backlog' = Triggered
     /\ peer' = begun.peers
     /\ handler' = [handler EXCEPT ![p] = begun.fiber]
     /\ fetch_due' = (fetch_due \/ (idle(state) /\ ~more))
     /\ UNCHANGED <<chainVars, conn, received_sync_items, most_recent_blocks_accepted>>

(***************************************************************************)
(* process_block_during_normal_operation, in one step: the fiber waits for *)
(* handle_block behind the calls that are queued for the same thread, and  *)
(* what the rest of the node does meanwhile is taken to come before.       *)
(***************************************************************************)
NormalBlock(p, id) ==
  LET asked == [peer EXCEPT ![p].items_requested = @ \ {id}]
      seen == [q \in Peers |-> IF conn[q] = "active" /\ id \in peer[q].advertised
                               THEN [asked[q] EXCEPT !.seen = id] ELSE asked[q]]
      unlinkable == id \notin setting.invalid /\ ~Accepts(id)
      begun == Begin(asked, <<Restart(p)>>)
      offering == {q \in Active : peer[q].to_get # <<>> /\ Head(peer[q].to_get) = id}
  IN /\ \A i \in 1..Len(calls) : calls[i].stage # "queued"
     /\ IF id \in most_recent_blocks_accepted \/ Accepts(id)
        THEN /\ most_recent_blocks_accepted' = most_recent_blocks_accepted \cup {id}
             /\ known' = known \cup {id}
             /\ chain' = Pushed(id)
             /\ peer' = seen
             /\ UNCHANGED <<handler, conn>>
        ELSE IF unlinkable
        THEN /\ peer' = begun.peers
             /\ handler' = [handler EXCEPT ![p] = begun.fiber]
             /\ UNCHANGED <<chainVars, conn, most_recent_blocks_accepted>>
        ELSE /\ peer' = asked
             /\ conn' = Drop(conn, {p} \cup offering)
             /\ UNCHANGED <<chainVars, handler, most_recent_blocks_accepted>>
     /\ UNCHANGED <<itemVars, fetch_due, backlog>>

OnBlock(p) ==
  LET id == Head(wire[p]).id
  IN /\ conn[p] # "gone" /\ wire[p] # <<>> /\ ~Asking(handler[p])
     /\ Head(wire[p]).type = "block"
     /\ wire' = [wire EXCEPT ![p] = Tail(@)]
     /\ IF id \in peer[p].items_requested THEN NormalBlock(p, id)
        ELSE IF id \in peer[p].sync_items_requested THEN SyncBlock(p, id)
        ELSE /\ conn' = [conn EXCEPT ![p] = "closing"]  \* a block nobody asked for
             /\ UNCHANGED <<chainVars, peer, itemVars, most_recent_blocks_accepted, fetch_due,
                            handler, backlog>>
     /\ UNCHANGED <<theirs, suspend_fetching_sync_blocks, calls, setting, faults>>

\* on_item_not_available_message, for a block requested while synchronising
OnItemNotAvailable(p) ==
  LET id == Head(wire[p]).id
  IN /\ p \in setting.lacking
     /\ conn[p] # "gone" /\ wire[p] # <<>> /\ ~Asking(handler[p])
     /\ Head(wire[p]).type = "block" /\ id \in peer[p].sync_items_requested
     /\ wire' = [wire EXCEPT ![p] = Tail(@)]
     /\ peer' = [peer EXCEPT ![p].sync_items_requested = @ \ {id},
                             ![p].inhibit = @ \/ peer[p].peer_needs]
     /\ conn' = IF peer[p].peer_needs THEN conn ELSE Drop(conn, {p})
     /\ fetch_due' = TRUE
     /\ UNCHANGED <<chainVars, theirs, itemVars, most_recent_blocks_accepted,
                    suspend_fetching_sync_blocks, handler, calls, backlog, setting, faults>>

-----------------------------------------------------------------------------
(* process_backlog_of_sync_blocks *)

\* mutant: takes a block from anywhere in a list
OfferingAnywhere(peers, id) == {p \in Active : Contains(peers[p].to_get, id)}

\* the peers that offer a block at the head of their lists
Offering(peers, id) ==
  {p \in Active : peers[p].to_get # <<>> /\ Head(peers[p].to_get) = id}

Taken(peers, id) ==
  [p \in Peers |-> IF p \in Offering(peers, id)
                   THEN [peers[p] EXCEPT !.to_get = Tail(@),
                                         !.being_processed = @ \cup {id}]
                   ELSE peers[p]]

Exhausted(state) == state.to_get = <<>> /\ state.unfetched = 0 /\ state.being_processed = {}

\* one round: the first received block that heads a list is handed over, or was accepted before
Round(s) ==
  LET waiting == Reverse(s.fresh) \o s.received
      i == SelectInSeq(waiting, LAMBDA id : Offering(s.peers, id) # {})
      id == waiting[i]
      taken == Taken(s.peers, id)
      done == [p \in Peers |-> IF p \in Active
                 THEN [taken[p] EXCEPT !.being_processed = @ \ {id}] ELSE taken[p]]
      last == {p \in Active : id \in taken[p].being_processed /\ Exhausted(done[p])}
      next ==
        IF i = 0 THEN [s EXCEPT !.received = waiting, !.fresh = <<>>, !.more = FALSE]
        ELSE IF id \in most_recent_blocks_accepted
        THEN [s EXCEPT !.received = waiting, !.fresh = <<>>, !.more = FALSE, !.peers = done,
                       !.todo = SetToSeq({Continue(p) : p \in last})]
        ELSE [s EXCEPT !.received = RemoveAt(waiting, i), !.fresh = <<>>, !.peers = taken,
                       !.calls = Append(@, [block |-> id, stage |-> "queued", fiber |-> Quiet])]
  IN IF Len(next.calls) >= setting.handle_max
     THEN [next EXCEPT !.more = FALSE, !.suspended = Len(next.received) >= setting.prefetch_max]
     ELSE next

NextRound(s) == CHOOSE next \in {IF t.more THEN Round(t) ELSE t : t \in {s}} : TRUE

\* as many rounds as there may be, from what the lists are now
RoundsFrom(suspended) ==
  LET start == [peers |-> peer, received |-> received_sync_items, fresh |-> new_received_sync_items,
                calls |-> InProgress, more |-> TRUE, todo |-> <<>>, suspended |-> suspended]
      most == Len(received_sync_items) + Len(new_received_sync_items) + 1
      after[i \in 0..most] == IF i = 0 THEN start ELSE NextRound(after[i - 1])
  IN after[most]

\* mutant: does not lift the suspension
RoundsSuspended == RoundsFrom(suspend_fetching_sync_blocks)

Rounds == RoundsFrom(FALSE)

ProcessBacklog ==
  \E end \in {Rounds} : LET begun == Begin(end.peers, end.todo)
  IN /\ backlog.stage = "scheduled"
     /\ IF Len(InProgress) >= setting.handle_max
        THEN /\ backlog' = [stage |-> "idle", fiber |-> Quiet]
             /\ calls' = InProgress
             /\ UNCHANGED <<peer, received_sync_items, new_received_sync_items,
                            suspend_fetching_sync_blocks, fetch_due>>
        ELSE /\ peer' = begun.peers
             /\ received_sync_items' = end.received
             /\ new_received_sync_items' = end.fresh
             /\ calls' = end.calls
             /\ IF Asking(begun.fiber)
                THEN /\ backlog' = [stage |-> "waiting", fiber |-> begun.fiber]
                     /\ suspend_fetching_sync_blocks' = FALSE
                     /\ UNCHANGED fetch_due
                ELSE /\ backlog' = [stage |-> "idle", fiber |-> Quiet]
                     /\ suspend_fetching_sync_blocks' = end.suspended
                     /\ fetch_due' = (fetch_due \/ ~end.suspended)
     /\ UNCHANGED <<chainVars, theirs, conn, wire, active_sync_requests,
                    most_recent_blocks_accepted, handler, setting, faults>>

-----------------------------------------------------------------------------
(* send_sync_block_to_node_delegate *)

\* the chain database handles the calls in the order in which they were made
HandleBlock ==
  LET i == SelectInSeq(calls, LAMBDA c : c.stage = "queued")
      id == calls[i].block
  IN /\ i # 0
     /\ calls' = [calls EXCEPT ![i].stage = IF Accepts(id) THEN "accepted" ELSE "rejected"]
     /\ IF Accepts(id) THEN known' = known \cup {id} /\ chain' = Pushed(id)
        ELSE UNCHANGED chainVars
     /\ UNCHANGED <<theirs, peer, conn, wire, itemVars, most_recent_blocks_accepted,
                    suspend_fetching_sync_blocks, fetch_due, handler, backlog, setting, faults>>

\* what a peer's lists become when the block is accepted
Settled(state, id) ==
  IF id \in state.being_processed
  THEN [state EXCEPT !.being_processed = @ \ {id}, !.seen = id] ELSE state

\* mutant: forgets to ask whether there is more
ToAskUnaware(id) ==
  SetToSeq({Restart(p) : p \in {q \in Active : /\ peer[q].to_get = <<>> /\ ~peer[q].peer_needs
                                               /\ peer[q].being_processed = {} /\ ~peer[q].we_need}})

\* peers whose lists have just become empty, and peers in sync that should hear of the block
ToAsk(id) ==
  LET empty == {p \in Active : id \in peer[p].being_processed /\ Exhausted(Settled(peer[p], id))}
      unaware == {p \in Active : /\ peer[p].to_get = <<>> /\ peer[p].being_processed = {}
                                 /\ ~peer[p].peer_needs /\ ~peer[p].we_need}
  IN SetToSeq({Continue(p) : p \in empty}) \o SetToSeq({Restart(p) : p \in unaware})

BlockAccepted(i) ==
  LET id == calls[i].block
      begun == Begin([p \in Peers |-> IF p \in Active THEN Settled(peer[p], id) ELSE peer[p]],
                     ToAsk(id))
  IN /\ calls[i].stage = "accepted"
     /\ most_recent_blocks_accepted' = most_recent_blocks_accepted \cup {id}
     /\ peer' = begun.peers
     /\ IF Asking(begun.fiber)
        THEN calls' = [calls EXCEPT ![i] = [@ EXCEPT !.stage = "asking", !.fiber = begun.fiber]]
             /\ UNCHANGED backlog
        ELSE calls' = Finished(i) /\ backlog' = Triggered
     /\ UNCHANGED <<chainVars, theirs, conn, wire, itemVars, suspend_fetching_sync_blocks,
                    fetch_due, handler, setting, faults>>

(***************************************************************************)
(* handle_block threw.  It never throws block_older_than_undo_history, for *)
(* which the code has a branch that keeps the peers.                       *)
(***************************************************************************)
\* mutant: disconnects everyone who is still being synchronised with
BlockRejectedByAll(i) ==
  /\ calls[i].stage = "rejected"
  /\ conn' = Drop(conn, {p \in Active : peer[p].we_need})
  /\ calls' = Finished(i)
  /\ backlog' = Triggered
  /\ UNCHANGED <<chainVars, theirs, peer, wire, itemVars, most_recent_blocks_accepted,
                 suspend_fetching_sync_blocks, fetch_due, handler, setting, faults>>

BlockRejected(i) ==
  /\ calls[i].stage = "rejected"
  /\ conn' = Drop(conn, {p \in Active : calls[i].block \in peer[p].being_processed})
  /\ calls' = Finished(i)
  /\ backlog' = Triggered
  /\ UNCHANGED <<chainVars, theirs, peer, wire, itemVars, most_recent_blocks_accepted,
                 suspend_fetching_sync_blocks, fetch_due, handler, setting, faults>>

-----------------------------------------------------------------------------
(* on_fetch_blockchain_item_ids_message: a peer asks us *)

SynopsisOf(p) == GetBlockchainSynopsis(theirs[p], Undo(theirs[p]), ZeroId, 0)
InSync(p) ==
  LET ids == GetBlockIds(chain, SynopsisOf(p), setting.limit).ids
  IN Len(ids) = 1 /\ Contains(SynopsisOf(p), ids[1])

OnFetchItemIds(p) ==
  LET ids == GetBlockIds(chain, SynopsisOf(p), setting.limit).ids
      needs == ids # <<>> /\ ~InSync(p)
      unknown == ~peer[p].we_need /\ SynopsisOf(p) # <<>> /\ ~has_item(Last(SynopsisOf(p)))
      begun == Begin([peer EXCEPT ![p].peer_needs = needs],
                     IF unknown THEN <<Restart(p)>> ELSE <<>>)
  IN /\ conn[p] = "active" /\ ~Asking(handler[p])
     /\ peer' = begun.peers
     /\ handler' = [handler EXCEPT ![p] = begun.fiber]
     /\ conn' = IF InSync(p) /\ peer[p].inhibit THEN Drop(conn, {p}) ELSE conn
     /\ UNCHANGED <<chainVars, theirs, wire, itemVars, most_recent_blocks_accepted,
                    suspend_fetching_sync_blocks, fetch_due, calls, backlog, setting, faults>>

-----------------------------------------------------------------------------
(* connections *)

\* what terminate_inactive_connections_loop takes for a synchronisation that has stalled
Stalled(p) ==
  /\ peer[p].we_need /\ ~Asking(handler[p])
  /\ peer[p].item_ids_requested = None /\ peer[p].to_get = <<>>

\* a request is not answered in time, or synchronisation seems to have stalled
TerminateInactive(p) ==
  /\ faults.drops < setting.max_drops
  /\ conn[p] = "active"
  /\ ~idle(peer[p]) \/ Stalled(p)
  /\ conn' = [conn EXCEPT ![p] = "closing"]
  /\ wire' = [wire EXCEPT ![p] = <<>>]
  /\ faults' = [faults EXCEPT !.drops = @ + 1]
  /\ UNCHANGED <<chainVars, theirs, peer, itemVars, most_recent_blocks_accepted,
                 suspend_fetching_sync_blocks, fetch_due, handler, calls, backlog, setting>>

\* mutant: leaves the requests to the peer that is gone
OnConnectionClosedKeeps(p) ==
  /\ conn[p] = "closing" /\ ~Asking(handler[p])
  /\ conn' = [conn EXCEPT ![p] = "gone"]
  /\ wire' = [wire EXCEPT ![p] = <<>>]
  /\ UNCHANGED <<chainVars, theirs, peer, itemVars, fetch_due, most_recent_blocks_accepted,
                 suspend_fetching_sync_blocks, handler, calls, backlog, setting, faults>>

OnConnectionClosed(p) ==
  /\ conn[p] = "closing" /\ ~Asking(handler[p])
  /\ conn' = [conn EXCEPT ![p] = "gone"]
  /\ wire' = [wire EXCEPT ![p] = <<>>]
  /\ active_sync_requests' = active_sync_requests \ peer[p].sync_items_requested
  /\ fetch_due' = (fetch_due \/ peer[p].sync_items_requested # {})
  /\ UNCHANGED <<chainVars, theirs, peer, received_sync_items, new_received_sync_items,
                 most_recent_blocks_accepted, suspend_fetching_sync_blocks, handler, calls,
                 backlog, setting, faults>>

Fibers == {handler[p] : p \in Peers} \cup {calls[i].fiber : i \in 1..Len(calls)} \cup {backlog.fiber}
Mentions(fiber, p) ==
  (Asking(fiber) /\ fiber.ask.peer = p) \/ (\E t \in ToSet(fiber.todo) : t.peer = p)

\* the connection is made again, as a new peer_connection: new_peer_just_added
NewPeerJustAdded(p) ==
  LET begun == Begin([peer EXCEPT ![p] = NewPeer], <<Restart(p)>>)
  IN /\ p \in setting.peers /\ conn[p] = "gone" /\ \A f \in Fibers : ~Mentions(f, p)
     /\ conn' = [conn EXCEPT ![p] = "active"]
     /\ peer' = begun.peers
     /\ handler' = [handler EXCEPT ![p] = begun.fiber]
     /\ UNCHANGED <<chainVars, theirs, wire, itemVars, most_recent_blocks_accepted,
                    suspend_fetching_sync_blocks, fetch_due, calls, backlog, setting, faults>>

-----------------------------------------------------------------------------
(* the peers *)

\* a peer's chain grows by a block, or the peer moves to a longer fork
TheirChainGrows(p) ==
  /\ p \in setting.peers /\ faults.growth < setting.max_growth
  /\ \E path \in Chains : Len(path) = Len(theirs[p]) + 1 /\ theirs' = [theirs EXCEPT ![p] = path]
  /\ faults' = [faults EXCEPT !.growth = @ + 1]
  /\ UNCHANGED <<chainVars, peer, conn, wire, itemVars, most_recent_blocks_accepted,
                 suspend_fetching_sync_blocks, fetch_due, handler, calls, backlog, setting>>

\* a peer that takes us to be in sync advertises its last block, and we fetch it
Advertise(p) ==
  LET id == Last(theirs[p])
  IN /\ faults.advertised < setting.max_advertised
     /\ conn[p] = "active" /\ theirs[p] # <<>>
     /\ ~peer[p].we_need /\ idle(peer[p]) /\ id \notin peer[p].advertised
     /\ \A f \in Fibers : ~Mentions(f, p)
     /\ \A q \in Peers : id \notin peer[q].items_requested
     /\ peer' = [peer EXCEPT ![p].advertised = @ \cup {id}, ![p].items_requested = {id}]
     /\ wire' = [wire EXCEPT ![p] = Append(@, [type |-> "block", id |-> id])]
     /\ faults' = [faults EXCEPT !.advertised = @ + 1]
     /\ UNCHANGED <<chainVars, theirs, conn, itemVars, most_recent_blocks_accepted,
                    suspend_fetching_sync_blocks, fetch_due, handler, calls, backlog, setting>>

Next ==
  \/ FetchSyncItems \/ ProcessBacklog \/ BacklogResumes \/ HandleBlock
  \/ \E i \in 1..Len(calls) : CallResumes(i) \/ BlockAccepted(i) \/ BlockRejected(i)
  \/ \E p \in Peers : \/ HandlerResumes(p) \/ OnItemIds(p) \/ OnBlock(p) \/ OnItemNotAvailable(p)
                      \/ OnFetchItemIds(p) \/ TerminateInactive(p) \/ OnConnectionClosed(p)
                      \/ NewPeerJustAdded(p) \/ TheirChainGrows(p) \/ Advertise(p)

Spec == Init /\ [][Next]_vars

(***************************************************************************)
(* The thread runs its fibers and the chain database its calls in turn,    *)
(* and a connected peer answers: one that does not is dropped, and what    *)
(* was requested of it is dealt with when the connection closes.           *)
(***************************************************************************)
Fairness ==
  /\ WF_vars(FetchSyncItems) /\ WF_vars(ProcessBacklog) /\ WF_vars(BacklogResumes)
  /\ WF_vars(HandleBlock)
  /\ WF_vars(\E i \in 1..Len(calls) : CallResumes(i) \/ BlockAccepted(i) \/ BlockRejected(i))
  /\ \A p \in Peers : /\ WF_vars(HandlerResumes(p)) /\ WF_vars(OnItemIds(p))
                       /\ WF_vars(OnBlock(p)) /\ WF_vars(OnConnectionClosed(p))

FairSpec == Spec /\ Fairness

-----------------------------------------------------------------------------
(* properties *)

Connected == {p \in Peers : conn[p] # "gone"}
Handed == {c.block : c \in ToSet(InProgress)}
Parent(id) == IF num_from_id(id) = 1 THEN ZeroId ELSE PathTo(id)[num_from_id(id) - 1]

(***************************************************************************)
(* The chain database rejects a block handed over by synchronisation only  *)
(* for what the block or an ancestor is, never because it came before its  *)
(* parent: whichever peers the blocks came from and in whatever order they *)
(* arrived, process_backlog_of_sync_blocks hands them over parent first.   *)
(***************************************************************************)
ValidBlocksAccepted ==
  \A i \in 1..Len(calls) :
    calls[i].stage = "rejected" => ToSet(PathTo(calls[i].block)) \cap setting.invalid # {}

(***************************************************************************)
(* The ids in a peer's list follow each other, and the first follows a     *)
(* block that we have or have handed over: popping, merging a new list and *)
(* restarting leave no gap between the chain and the list.                 *)
(***************************************************************************)
ListsAreChains ==
  \A p \in Active : \A i \in 1..Len(peer[p].to_get) :
    IF i > 1 THEN Parent(peer[p].to_get[i]) = peer[p].to_get[i - 1]
    ELSE Parent(peer[p].to_get[i]) \in {ZeroId} \cup known \cup Handed

(***************************************************************************)
(* The assertion at the end of create_blockchain_synopsis_for_peer: the    *)
(* synopsis ends with the last id the peer has offered, although blocks    *)
(* were accepted and the chain changed while the synopsis was made.        *)
(***************************************************************************)
SynopsisEndsWithOffer ==
  \A f \in Fibers : Asking(f) /\ f.ask.to_get # <<>> /\ ~NoSynopsis(f) =>
    Last(Ask(f).synopsis) = Last(f.ask.to_get)

\* nothing is under way and nothing is awaited
AtRest ==
  /\ ~fetch_due /\ backlog.stage = "idle" /\ InProgress = <<>>
  /\ \A p \in Peers : wire[p] = <<>> /\ ~Asking(handler[p]) /\ conn[p] # "closing"

(***************************************************************************)
(* When nothing is under way any more, and every peer had what it listed,  *)
(* every block a connected peer has listed has been received, a peer that  *)
(* has listed all its blocks and has no list left is taken to be in sync,  *)
(* and fetching is not left suspended: no trigger of the fetch loop is     *)
(* lost.  (A peer whose blocks arrive faster than they are handled can     *)
(* exhaust its list with ids left to send; nothing asks for them, and the  *)
(* peer is dropped by terminate_inactive_connections_loop.)                *)
(***************************************************************************)
NothingForgotten ==
  AtRest /\ setting.lacking = {} =>
    /\ ~suspend_fetching_sync_blocks
    /\ \A p \in Active : IF peer[p].to_get = <<>> THEN peer[p].unfetched = 0 => ~peer[p].we_need
                         ELSE ToSet(peer[p].to_get) \subseteq Received

(***************************************************************************)
(* "list of sync blocks we've asked for from peers but have not yet        *)
(* received" (_active_sync_requests): a block is on the list exactly while *)
(* one connected peer is expected to send it.                              *)
(***************************************************************************)
RequestedOfOne ==
  /\ active_sync_requests = UNION {peer[p].sync_items_requested : p \in Connected}
  /\ \A p, q \in Connected : p # q =>
       peer[p].sync_items_requested \cap peer[q].sync_items_requested = {}

\* a block that was requested arrives, or is free to be requested of another peer
RequestsEnd ==
  \A id \in Blocks : []<>(id \notin active_sync_requests)

(***************************************************************************)
(* Synchronisation comes to an end: whatever order a peer's answers and    *)
(* the chain database's results arrive in, we end up with every block of   *)
(* the peer if it stays connected.  (Two peers that list the same blocks   *)
(* can leave us stuck: ReceivedCannotBeProcessed.)                         *)
(***************************************************************************)
Synchronises ==
  Cardinality(setting.peers) = 1 =>
    <>[](\A p \in Peers : conn[p] = "active" => ToSet(theirs[p]) \subseteq known)

(***************************************************************************)
(* "list of sync blocks we've received, but can't yet process because we   *)
(* are still missing blocks that come earlier in the chain"                *)
(* (_received_sync_items), once nothing is under way.                      *)
(***************************************************************************)
ReceivedCannotBeProcessed ==
  AtRest => \A id \in Received : Parent(id) \notin {ZeroId} \cup known

(***************************************************************************)
(* A peer is punished only for its own blocks: when the chain database     *)
(* rejects a block, the peers disconnected for it are those that offered   *)
(* it, not those that are on another fork.                                 *)
(***************************************************************************)
InnocentKept ==
  [][\A i \in 1..Len(calls) : calls[i].stage = "rejected" /\ calls'[i].stage = "done" =>
       \A p \in Active : conn'[p] # "active" => calls[i].block \in ToSet(theirs[p])]_vars
=============================================================================
