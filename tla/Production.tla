----------------------------- MODULE Production -----------------------------
(***************************************************************************)
(* Block production: slots and the witness schedule                        *)
(* (chain/db_witness_schedule.cpp), what a block changes about them        *)
(* (chain/db_update.cpp, database::_apply_block), elections and the next   *)
(* maintenance time (chain/db_maint.cpp) and the production loop of the    *)
(* witness plugin (plugins/witness/witness.cpp), for nodes that share one  *)
(* chain while witnesses fail and recover and nodes are restarted.         *)
(*                                                                         *)
(* Blocks reach every node before the next second; forks are the subject   *)
(* of ChainDatabase.  Clocks agree.  A second is a step of the clock, and  *)
(* each node's loop runs once in it.                                       *)
(***************************************************************************)
EXTENDS Integers, Sequences, FiniteSets, SequencesExt, FiniteSetsExt

CONSTANTS
  WitnessOrder,     \* the witnesses by id, which is also the order of their vote ids
  Shuffle(_, _),    \* what the generator seeded with a time makes of a list
  Threshold,        \* GRAPHENE_IRREVERSIBLE_THRESHOLD, in percent
  Window,           \* slots in recent_slots_filled
  Settings          \* the situations to start from

(***************************************************************************)
(* A setting fixes                                                         *)
(*   runs           the witnesses that each node runs                      *)
(*   genesis        the time of genesis                                    *)
(*   plan           parameters and votes from genesis and from each        *)
(*                  maintenance on: block_interval, maintenance_interval,  *)
(*                  skip (maintenance_skip_slots), votes, seats            *)
(*   permanent      witnesses that are never disabled                      *)
(*   required       _required_witness_participation, in percent            *)
(*   max_undo       GRAPHENE_MAX_UNDO_HISTORY                              *)
(*   max_clock      when it ends                                           *)
(*   faults         the sets of witnesses that may fail together           *)
(*   max_outages, max_restarts                                             *)
(*                  how often witnesses fail and a node is restarted       *)
(***************************************************************************)
Witnesses == ToSet(WitnessOrder)

Plans ==
  [block_interval : Nat \ {0}, maintenance_interval : Nat \ {0}, skip : Nat,
   seats : Nat \ {0}, votes : [Witnesses -> Nat]]

\* the witnesses ws by id
Listing(ws) == SelectSeq(WitnessOrder, LAMBDA w : w \in ws)

\* validated parameters of the chain; at genesis there are enough witnesses,
\* and every witness is run by some node
ASSUME SettingsAssumption ==
  /\ WitnessOrder \in Seq(Witnesses)
  /\ Threshold \in 1..100
  /\ \A c \in Settings :
       /\ c.genesis \in Nat /\ c.max_clock \in Nat /\ c.genesis <= c.max_clock
       /\ c.max_undo \in Nat
       /\ c.plan \in Seq(Plans) \ {<<>>}
       /\ c.plan[1].seats <= Len(WitnessOrder)
       /\ \A w \in Witnesses : \E n \in DOMAIN c.runs : w \in c.runs[n]

ASSUME ShuffleAssumption ==
  \A c \in Settings, ws \in (SUBSET Witnesses) \ {{}} :
    \A time \in c.genesis .. c.max_clock :
      Shuffle(Listing(ws), time) \in [1..Cardinality(ws) -> ws]

VARIABLES
  clock,
  s,         \* the state of the chain: global and dynamic properties, witnesses, schedule
  signers,   \* who signed the blocks of the chain
  enabled,   \* _production_enabled of each node
  waiting,   \* nodes whose production loop has yet to run in this second
  down,      \* witnesses that cannot produce
  turns,     \* history: turns each witness has let pass since the last maintenance
  since,     \* history: when the last block was made or the witnesses last recovered
  restarted, \* history: when a node was last restarted, 0 if before the last block
  outages, restarts,
  setting

history == <<turns, since, restarted>>
vars == <<clock, s, signers, enabled, waiting, down, history, outages, restarts, setting>>

Nodes == DOMAIN enabled
Params(t) == setting.plan[Min({t.maintenances + 1, Len(setting.plan)})]

-----------------------------------------------------------------------------
(* slots *)

block_interval(t) == Params(t).block_interval

get_slot_time(t, slot) ==
  IF slot = 0 THEN 0
  ELSE IF t.num = 0 THEN t.time + slot * block_interval(t)
  ELSE LET head_slot_time == (t.time \div block_interval(t)) * block_interval(t)
           skipped == IF t.maintenance_flag THEN Params(t).skip ELSE 0
       IN head_slot_time + (slot + skipped) * block_interval(t)

\* mutant: the slots skipped after a maintenance are forgotten
get_slot_at_time_unskipped(t, when) ==
  (when - get_slot_time([t EXCEPT !.maintenance_flag = FALSE], 1)) \div block_interval(t) + 1

get_slot_at_time(t, when) ==
  IF when < get_slot_time(t, 1) THEN 0
  ELSE (when - get_slot_time(t, 1)) \div block_interval(t) + 1

get_scheduled_witness(t, slot) ==
  t.shuffled[((t.aslot + slot) % Len(t.shuffled)) + 1]

\* witness_participation_rate, in percent
Participation(t) == (100 * Cardinality({i \in 1..Window : t.filled[i]})) \div Window

-----------------------------------------------------------------------------
(* _apply_block *)

\* mutant: the slots are counted from the one of the head block
DynamicDataOffByOne(t, b) ==
  LET slot == get_slot_at_time(t, b.time)
      Missed(w) == Cardinality({i \in 0..(slot - 2) : get_scheduled_witness(t, i) = w})
      bits == t.filled \o <<TRUE>> \o [i \in 1..(slot - 1) |-> FALSE]
  IN [t EXCEPT !.num = @ + 1, !.time = b.time, !.aslot = @ + slot,
               !.filled = SubSeq(bits, Len(bits) - Window + 1, Len(bits)),
               !.recent_missed = [w \in Witnesses |->
                                    IF w = b.witness THEN @[w] ELSE @[w] + Missed(w)]]

\* missed slots count for the witnesses scheduled for them, except for the one that signs
UpdateGlobalDynamicData(t, b) ==
  LET slot == get_slot_at_time(t, b.time)
      Missed(w) == Cardinality({i \in 1..(slot - 1) : get_scheduled_witness(t, i) = w})
      bits == t.filled \o <<TRUE>> \o [i \in 1..(slot - 1) |-> FALSE]
  IN [t EXCEPT !.num = @ + 1, !.time = b.time, !.aslot = @ + slot,
               !.filled = SubSeq(bits, Len(bits) - Window + 1, Len(bits)),
               !.recent_missed = [w \in Witnesses |->
                                    IF w = b.witness THEN @[w] ELSE @[w] + Missed(w)]]

UpdateSigningWitness(t, b) == [t EXCEPT !.confirmed[b.witness] = t.num]

\* mutant: every active witness must confirm
LastConfirmedByAll(t) == Min({t.confirmed[w] : w \in t.active})

\* mutant: half of the active witnesses suffice
LastConfirmedByHalf(t) ==
  LET offset == Cardinality(t.active) \div 2
  IN CHOOSE n \in {t.confirmed[w] : w \in t.active} :
       /\ Cardinality({w \in t.active : t.confirmed[w] < n}) <= offset
       /\ Cardinality({w \in t.active : t.confirmed[w] <= n}) > offset

\* the element that nth_element puts at the offset
LastConfirmed(t) ==
  LET offset == ((100 - Threshold) * Cardinality(t.active)) \div 100
  IN CHOOSE n \in {t.confirmed[w] : w \in t.active} :
       /\ Cardinality({w \in t.active : t.confirmed[w] < n}) <= offset
       /\ Cardinality({w \in t.active : t.confirmed[w] <= n}) > offset

UpdateLastIrreversibleBlock(t) ==
  [t EXCEPT !.lib = Max({@, LastConfirmed(t)})]

\* database_check_witness: more than half of the slots of the interval
CheckWitness(t) ==
  LET lost_num == Params(t).maintenance_interval \div block_interval(t)
  IN [t EXCEPT !.lost = @ \cup {w \in Witnesses \ setting.permanent :
                                  t.recent_missed[w] > lost_num \div 2}]

\* sort_votable_objects: by votes, then by vote id; the first are elected
Precedes(t, v, w) ==
  LET Votes(x) == IF x \in t.lost THEN 0 ELSE Params(t).votes[x]
      Id(x) == CHOOSE i \in DOMAIN WitnessOrder : WitnessOrder[i] = x
  IN Votes(v) > Votes(w) \/ (Votes(v) = Votes(w) /\ Id(v) < Id(w))

Elected(t) ==
  {w \in Witnesses : Cardinality({v \in Witnesses : Precedes(t, v, w)}) < Params(t).seats}

\* mutant: one interval is added, whatever the time
NextMaintenanceOnce(t, b) ==
  LET interval == Params(t).maintenance_interval
  IN IF t.num = 1 THEN (b.time \div interval + 1) * interval
     ELSE t.next_maintenance + interval

\* the smallest of the planned times that is in the future
NextMaintenance(t, b) ==
  LET interval == Params(t).maintenance_interval
  IN IF t.num = 1 THEN (b.time \div interval + 1) * interval
     ELSE t.next_maintenance + ((t.time - t.next_maintenance) \div interval + 1) * interval

\* perform_chain_maintenance: the elections are held under the old parameters
PerformChainMaintenance(t, b) ==
  LET checked == CheckWitness(t)
      elected == [checked EXCEPT !.active = Elected(checked),
                                 !.recent_missed = [w \in Witnesses |-> 0]]
      renewed == [elected EXCEPT !.maintenances = @ + 1]
  IN [renewed EXCEPT !.next_maintenance = NextMaintenance(renewed, b)]

UpdateWitnessSchedule(t) ==
  IF t.num % Cardinality(t.active) = 0
  THEN [t EXCEPT !.shuffled = Shuffle(Listing(t.active), t.time)]
  ELSE t

Applied(t, b) ==
  LET maint_needed == t.next_maintenance <= b.time
      produced == UpdateLastIrreversibleBlock(
                    UpdateSigningWitness(UpdateGlobalDynamicData(t, b), b))
      maintained == IF maint_needed THEN PerformChainMaintenance(produced, b) ELSE produced
  IN UpdateWitnessSchedule([maintained EXCEPT !.maintenance_flag = maint_needed])

\* validate_block_header, and the limit of the undo history
Valid(t, b) ==
  /\ t.time < b.time
  /\ get_slot_at_time(t, b.time) > 0
  /\ b.witness = get_scheduled_witness(t, get_slot_at_time(t, b.time))
  /\ t.num + 1 - t.lib < setting.max_undo

-----------------------------------------------------------------------------
Genesis ==
  [num |-> 0, time |-> setting.genesis, aslot |-> 0, filled |-> [i \in 1..Window |-> TRUE],
   recent_missed |-> [w \in Witnesses |-> 0], confirmed |-> [w \in Witnesses |-> 0],
   lib |-> 0, lost |-> {}, maintenances |-> 0, next_maintenance |-> 0,
   maintenance_flag |-> FALSE,
   active |-> ToSet(SubSeq(WitnessOrder, 1, setting.plan[1].seats)),
   shuffled |-> SubSeq(WitnessOrder, 1, setting.plan[1].seats)]

Init ==
  /\ setting \in Settings
  /\ clock = setting.genesis
  /\ s = Genesis
  /\ signers = <<>>
  /\ enabled = [n \in DOMAIN setting.runs |-> FALSE]
  /\ waiting = {} /\ down = {}
  /\ turns = [w \in Witnesses |-> 0]
  /\ since = clock
  /\ restarted = [n \in DOMAIN setting.runs |-> 0]
  /\ outages = 0 /\ restarts = 0

(***************************************************************************)
(* maybe_produce_block.  A loop that produces nothing still enables a node *)
(* that has caught up.                                                     *)
(***************************************************************************)
EnabledAhead(n) == enabled[n] \/ get_slot_time(s, 1) > clock  \* mutant

Enabled(n) == enabled[n] \/ get_slot_time(s, 1) >= clock

Slot == get_slot_at_time(s, clock)
Due == [time |-> get_slot_time(s, Slot), witness |-> get_scheduled_witness(s, Slot)]

HisTurn(n) == Slot > 0 /\ Due.witness \in setting.runs[n] /\ Due.time = clock

MayProduce(n) ==
  /\ Enabled(n)
  /\ HisTurn(n) /\ Due.witness \notin down
  /\ Participation(s) >= setting.required

Produce(n) ==
  /\ n \in waiting
  /\ MayProduce(n) /\ Valid(s, Due)
  /\ s' = Applied(s, Due)
  /\ signers' = Append(signers, Due.witness)
  /\ enabled' = [enabled EXCEPT ![n] = TRUE]
  /\ waiting' = waiting \ {n}
  /\ turns' = IF s'.maintenance_flag THEN [w \in Witnesses |-> 0] ELSE turns
  /\ since' = clock
  /\ restarted' = [m \in Nodes |-> 0]
  /\ UNCHANGED <<clock, down, outages, restarts, setting>>

\* for one of its conditions, or generate_block throws
DoNotProduce(n) ==
  /\ n \in waiting
  /\ ~(MayProduce(n) /\ Valid(s, Due))
  /\ enabled' = [enabled EXCEPT ![n] = Enabled(n)]
  /\ waiting' = waiting \ {n}
  /\ turns' = IF HisTurn(n) THEN [turns EXCEPT ![Due.witness] = @ + 1] ELSE turns
  /\ UNCHANGED <<clock, s, signers, down, since, restarted, outages, restarts, setting>>

NextSecond ==
  /\ clock < setting.max_clock /\ waiting = {}
  /\ clock' = clock + 1
  /\ waiting' = Nodes
  /\ UNCHANGED <<s, signers, enabled, down, history, outages, restarts, setting>>

\* the witnesses ws fail together, and recover
Fail(ws) ==
  /\ waiting = {} /\ down = {} /\ outages < setting.max_outages
  /\ down' = ws
  /\ outages' = outages + 1
  /\ UNCHANGED <<clock, s, signers, enabled, waiting, history, restarts, setting>>

Recover ==
  /\ waiting = {} /\ down # {}
  /\ down' = {}
  /\ since' = clock
  /\ UNCHANGED <<clock, s, signers, enabled, waiting, turns, restarted, outages, restarts,
                 setting>>

\* a node is started again, without enable-stale-production
RestartNode(n) ==
  /\ waiting = {} /\ restarts < setting.max_restarts
  /\ enabled' = [enabled EXCEPT ![n] = FALSE]
  /\ restarts' = restarts + 1
  /\ restarted' = [restarted EXCEPT ![n] = clock]
  /\ UNCHANGED <<clock, s, signers, waiting, down, turns, since, outages, setting>>

Next ==
  \/ NextSecond
  \/ \E n \in Nodes : Produce(n) \/ DoNotProduce(n) \/ RestartNode(n)
  \/ \E ws \in setting.faults : Fail(ws)
  \/ Recover

Spec == Init /\ [][Next]_vars

-----------------------------------------------------------------------------
(* properties *)

(***************************************************************************)
(* The chain never needs more undo history than there is: the last         *)
(* irreversible block follows the head also while elected witnesses have   *)
(* yet to sign their first block (the assertion of                         *)
(* update_global_dynamic_data).                                            *)
(***************************************************************************)
HistorySuffices == s.num - s.lib < setting.max_undo - 1

(***************************************************************************)
(* When a block becomes irreversible, the share of the active witnesses    *)
(* that the threshold names have signed it or a block after it.            *)
(***************************************************************************)
IrreversibleIsBacked ==
  [][s'.lib > s.lib =>
       LET backing == {w \in s.active : \E i \in s'.lib .. s'.num : signers'[i] = w}
       IN 100 * Cardinality(backing) >= Threshold * Cardinality(s.active)]_vars

(***************************************************************************)
(* The next maintenance is ahead and not further than an interval, also    *)
(* after intervals without a block and after the interval was changed (the *)
(* assertion of budget_miners).                                            *)
(***************************************************************************)
MaintenanceAhead ==
  s.num > 0 => /\ s.time < s.next_maintenance
               /\ s.next_maintenance <= s.time + Params(s).maintenance_interval

(***************************************************************************)
(* A slot that has come lies after the head block (the assertion of        *)
(* maybe_produce_block), and every node accepts a block of the witness     *)
(* scheduled for it, also over a change of the block interval.             *)
(***************************************************************************)
SlotsAreUsable ==
  Slot > 0 => /\ s.time < Due.time /\ Due.time <= clock
              /\ Valid(s, Due)

(***************************************************************************)
(* No witness is charged with more missed blocks than turns it has let     *)
(* pass: the slots counted when the next block arrives are those that the  *)
(* nodes went by.                                                          *)
(***************************************************************************)
MissedRightly == \A w \in Witnesses : s.recent_missed[w] <= turns[w]

(***************************************************************************)
(* The chain stands still only because participation is too low, or        *)
(* because no witness of the schedule is up on a node that may produce:    *)
(* otherwise a block follows within a round of slots and those that are    *)
(* skipped, whatever was elected, changed or restarted in between.  And a  *)
(* node is kept from producing only if it was restarted when the first     *)
(* slot after the head block had come: others never wait for each other    *)
(* (_production_enabled of maybe_produce_block).                           *)
(***************************************************************************)
CanGoOn ==
  /\ Participation(s) >= setting.required
  /\ \E n \in Nodes : enabled[n] /\ setting.runs[n] \cap (ToSet(s.shuffled) \ down) # {}

BlocksKeepComing ==
  /\ CanGoOn => clock - since <= (Len(s.shuffled) + Params(s).skip) * block_interval(s)
  /\ waiting = {} /\ s.time < clock =>
       \A n \in Nodes :
         enabled[n] \/ restarted[n] = clock \/ restarted[n] >= get_slot_time(s, 1)
=============================================================================
