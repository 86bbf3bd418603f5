------------------------------- MODULE Budget -------------------------------
(***************************************************************************)
(* Where the core asset comes from and goes to: the budget for witnesses   *)
(* and workers at every maintenance (budget_miners, pay_workers and        *)
(* process_budget of chain/db_maint.cpp), the pay for a block              *)
(* (update_signing_witness), the fees that reach the network               *)
(* (process_fees, asset_reserve_fees), and the operations that issue or    *)
(* destroy it.  The budget is for the blocks until the next maintenance,   *)
(* so the times of blocks and maintenances are here as well.               *)
(*                                                                         *)
(* The balances of all accounts, their vesting balances and pending fees   *)
(* are one number; a transfer between them changes nothing here.           *)
(***************************************************************************)
EXTENDS Integers

CONSTANTS
  MaxSupply,         \* max_supply of the core asset
  MaxShareMiner,     \* GRAPHENE_MAX_SHARE_MINER
  MaxShareBudget,    \* GRAPHENE_MAX_SHARE_BUDGET
  PayPerBlock,       \* witness_pay_per_block
  MaxWorkerPay,      \* max_worker_budget_per_day, for the interval
  InitialSupply,     \* issued at genesis
  Amounts,           \* the amounts that operations move
  Parameters,        \* the chain parameters there may be: [block_interval,
                     \* maintenance_interval, skip (maintenance_skip_slots)]
  GenesisTime,
  MaxMissed,         \* bound on the slots missed in a row
  MaxMaintenances    \* bound on the number of maintenances

ASSUME BudgetAssumption ==
  /\ MaxSupply \in Nat /\ MaxShareMiner \in Nat /\ MaxShareBudget \in Nat
  /\ PayPerBlock \in Nat /\ MaxWorkerPay \in Nat
  /\ InitialSupply \in 0..MaxSupply
  /\ Amounts \subseteq Nat
  /\ GenesisTime \in Nat /\ MaxMissed \in Nat /\ MaxMaintenances \in Nat

\* chain_parameters::validate
ASSUME ParametersAssumption ==
  /\ Parameters \subseteq [block_interval : Nat \ {0}, maintenance_interval : Nat \ {0},
                           skip : Nat]
  /\ \A p \in Parameters : /\ p.maintenance_interval > p.block_interval
                            /\ p.maintenance_interval % p.block_interval = 0

VARIABLES
  current_supply, accumulated_fees,
  miners_budget,      \* miners_budget[miner_witness]
  miner_supply, budget_supply,
  platform,           \* the balance of GRAPHENE_PLATFORM_ACCOUNT
  accounts,           \* what all others have
  issue_amount,       \* issued to gateways and not revoked
  params,             \* one of Parameters
  time,               \* head_block_time
  next_maintenance_time, maintenance_flag,
  maintenances,       \* how many there have been; the first block is the first of them
  changed,            \* history: the last one changed the block interval
  destroyed,          \* history: taken out of the supply
  unbacked,           \* history: paid out without being taken from anywhere
  at_max              \* history: the last budget found the supply at its maximum

schedule == <<params, time, next_maintenance_time, maintenance_flag, maintenances, changed>>
vars == <<current_supply, accumulated_fees, miners_budget, miner_supply, budget_supply,
          platform, accounts, issue_amount, schedule, destroyed, unbacked, at_max>>

Lesser(a, b) == IF a <= b THEN a ELSE b

Init ==
  /\ current_supply = InitialSupply /\ accounts = InitialSupply
  /\ accumulated_fees = 0 /\ platform = 0
  /\ miners_budget = 0 /\ miner_supply = 0 /\ budget_supply = 0 /\ issue_amount = 0
  /\ params \in Parameters /\ time = GenesisTime
  /\ next_maintenance_time = 0 /\ maintenance_flag = FALSE
  /\ maintenances = 0 /\ changed = FALSE
  /\ destroyed = 0 /\ unbacked = 0 /\ at_max = FALSE

-----------------------------------------------------------------------------
(* operations *)

\* asset_reserve_fees: an account gives to the fees
ReserveFees(a) ==
  /\ a <= accounts
  /\ accounts' = accounts - a
  /\ accumulated_fees' = accumulated_fees + a
  /\ UNCHANGED <<current_supply, miners_budget, miner_supply, budget_supply, platform,
                 issue_amount, schedule, destroyed, unbacked, at_max>>

\* an account buys an asset of the platform's
BuyFromPlatform(a) ==
  /\ a <= accounts
  /\ accounts' = accounts - a
  /\ platform' = platform + a
  /\ UNCHANGED <<current_supply, accumulated_fees, miners_budget, miner_supply, budget_supply,
                 issue_amount, schedule, destroyed, unbacked, at_max>>

\* asset_reserve; cashback of the blockchain's own accounts ends the same way
Reserve(a) ==
  /\ a <= accounts /\ a <= current_supply
  /\ accounts' = accounts - a
  /\ current_supply' = current_supply - a
  /\ destroyed' = destroyed + a
  /\ UNCHANGED <<accumulated_fees, miners_budget, miner_supply, budget_supply, platform,
                 issue_amount, schedule, unbacked, at_max>>

\* gateway_issue_currency of the core asset, out of the workers' share
Issue(a) ==
  /\ a <= MaxSupply - current_supply
  /\ a <= MaxShareBudget - budget_supply
  /\ accounts' = accounts + a
  /\ current_supply' = current_supply + a
  /\ issue_amount' = issue_amount + a
  /\ budget_supply' = budget_supply + a
  /\ UNCHANGED <<accumulated_fees, miners_budget, miner_supply, platform,
                 schedule, destroyed, unbacked, at_max>>

\* mutant: the workers' share is not given back
RevokeKeepsShare(a) ==
  /\ a <= accounts /\ a <= current_supply /\ a <= issue_amount
  /\ accounts' = accounts - a
  /\ current_supply' = current_supply - a
  /\ issue_amount' = issue_amount - a
  /\ UNCHANGED <<budget_supply, accumulated_fees, miners_budget, miner_supply, platform,
                 schedule, destroyed, unbacked, at_max>>

Revoke(a) ==
  /\ a <= accounts /\ a <= current_supply /\ a <= issue_amount
  /\ accounts' = accounts - a
  /\ current_supply' = current_supply - a
  /\ issue_amount' = issue_amount - a
  /\ budget_supply' = budget_supply - a
  /\ UNCHANGED <<accumulated_fees, miners_budget, miner_supply, platform,
                 schedule, destroyed, unbacked, at_max>>

-----------------------------------------------------------------------------
(* blocks *)

\* the time of the first block, and of those after it, with slots missed
get_slot_time(slot) ==
  LET interval == params.block_interval
      skipped == IF maintenance_flag THEN params.skip ELSE 0
  IN IF maintenances = 0 THEN time + slot * interval
     ELSE (time \div interval) * interval + (slot + skipped) * interval

witness_pay == Lesser(PayPerBlock, miners_budget)

\* a block before the maintenance
Block(slot) ==
  /\ get_slot_time(slot) < next_maintenance_time
  /\ time' = get_slot_time(slot) /\ maintenance_flag' = FALSE
  /\ miners_budget' = miners_budget - witness_pay
  /\ accounts' = accounts + witness_pay
  /\ UNCHANGED <<current_supply, accumulated_fees, miner_supply, budget_supply, platform,
                 issue_amount, params, next_maintenance_time, maintenances, changed,
                 destroyed, unbacked, at_max>>

\* the first of the planned times after the block at time t
NextMaintenance(t, interval) ==
  IF maintenances = 0 THEN (t \div interval + 1) * interval
  ELSE next_maintenance_time + ((t - next_maintenance_time) \div interval + 1) * interval

\* mutant: rounded down
blocks_to_maint_rounded_down(time_to_maint, interval) == time_to_maint \div interval

blocks_to_maint(time_to_maint, interval) == (time_to_maint + interval - 1) \div interval

\* mutant: the fees stay although they are handed out
MinersShortKeepsFees(t, need) ==
  LET issue == Lesser(Lesser(need - t.fees, MaxShareMiner - t.issued), MaxSupply - t.supply)
  IN [t EXCEPT !.supply = @ + issue, !.issued = @ + issue, !.budget = @ + issue + t.fees]

(***************************************************************************)
(* budget_miners: what the witnesses need for the next interval, less what *)
(* is left of the last budget, is taken from the fees; what is lacking is  *)
(* issued as far as the limits allow.  If nothing can be issued, the fees  *)
(* are handed out and stay where they are.  The first maintenance only     *)
(* sets the time.  A treasury t has the fields                             *)
(*    supply, fees, issued, budget, unbacked                               *)
(***************************************************************************)
MinersShort(t, need) ==
  LET issue == Lesser(Lesser(need - t.fees, MaxShareMiner - t.issued), MaxSupply - t.supply)
  IN IF issue > 0
     THEN [t EXCEPT !.supply = @ + issue, !.issued = @ + issue, !.fees = 0,
                    !.budget = @ + issue + t.fees]
     ELSE [t EXCEPT !.budget = @ + issue + t.fees, !.unbacked = @ + t.fees]

budget_miners(t, blocks) ==
  LET need == PayPerBlock * blocks - t.budget
  IN IF maintenances = 0 THEN [t EXCEPT !.budget = 0]
     ELSE IF t.fees >= need THEN [t EXCEPT !.fees = @ - need, !.budget = @ + need]
     ELSE MinersShort(t, need)

\* mutant: an issue of one is taken for none
WorkersShortAboveOne(t, amount) ==
  LET issue == Lesser(Lesser(amount - t.fees, MaxShareBudget - t.issued), MaxSupply - t.supply)
  IN IF issue > 1
     THEN [t EXCEPT !.supply = @ + issue, !.issued = @ + issue, !.fees = 0,
                    !.budget = issue + t.fees]
     ELSE [t EXCEPT !.budget = issue + t.fees, !.unbacked = @ + issue + t.fees]

(***************************************************************************)
(* pay_workers: as for the witnesses, with the platform's balance in the   *)
(* place of the fees and the workers' share in the place of the miners'.   *)
(***************************************************************************)
WorkersShort(t, amount) ==
  LET issue == Lesser(Lesser(amount - t.fees, MaxShareBudget - t.issued), MaxSupply - t.supply)
  IN IF issue > 0
     THEN [t EXCEPT !.supply = @ + issue, !.issued = @ + issue, !.fees = 0,
                    !.budget = issue + t.fees]
     ELSE [t EXCEPT !.budget = issue + t.fees, !.unbacked = @ + t.fees]

pay_workers(t, amount) ==
  IF t.fees >= amount THEN [t EXCEPT !.fees = @ - amount, !.budget = amount]
  ELSE WorkersShort(t, amount)

(***************************************************************************)
(* The maintenance block, in the given slot, pays its witness out of the   *)
(* old budget, sets the pending parameters p and the next maintenance      *)
(* time, collects cut as the network's part of the pending fees            *)
(* (process_fees), and then makes the budget for the next blocks.  The     *)
(* workers ask for amounts of which refund go back to the reserve          *)
(* (refund_worker) and keep go to accounts.  In the order of their votes   *)
(* they get what there is; refunded is what that comes to for the first    *)
(* kind.                                                                   *)
(***************************************************************************)
Maintenance(slot, p, cut, refund, keep, refunded) ==
  LET now == get_slot_time(slot)
      next == NextMaintenance(now, p.maintenance_interval)
      miners == budget_miners([supply |-> current_supply, fees |-> accumulated_fees + cut,
                               issued |-> miner_supply,
                               budget |-> miners_budget - witness_pay,
                               unbacked |-> unbacked],
                              blocks_to_maint(next - now, p.block_interval))
      workers == pay_workers([supply |-> miners.supply, fees |-> platform,
                              issued |-> budget_supply, budget |-> 0,
                              unbacked |-> miners.unbacked],
                             Lesser(refund + keep, MaxWorkerPay))
  IN /\ now >= next_maintenance_time /\ maintenances < MaxMaintenances
     /\ cut <= accounts
     /\ refunded \in 0..refund /\ workers.budget - refunded \in 0..keep
     /\ time' = now /\ next_maintenance_time' = next
     /\ params' = p /\ changed' = (p.block_interval # params.block_interval)
     /\ maintenance_flag' = TRUE
     /\ maintenances' = maintenances + 1
     /\ current_supply' = workers.supply - refunded
     /\ accumulated_fees' = miners.fees
     /\ miners_budget' = miners.budget
     /\ miner_supply' = miners.issued
     /\ budget_supply' = workers.issued
     /\ platform' = workers.fees
     /\ accounts' = accounts + witness_pay - cut + (workers.budget - refunded)
     /\ destroyed' = destroyed + refunded
     /\ unbacked' = workers.unbacked
     /\ at_max' = (miners.supply = MaxSupply)
     /\ UNCHANGED issue_amount

Next ==
  \/ \E a \in Amounts : \/ ReserveFees(a) \/ BuyFromPlatform(a) \/ Reserve(a)
                        \/ Issue(a) \/ Revoke(a)
  \/ \E slot \in 1..(MaxMissed + 1) : Block(slot)
  \/ \E slot \in 1..(MaxMissed + 1), p \in Parameters, cut, refund, keep \in Amounts \cup {0} :
       \E refunded \in 0..refund : Maintenance(slot, p, cut, refund, keep, refunded)

Spec == Init /\ [][Next]_vars

-----------------------------------------------------------------------------
TypeOK ==
  /\ current_supply \in Int /\ accumulated_fees \in Nat /\ miners_budget \in Nat
  /\ miner_supply \in Nat /\ budget_supply \in Nat /\ platform \in Nat /\ accounts \in Nat
  /\ issue_amount \in Nat
  /\ params \in Parameters /\ time \in Nat /\ next_maintenance_time \in Nat
  /\ maintenance_flag \in BOOLEAN /\ maintenances \in Nat /\ changed \in BOOLEAN
  /\ destroyed \in Nat /\ unbacked \in Nat /\ at_max \in BOOLEAN

(***************************************************************************)
(* Neither the budget nor the gateways, which draw on the same share,      *)
(* exceed the supply or the shares of miners and workers.                  *)
(***************************************************************************)
WithinLimits ==
  /\ current_supply <= MaxSupply
  /\ miner_supply <= MaxShareMiner
  /\ issue_amount <= budget_supply /\ budget_supply <= MaxShareBudget

(***************************************************************************)
(* What the shares record as issued is what has come to the supply, less   *)
(* what was destroyed.                                                     *)
(***************************************************************************)
IssuedIsAccounted ==
  current_supply + destroyed = InitialSupply + miner_supply + budget_supply

(***************************************************************************)
(* The shares of miners and workers, on which gateways draw too, account   *)
(* for the supply and keep within their limits.                            *)
(***************************************************************************)
SharesKept == WithinLimits /\ IssuedIsAccounted

(***************************************************************************)
(* What accounts, the platform, the fees and the budget hold is the        *)
(* supply, but for fees that were handed out and kept (the comparison of   *)
(* database::debug_dump).                                                  *)
(***************************************************************************)
Holdings == accounts + platform + accumulated_fees + miners_budget

Conservation == Holdings = current_supply + unbacked

(***************************************************************************)
(* Fees are only handed out and kept when a limit is reached.              *)
(***************************************************************************)
UnbackedOnlyAtLimit ==
  [][unbacked' > unbacked =>
       \/ miner_supply = MaxShareMiner \/ budget_supply = MaxShareBudget
       \/ current_supply' + (destroyed' - destroyed) = MaxSupply]_vars

\* k blocks may still come until the next maintenance, that one included
Fits(k) == k = 1 \/ get_slot_time(k - 1) < next_maintenance_time

Covers(k) == k * PayPerBlock <= miners_budget

(***************************************************************************)
(* A budget lasts for every block until the next maintenance, that one     *)
(* included, unless a limit cut it short.  Only when the maintenance       *)
(* changed the block interval and skips no slot may the last of them go    *)
(* unpaid: then the first slot lies less than an interval after the        *)
(* maintenance block, and the rounding of budget_miners does not make up   *)
(* for it.                                                                 *)
(***************************************************************************)
BudgetLasts ==
  maintenances > 1 /\ miner_supply # MaxShareMiner /\ ~at_max =>
    \A k \in 1..(next_maintenance_time - time + 1) :
      Fits(k) => Covers(k) \/ (changed /\ params.skip = 0 /\ Covers(k - 1))
=============================================================================
