---------------------------- MODULE BudgetProofs ----------------------------
(***************************************************************************)
(* Proofs about Budget: for all limits, pays, amounts and chain parameters *)
(* the shares stay within their limits, what was issued is accounted for,  *)
(* the core asset is conserved, and a budget lasts until the next one.     *)
(***************************************************************************)
EXTENDS Budget, NumberLemmas, TLAPS

-----------------------------------------------------------------------------
(* times *)

\* What n blocks fewer cost, or n slots fewer take.
LEMMA FewerBlocks ==
  ASSUME NEW m \in Nat, NEW n \in Nat, NEW p \in Nat, n < m
  PROVE  n * p + p <= m * p
<1>1. PICK k \in Nat : m = n + k + 1
  <2>1. m - n - 1 \in Nat /\ m = n + (m - n - 1) + 1
    OBVIOUS
  <2> QED BY <2>1
<1>2. m * p = n * p + k * p + p
  BY <1>1
<1>3. k * p >= 0 /\ k * p \in Int /\ n * p \in Int
  BY <1>1
<1> QED BY <1>2, <1>3

\* Division undoes multiplication.
LEMMA DivMultiple ==
  ASSUME NEW a \in Nat, NEW i \in Nat \ {0}
  PROVE  (a * i) \div i = a
<1> DEFINE q == (a * i) \div i
<1>1. a * i \in Nat
  OBVIOUS
<1>2. q \in Nat /\ q * i <= a * i /\ a * i < q * i + i
  BY <1>1, DivBounds
<1> HIDE DEF q
<1>3. q * i \in Int
  BY <1>2
<1>4. ~(q < a)
  BY <1>1, <1>2, <1>3, FewerBlocks
<1>5. ~(a < q)
  <2> SUFFICES ASSUME a < q PROVE FALSE
    OBVIOUS
  <2>1. a * i + i <= q * i
    BY <1>2, FewerBlocks
  <2> QED BY <1>1, <1>2, <1>3, <2>1
<1> QED BY <1>2, <1>4, <1>5 DEF q

\* maintenance_skip_slots, after a maintenance block
Skipped == IF maintenance_flag THEN params.skip ELSE 0

\* What chain_parameters::validate guarantees.
LEMMA ParameterTypes ==
  ASSUME NEW p \in Parameters
  PROVE  /\ p.block_interval \in Nat \ {0} /\ p.maintenance_interval \in Nat \ {0}
         /\ p.skip \in Nat
BY ParametersAssumption

\* get_slot_time after the first block: a multiple of the block interval.
LEMMA SlotTimes ==
  ASSUME TypeOK, NEW slot \in Nat
  PROVE  /\ get_slot_time(slot) \in Nat /\ Skipped \in Nat
         /\ time \div params.block_interval \in Nat
         /\ maintenances # 0 =>
              get_slot_time(slot)
                = (time \div params.block_interval + slot + Skipped) * params.block_interval
<1> DEFINE i == params.block_interval
           q == time \div i
<1>1. i \in Nat \ {0} /\ params.skip \in Nat /\ time \in Nat /\ maintenances \in Nat
  BY ParameterTypes DEF TypeOK
<1>2. q \in Nat
  BY <1>1, DivBounds
<1>3. Skipped \in Nat
  BY <1>1 DEF Skipped, TypeOK
<1>4. get_slot_time(slot) = IF maintenances = 0 THEN time + slot * i
                            ELSE q * i + (slot + Skipped) * i
  BY DEF get_slot_time, Skipped
<1> HIDE DEF i, q
<1>5. slot * i \in Nat /\ q * i \in Nat /\ (slot + Skipped) * i \in Nat
  BY <1>1, <1>2, <1>3
<1>6. q * i + (slot + Skipped) * i = (q + slot + Skipped) * i
  BY <1>1, <1>2, <1>3
<1> QED BY <1>1, <1>2, <1>3, <1>4, <1>5, <1>6 DEF i, q

\* A maintenance block puts the next maintenance after itself.
LEMMA NextAhead ==
  ASSUME TypeOK, NEW t \in Nat, NEW interval \in Nat \ {0}, t >= next_maintenance_time
  PROVE  NextMaintenance(t, interval) \in Nat /\ NextMaintenance(t, interval) > t
<1>1. next_maintenance_time \in Nat /\ t - next_maintenance_time \in Nat
  BY DEF TypeOK
<1>2. CASE maintenances = 0
  <2> DEFINE q == t \div interval
  <2>1. q \in Nat /\ t < q * interval + interval
    BY DivBounds
  <2>2. NextMaintenance(t, interval) = (q + 1) * interval
    BY <1>2 DEF NextMaintenance
  <2> HIDE DEF q
  <2>3. (q + 1) * interval = q * interval + interval /\ (q + 1) * interval \in Nat
    BY <2>1
  <2> QED BY <2>1, <2>2, <2>3
<1>3. CASE maintenances # 0
  <2> DEFINE x == t - next_maintenance_time
             q == x \div interval
  <2>1. q \in Nat /\ x < q * interval + interval
    BY <1>1, DivBounds
  <2>2. NextMaintenance(t, interval) = next_maintenance_time + (q + 1) * interval
    BY <1>3 DEF NextMaintenance
  <2> HIDE DEF q
  <2>3. (q + 1) * interval = q * interval + interval /\ (q + 1) * interval \in Nat
    BY <2>1
  <2> QED BY <1>1, <2>1, <2>2, <2>3
<1> QED BY <1>2, <1>3

\* The rounding of budget_miners: the blocks it counts cover the time.
LEMMA BlocksCounted ==
  ASSUME NEW t \in Nat, NEW interval \in Nat \ {0}
  PROVE  /\ blocks_to_maint(t, interval) \in Nat
         /\ t <= blocks_to_maint(t, interval) * interval
<1> DEFINE x == t + interval - 1
           q == x \div interval
<1>1. x \in Nat
  OBVIOUS
<1>2. q \in Nat /\ x < q * interval + interval
  BY <1>1, DivBounds
<1>3. blocks_to_maint(t, interval) = q
  BY DEF blocks_to_maint
<1> HIDE DEF q
<1>4. q * interval \in Nat
  BY <1>2
<1> QED BY <1>2, <1>3, <1>4

\* the blocks that the maintenance in this slot, with parameters p, budgets for
Budgeted(slot, p) ==
  blocks_to_maint(NextMaintenance(get_slot_time(slot), p.maintenance_interval)
                    - get_slot_time(slot), p.block_interval)

-----------------------------------------------------------------------------
(* treasuries *)

\* a treasury, and what it says about its owner's share
Treasury == [supply : Int, fees : Nat, issued : Nat, budget : Nat, unbacked : Nat]

(***************************************************************************)
(* budget_miners issues within the limits, records what it issues, and     *)
(* gives the budget what it takes or marks as unbacked.                    *)
(***************************************************************************)
LEMMA MinersBudgeted ==
  ASSUME NEW t \in Treasury, NEW blocks \in Nat, TypeOK,
         t.supply <= MaxSupply, t.issued <= MaxShareMiner,
         maintenances = 0 => t.budget = 0
  PROVE  LET r == budget_miners(t, blocks)
         IN /\ r \in Treasury
            /\ t.supply <= r.supply /\ r.supply <= MaxSupply /\ r.issued <= MaxShareMiner
            /\ r.supply - t.supply = r.issued - t.issued
            /\ r.fees + r.budget - r.supply - r.unbacked
                 = t.fees + t.budget - t.supply - t.unbacked
            /\ t.unbacked <= r.unbacked
            /\ t.unbacked < r.unbacked => t.issued = MaxShareMiner \/ r.supply = MaxSupply
            /\ \/ maintenances = 0 \/ r.budget = PayPerBlock * blocks
               \/ r.issued = MaxShareMiner \/ r.supply = MaxSupply
<1> DEFINE need == PayPerBlock * blocks - t.budget
<1>1. need \in Int /\ need + t.budget \in Nat /\ need + t.budget = PayPerBlock * blocks
  BY BudgetAssumption DEF Treasury
<1>0. t.supply \in Int /\ t.fees \in Nat /\ t.issued \in Nat
  BY DEF Treasury
<1> HIDE DEF need
<1>2. CASE maintenances = 0
  BY <1>2 DEF budget_miners, Treasury
<1>3. CASE maintenances # 0 /\ t.fees >= need
  <2>1. budget_miners(t, blocks) = [t EXCEPT !.fees = @ - need, !.budget = @ + need]
    BY <1>3 DEF budget_miners, need
  <2>2. t.fees - need \in Nat /\ t.budget + need \in Nat
    BY <1>1, <1>3 DEF Treasury
  <2>3. budget_miners(t, blocks) \in Treasury
    BY <2>1, <2>2 DEF Treasury
  <2> QED BY <1>1, <2>1, <2>2, <2>3 DEF Treasury
<1>4. CASE maintenances # 0 /\ ~(t.fees >= need)
  <2>1. budget_miners(t, blocks) = MinersShort(t, need)
    BY <1>4 DEF budget_miners, need
  <2> DEFINE issue == Lesser(Lesser(need - t.fees, MaxShareMiner - t.issued),
                             MaxSupply - t.supply)
  <2>2. /\ issue \in Nat /\ issue <= MaxShareMiner - t.issued /\ issue <= MaxSupply - t.supply
        /\ \/ issue = need - t.fees
           \/ issue = MaxShareMiner - t.issued \/ issue = MaxSupply - t.supply
    BY <1>1, <1>4, BudgetAssumption DEF Lesser, Treasury
  <2>3. CASE issue > 0
    <3>1. MinersShort(t, need)
            = [t EXCEPT !.supply = @ + issue, !.issued = @ + issue, !.fees = 0,
                        !.budget = @ + issue + t.fees]
      BY <2>3 DEF MinersShort
    <3> HIDE DEF issue
    <3>2. /\ t.supply + issue \in Int /\ t.issued + issue \in Nat
          /\ t.budget + issue + t.fees \in Nat
      BY <2>2 DEF Treasury
    <3>3. MinersShort(t, need) \in Treasury
      <4> DEFINE supply == t.supply + issue
                 issued == t.issued + issue
                 budget == t.budget + issue + t.fees
      <4>1. MinersShort(t, need)
              = [supply |-> supply, fees |-> 0, issued |-> issued, budget |-> budget,
                 unbacked |-> t.unbacked]
        BY <3>1 DEF Treasury
      <4>2. supply \in Int /\ issued \in Nat /\ budget \in Nat
        BY <3>2
      <4> HIDE DEF supply, issued, budget
      <4> QED BY <4>1, <4>2 DEF Treasury
    <3>4. LET r == MinersShort(t, need)
          IN /\ r.supply = t.supply + issue /\ r.issued = t.issued + issue /\ r.fees = 0
             /\ r.budget = t.budget + issue + t.fees /\ r.unbacked = t.unbacked
      BY <3>1 DEF Treasury
    <3>5. /\ t.supply \in Int /\ t.fees \in Nat /\ t.issued \in Nat /\ t.budget \in Nat
          /\ t.unbacked \in Nat
      BY DEF Treasury
    <3> QED BY <1>1, <2>1, <2>2, <3>3, <3>4, <3>5, BudgetAssumption
  <2>4. CASE ~(issue > 0)
    <3>1. MinersShort(t, need) = [t EXCEPT !.budget = @ + issue + t.fees,
                                           !.unbacked = @ + t.fees]
      BY <2>4 DEF MinersShort
    <3> HIDE DEF issue
    <3>2. t.budget + issue + t.fees \in Nat /\ t.unbacked + t.fees \in Nat /\ issue = 0
      BY <2>2, <2>4 DEF Treasury
    <3>3. MinersShort(t, need) \in Treasury
      BY <3>1, <3>2 DEF Treasury
    <3>4. t.issued = MaxShareMiner \/ t.supply = MaxSupply
      <4>1. need - t.fees # 0
        BY <1>0, <1>1, <1>4
      <4>2. MaxShareMiner - t.issued = 0 \/ MaxSupply - t.supply = 0
        BY <2>2, <3>2, <4>1
      <4> QED BY <4>2, BudgetAssumption DEF Treasury
    <3>5. LET r == MinersShort(t, need)
          IN /\ r.supply = t.supply /\ r.issued = t.issued /\ r.fees = t.fees
             /\ r.budget = t.budget + t.fees /\ r.unbacked = t.unbacked + t.fees
      BY <3>1, <3>2 DEF Treasury
    <3> QED BY <2>1, <3>3, <3>4, <3>5 DEF Treasury
  <2> QED BY <2>3, <2>4
<1> QED BY <1>2, <1>3, <1>4 DEF TypeOK

(***************************************************************************)
(* pay_workers does the same with the workers' share, and hands out no     *)
(* more than was asked for.                                                *)
(***************************************************************************)
LEMMA WorkersPaid ==
  ASSUME NEW t \in Treasury, NEW amount \in Nat,
         t.supply <= MaxSupply, t.issued <= MaxShareBudget, t.budget = 0
  PROVE  LET r == pay_workers(t, amount)
         IN /\ r \in Treasury
            /\ t.supply <= r.supply /\ r.supply <= MaxSupply
            /\ t.issued <= r.issued /\ r.issued <= MaxShareBudget
            /\ r.supply - t.supply = r.issued - t.issued
            /\ r.fees + r.budget - r.supply - r.unbacked
                 = t.fees - t.supply - t.unbacked
            /\ t.unbacked <= r.unbacked
            /\ t.unbacked < r.unbacked => t.issued = MaxShareBudget \/ r.supply = MaxSupply
<1>1. CASE t.fees >= amount
  <2>1. pay_workers(t, amount) = [t EXCEPT !.fees = @ - amount, !.budget = amount]
    BY <1>1 DEF pay_workers
  <2>2. t.fees - amount \in Nat
    BY <1>1 DEF Treasury
  <2>3. pay_workers(t, amount) \in Treasury
    BY <2>1, <2>2 DEF Treasury
  <2> QED BY <2>1, <2>2, <2>3 DEF Treasury
<1>2. CASE ~(t.fees >= amount)
  <2>1. pay_workers(t, amount) = WorkersShort(t, amount)
    BY <1>2 DEF pay_workers
  <2> DEFINE issue == Lesser(Lesser(amount - t.fees, MaxShareBudget - t.issued),
                             MaxSupply - t.supply)
  <2>2. /\ issue \in Nat /\ issue <= MaxShareBudget - t.issued /\ issue <= MaxSupply - t.supply
        /\ \/ issue = amount - t.fees
           \/ issue = MaxShareBudget - t.issued \/ issue = MaxSupply - t.supply
    BY <1>2, BudgetAssumption DEF Lesser, Treasury
  <2>3. CASE issue > 0
    <3>1. WorkersShort(t, amount)
            = [t EXCEPT !.supply = @ + issue, !.issued = @ + issue, !.fees = 0,
                        !.budget = issue + t.fees]
      BY <2>3 DEF WorkersShort
    <3> HIDE DEF issue
    <3>2. /\ t.supply + issue \in Int /\ t.issued + issue \in Nat
          /\ issue + t.fees \in Nat
      BY <2>2 DEF Treasury
    <3>3. WorkersShort(t, amount) \in Treasury
      BY <3>1, <3>2 DEF Treasury
    <3> QED BY <2>1, <2>2, <3>1, <3>2, <3>3, BudgetAssumption DEF Treasury
  <2>4. CASE ~(issue > 0)
    <3>1. WorkersShort(t, amount) = [t EXCEPT !.budget = issue + t.fees,
                                              !.unbacked = @ + t.fees]
      BY <2>4 DEF WorkersShort
    <3> HIDE DEF issue
    <3>2. issue + t.fees \in Nat /\ t.unbacked + t.fees \in Nat /\ issue = 0
      BY <2>2, <2>4 DEF Treasury
    <3>3. WorkersShort(t, amount) \in Treasury
      BY <3>1, <3>2 DEF Treasury
    <3>4. t.issued = MaxShareBudget \/ t.supply = MaxSupply
      BY <1>2, <2>2, <3>2, BudgetAssumption DEF Treasury
    <3>5. LET r == WorkersShort(t, amount)
          IN /\ r.supply = t.supply /\ r.issued = t.issued /\ r.fees = t.fees
             /\ r.budget = t.fees /\ r.unbacked = t.unbacked + t.fees
      BY <3>1, <3>2 DEF Treasury
    <3> QED BY <2>1, <3>3, <3>4, <3>5 DEF Treasury
  <2> QED BY <2>3, <2>4
<1> QED BY <1>1, <1>2

-----------------------------------------------------------------------------
(* the invariant *)

BudgetInv ==
  /\ TypeOK /\ WithinLimits /\ IssuedIsAccounted /\ Conservation
  /\ maintenances = 0 => miners_budget = 0

\* What update_signing_witness pays is the pay of a block or what is left of
\* the budget.
LEMMA WitnessPay ==
  ASSUME TypeOK
  PROVE  /\ witness_pay \in Nat /\ witness_pay <= miners_budget /\ witness_pay <= PayPerBlock
         /\ witness_pay = PayPerBlock \/ witness_pay = miners_budget
BY BudgetAssumption DEF TypeOK, witness_pay, Lesser

(***************************************************************************)
(* A maintenance in numbers: what the two parts of the budget do to the    *)
(* supply, the shares, and those who hold the asset.                       *)
(***************************************************************************)
LEMMA MaintenanceEffect ==
  ASSUME BudgetInv,
         NEW slot \in Nat, NEW p \in Parameters,
         NEW cut \in Nat, NEW refund \in Nat, NEW keep \in Nat, NEW refunded \in 0..refund,
         Maintenance(slot, p, cut, refund, keep, refunded)
  PROVE  /\ TypeOK' /\ WithinLimits' /\ IssuedIsAccounted' /\ Conservation'
         /\ unbacked <= unbacked'
         /\ unbacked < unbacked' =>
              \/ miner_supply = MaxShareMiner \/ budget_supply = MaxShareBudget
              \/ current_supply' + (destroyed' - destroyed) = MaxSupply
         /\ \/ maintenances = 0 \/ miners_budget' = PayPerBlock * Budgeted(slot, p)
            \/ miner_supply' = MaxShareMiner \/ at_max'
         /\ maintenances' = maintenances + 1
<1> DEFINE blocks == Budgeted(slot, p)
           now == get_slot_time(slot)
           next == NextMaintenance(now, p.maintenance_interval)
           t == [supply |-> current_supply, fees |-> accumulated_fees + cut,
                 issued |-> miner_supply, budget |-> miners_budget - witness_pay,
                 unbacked |-> unbacked]
           miners == budget_miners(t, blocks)
           u == [supply |-> miners.supply, fees |-> platform, issued |-> budget_supply,
                 budget |-> 0, unbacked |-> miners.unbacked]
           amount == Lesser(refund + keep, MaxWorkerPay)
           workers == pay_workers(u, amount)
<1>1. /\ witness_pay \in Nat /\ witness_pay <= miners_budget
  BY WitnessPay DEF BudgetInv
<1>2. /\ current_supply \in Int /\ accumulated_fees \in Nat /\ miners_budget \in Nat
      /\ miner_supply \in Nat /\ budget_supply \in Nat /\ platform \in Nat /\ accounts \in Nat
      /\ issue_amount \in Nat /\ maintenances \in Nat /\ destroyed \in Nat /\ unbacked \in Nat
  BY DEF BudgetInv, TypeOK
<1>3. /\ blocks \in Nat /\ now \in Nat /\ next \in Nat
  <2>1. now \in Nat /\ now >= next_maintenance_time /\ TypeOK
    BY SlotTimes DEF Maintenance, BudgetInv
  <2>2. p.block_interval \in Nat \ {0} /\ p.maintenance_interval \in Nat \ {0}
    BY ParameterTypes
  <2> HIDE DEF now
  <2>3. next \in Nat /\ next > now
    BY <2>1, <2>2, NextAhead
  <2>4. next - now \in Nat /\ blocks = blocks_to_maint(next - now, p.block_interval)
    BY <2>1, <2>3 DEF Budgeted, now
  <2> HIDE DEF next, blocks
  <2> QED BY <2>1, <2>2, <2>3, <2>4, BlocksCounted
<1>0. amount \in Nat
  BY BudgetAssumption DEF Lesser
<1>4. t \in Treasury
  <2>1. accumulated_fees + cut \in Nat /\ miners_budget - witness_pay \in Nat
    BY <1>1, <1>2
  <2> QED BY <1>2, <2>1 DEF Treasury
<1>5. /\ miners \in Treasury
      /\ t.supply <= miners.supply /\ miners.supply <= MaxSupply
      /\ miners.issued <= MaxShareMiner
      /\ miners.supply - t.supply = miners.issued - t.issued
      /\ miners.fees + miners.budget - miners.supply - miners.unbacked
           = t.fees + t.budget - t.supply - t.unbacked
      /\ t.unbacked <= miners.unbacked
      /\ t.unbacked < miners.unbacked =>
           t.issued = MaxShareMiner \/ miners.supply = MaxSupply
      /\ \/ maintenances = 0 \/ miners.budget = PayPerBlock * blocks
         \/ miners.issued = MaxShareMiner \/ miners.supply = MaxSupply
  <2>1. /\ t.supply <= MaxSupply /\ t.issued <= MaxShareMiner
        /\ maintenances = 0 => t.budget = 0
    BY <1>1, <1>2 DEF BudgetInv, WithinLimits
  <2>2. TypeOK
    BY DEF BudgetInv
  <2> HIDE DEF t, blocks
  <2> QED BY <1>3, <1>4, <2>1, <2>2, MinersBudgeted
<1>6. /\ workers \in Treasury
      /\ u.supply <= workers.supply /\ workers.supply <= MaxSupply
      /\ u.issued <= workers.issued /\ workers.issued <= MaxShareBudget
      /\ workers.supply - u.supply = workers.issued - u.issued
      /\ workers.fees + workers.budget - workers.supply - workers.unbacked
           = u.fees - u.supply - u.unbacked
      /\ u.unbacked <= workers.unbacked
      /\ u.unbacked < workers.unbacked =>
           u.issued = MaxShareBudget \/ workers.supply = MaxSupply
  <2> HIDE DEF miners
  <2>1. u \in Treasury
    BY <1>2, <1>5 DEF Treasury
  <2>2. u.supply <= MaxSupply /\ u.issued <= MaxShareBudget /\ u.budget = 0
    BY <1>5 DEF BudgetInv, WithinLimits
  <2> HIDE DEF u, amount
  <2> QED BY <1>0, <2>1, <2>2, WorkersPaid
<1>7. /\ current_supply' = workers.supply - refunded
      /\ accumulated_fees' = miners.fees
      /\ miners_budget' = miners.budget
      /\ miner_supply' = miners.issued
      /\ budget_supply' = workers.issued
      /\ platform' = workers.fees
      /\ accounts' = accounts + witness_pay - cut + (workers.budget - refunded)
      /\ time' = now /\ next_maintenance_time' = next /\ params' = p
      /\ maintenance_flag' \in BOOLEAN /\ changed' \in BOOLEAN /\ at_max' \in BOOLEAN
      /\ maintenances' = maintenances + 1
      /\ destroyed' = destroyed + refunded
      /\ unbacked' = workers.unbacked
      /\ at_max' = (miners.supply = MaxSupply)
      /\ issue_amount' = issue_amount
      /\ cut <= accounts /\ refunded \in Nat /\ workers.budget - refunded \in Nat
  BY DEF Maintenance, Budgeted
<1>8. /\ t.supply = current_supply /\ t.fees = accumulated_fees + cut
      /\ t.issued = miner_supply /\ t.budget = miners_budget - witness_pay
      /\ t.unbacked = unbacked
      /\ u.supply = miners.supply /\ u.fees = platform /\ u.issued = budget_supply
      /\ u.unbacked = miners.unbacked
  OBVIOUS
<1> HIDE DEF t, miners, u, amount, workers, blocks, now, next
<1>9. /\ miners.supply \in Int /\ miners.fees \in Nat /\ miners.issued \in Nat
      /\ miners.budget \in Nat /\ miners.unbacked \in Nat
      /\ workers.supply \in Int /\ workers.fees \in Nat /\ workers.issued \in Nat
      /\ workers.budget \in Nat /\ workers.unbacked \in Nat
  BY <1>5, <1>6 DEF Treasury
<1>10. TypeOK'
  BY <1>1, <1>2, <1>3, <1>7, <1>9 DEF TypeOK
<1>11. WithinLimits'
  BY <1>2, <1>5, <1>6, <1>7, <1>8, <1>9, BudgetAssumption DEF BudgetInv, WithinLimits
<1>12. IssuedIsAccounted'
  BY <1>2, <1>5, <1>6, <1>7, <1>8, <1>9, BudgetAssumption DEF BudgetInv, IssuedIsAccounted
<1>13. Conservation'
  <2>1. accounts + platform + accumulated_fees + miners_budget = current_supply + unbacked
    BY DEF BudgetInv, Conservation, Holdings
  <2>2. miners.fees + miners.budget - miners.supply - miners.unbacked
          = (accumulated_fees + cut) + (miners_budget - witness_pay) - current_supply - unbacked
    BY <1>5, <1>8
  <2>3. workers.fees + workers.budget - workers.supply - workers.unbacked
          = platform - miners.supply - miners.unbacked
    BY <1>6, <1>8
  <2>4. (accounts + witness_pay - cut + (workers.budget - refunded))
          + workers.fees + miners.fees + miners.budget
          = (workers.supply - refunded) + workers.unbacked
    BY <1>1, <1>2, <1>7, <1>9, <2>1, <2>2, <2>3
  <2> QED BY <1>7, <2>4 DEF Conservation, Holdings
<1>14. /\ unbacked <= unbacked'
       /\ unbacked < unbacked' =>
            \/ miner_supply = MaxShareMiner \/ budget_supply = MaxShareBudget
            \/ current_supply' + (destroyed' - destroyed) = MaxSupply
  BY <1>2, <1>5, <1>6, <1>7, <1>8, <1>9, BudgetAssumption
<1>15. \/ maintenances = 0 \/ miners_budget' = PayPerBlock * blocks
       \/ miner_supply' = MaxShareMiner \/ at_max'
  BY <1>5, <1>7
<1> USE DEF blocks
<1> QED BY <1>7, <1>10, <1>11, <1>12, <1>13, <1>14, <1>15

(***************************************************************************)
(* Transfers, issues and blocks keep the invariant as well.                *)
(***************************************************************************)
LEMMA InvariantKept ==
  ASSUME BudgetInv, [Next]_vars
  PROVE  BudgetInv'
<1> USE DEF BudgetInv
<1>1. ASSUME NEW a \in Amounts, ReserveFees(a)
      PROVE  BudgetInv'
  BY <1>1, BudgetAssumption
     DEF ReserveFees, schedule, TypeOK, WithinLimits, IssuedIsAccounted, Conservation, Holdings
<1>2. ASSUME NEW a \in Amounts, BuyFromPlatform(a)
      PROVE  BudgetInv'
  BY <1>2, BudgetAssumption
     DEF BuyFromPlatform, schedule, TypeOK, WithinLimits, IssuedIsAccounted, Conservation, Holdings
<1>3. ASSUME NEW a \in Amounts, Reserve(a)
      PROVE  BudgetInv'
  BY <1>3, BudgetAssumption
     DEF Reserve, schedule, TypeOK, WithinLimits, IssuedIsAccounted, Conservation, Holdings
<1>4. ASSUME NEW a \in Amounts, Issue(a)
      PROVE  BudgetInv'
  BY <1>4, BudgetAssumption
     DEF Issue, schedule, TypeOK, WithinLimits, IssuedIsAccounted, Conservation, Holdings
<1>5. ASSUME NEW a \in Amounts, Revoke(a)
      PROVE  BudgetInv'
  BY <1>5, BudgetAssumption
     DEF Revoke, schedule, TypeOK, WithinLimits, IssuedIsAccounted, Conservation, Holdings
<1>6. ASSUME NEW slot \in 1..(MaxMissed + 1), Block(slot)
      PROVE  BudgetInv'
  <2>1. witness_pay \in Nat /\ witness_pay <= miners_budget
    BY WitnessPay
  <2>2. maintenances' = 0 => miners_budget' = 0
    BY <1>6, <2>1 DEF Block, TypeOK
  <2>3. TypeOK'
    <3>1. get_slot_time(slot) \in Nat
      BY SlotTimes
    <3>2. maintenance_flag' \in BOOLEAN /\ changed' \in BOOLEAN
      BY <1>6 DEF Block, TypeOK
    <3> QED BY <1>6, <2>1, <3>1, <3>2 DEF Block, TypeOK
  <2> QED BY <1>6, <2>1, <2>2, <2>3
            DEF Block, TypeOK, WithinLimits, IssuedIsAccounted, Conservation, Holdings
<1>7. ASSUME NEW slot \in 1..(MaxMissed + 1), NEW p \in Parameters,
             NEW cut \in Amounts \cup {0}, NEW refund \in Amounts \cup {0},
             NEW keep \in Amounts \cup {0}, NEW refunded \in 0..refund,
             Maintenance(slot, p, cut, refund, keep, refunded)
      PROVE  BudgetInv'
  <2>1. cut \in Nat /\ refund \in Nat /\ keep \in Nat
    BY BudgetAssumption
  <2>2. maintenances' # 0
    BY <1>7, <2>1, MaintenanceEffect DEF TypeOK
  <2> QED BY <1>7, <2>1, <2>2, MaintenanceEffect
<1>8. CASE UNCHANGED vars
  BY <1>8 DEF vars, schedule, TypeOK, WithinLimits, IssuedIsAccounted, Conservation, Holdings
<1> QED BY <1>1, <1>2, <1>3, <1>4, <1>5, <1>6, <1>7, <1>8 DEF Next

(***************************************************************************)
(* The invariant holds always.                                             *)
(***************************************************************************)
THEOREM BudgetInvariant == Spec => []BudgetInv
<1>1. Init => BudgetInv
  <2> SUFFICES ASSUME Init PROVE BudgetInv
    OBVIOUS
  <2>1. TypeOK
    <3>1. current_supply \in Int /\ accounts \in Nat /\ time \in Nat
      BY BudgetAssumption DEF Init
    <3>2. at_max \in BOOLEAN /\ maintenance_flag \in BOOLEAN /\ changed \in BOOLEAN
      BY DEF Init
    <3> QED BY <3>1, <3>2 DEF Init, TypeOK
  <2>2. WithinLimits
    BY BudgetAssumption DEF Init, WithinLimits
  <2>3. IssuedIsAccounted
    BY BudgetAssumption DEF Init, IssuedIsAccounted
  <2>4. Conservation
    BY BudgetAssumption DEF Init, Conservation, Holdings
  <2> QED BY <2>1, <2>2, <2>3, <2>4 DEF Init, BudgetInv
<1>2. BudgetInv /\ [Next]_vars => BudgetInv'
  BY InvariantKept
<1> QED BY <1>1, <1>2, PTL DEF Spec

(***************************************************************************)
(* The core asset is conserved: process_budget, the pay for blocks and the *)
(* operations on fees and supply neither lose nor make any of it, but for  *)
(* the fees that are handed out and kept.                                  *)
(***************************************************************************)
THEOREM CoreAssetConserved == Spec => []Conservation
<1>1. BudgetInv => Conservation
  BY DEF BudgetInv
<1> QED BY <1>1, BudgetInvariant, PTL

(***************************************************************************)
(* The supply and the shares of miners and workers stay within their       *)
(* limits, with gateways and workers drawing on the same share.            *)
(***************************************************************************)
THEOREM LimitsKept == Spec => []WithinLimits
<1>1. BudgetInv => WithinLimits
  BY DEF BudgetInv
<1> QED BY <1>1, BudgetInvariant, PTL

(***************************************************************************)
(* What was issued is on record as miner_supply or budget_supply.          *)
(***************************************************************************)
THEOREM IssuesAccounted == Spec => []IssuedIsAccounted
<1>1. BudgetInv => IssuedIsAccounted
  BY DEF BudgetInv
<1> QED BY <1>1, BudgetInvariant, PTL

(***************************************************************************)
(* Supply and shares are accounted for and within their limits.            *)
(***************************************************************************)
THEOREM SharesCorrect == Spec => []SharesKept
<1>1. WithinLimits /\ IssuedIsAccounted => SharesKept
  BY DEF SharesKept
<1> QED BY <1>1, LimitsKept, IssuesAccounted, PTL

(***************************************************************************)
(* Fees are handed out without being deducted only when a limit leaves     *)
(* nothing to issue.                                                       *)
(***************************************************************************)
THEOREM UnbackedAtLimit == Spec => UnbackedOnlyAtLimit
<1> DEFINE Step == unbacked' > unbacked =>
                     \/ miner_supply = MaxShareMiner \/ budget_supply = MaxShareBudget
                     \/ current_supply' + (destroyed' - destroyed) = MaxSupply
<1>1. ASSUME BudgetInv, [Next]_vars
      PROVE  [Step]_vars
  <2> SUFFICES ASSUME unbacked' > unbacked
               PROVE  Step
    OBVIOUS
  <2>1. unbacked \in Nat
    BY <1>1 DEF BudgetInv, TypeOK
  <2>2. ~(unbacked' = unbacked)
    BY <2>1
  <2>3. PICK slot \in 1..(MaxMissed + 1), p \in Parameters, cut \in Amounts \cup {0},
             refund \in Amounts \cup {0}, keep \in Amounts \cup {0} :
             \E refunded \in 0..refund : Maintenance(slot, p, cut, refund, keep, refunded)
    BY <1>1, <2>2 DEF Next, vars, ReserveFees, BuyFromPlatform, Reserve, Issue, Revoke, Block
  <2>4. PICK refunded \in 0..refund : Maintenance(slot, p, cut, refund, keep, refunded)
    BY <2>3
  <2>5. cut \in Nat /\ refund \in Nat /\ keep \in Nat
    BY BudgetAssumption
  <2>6. unbacked < unbacked' =>
              \/ miner_supply = MaxShareMiner \/ budget_supply = MaxShareBudget
              \/ current_supply' + (destroyed' - destroyed) = MaxSupply
    BY <1>1, <2>4, <2>5, MaintenanceEffect
  <2>7. TypeOK'
    BY <1>1, InvariantKept DEF BudgetInv
  <2>8. unbacked < unbacked'
    BY <2>1, <2>7 DEF TypeOK
  <2> QED BY <2>6, <2>8
<1> QED BY <1>1, BudgetInvariant, PTL DEF Spec, UnbackedOnlyAtLimit

-----------------------------------------------------------------------------
(* pay *)

\* what BudgetLasts says of k blocks
Paid(k) == Fits(k) => Covers(k) \/ (changed /\ params.skip = 0 /\ Covers(k - 1))

\* no limit has cut the last budget short
Uncut == maintenances > 1 /\ miner_supply # MaxShareMiner /\ ~at_max

Lasts == Uncut => \A k \in Nat \ {0} : Paid(k)

(***************************************************************************)
(* A block and the slots missed before it leave fewer blocks to pay, and   *)
(* take one pay at most.                                                   *)
(***************************************************************************)
LEMMA BlockLasts ==
  ASSUME BudgetInv, Lasts, NEW slot \in Nat \ {0}, Block(slot)
  PROVE  Lasts'
<1> SUFFICES ASSUME Uncut', NEW k \in Nat \ {0}, Fits(k)'
             PROVE  Covers(k)' \/ (changed' /\ params'.skip = 0 /\ Covers(k - 1)')
  BY DEF Lasts, Paid
<1> DEFINE i == params.block_interval
           q == time \div i
           n == q + slot + Skipped
<1>1. /\ TypeOK /\ TypeOK' /\ i \in Nat \ {0} /\ q \in Nat /\ Skipped \in Nat /\ n \in Nat
  <2>1. TypeOK /\ i \in Nat \ {0}
    BY ParameterTypes DEF BudgetInv, TypeOK
  <2>2. q \in Nat /\ Skipped \in Nat
    BY <2>1, SlotTimes
  <2>3. get_slot_time(slot) \in Nat /\ witness_pay \in Nat /\ witness_pay <= miners_budget
    BY <2>1, SlotTimes, WitnessPay
  <2>4. maintenance_flag' \in BOOLEAN /\ changed' \in BOOLEAN
    BY <2>1 DEF Block, TypeOK
  <2>5. TypeOK'
    BY <2>1, <2>3, <2>4 DEF Block, TypeOK
  <2> QED BY <2>1, <2>2, <2>5
<1>2. /\ time' = get_slot_time(slot) /\ get_slot_time(slot) < next_maintenance_time
      /\ miners_budget' = miners_budget - witness_pay /\ ~maintenance_flag'
      /\ params' = params /\ changed' = changed /\ maintenances' = maintenances
      /\ next_maintenance_time' = next_maintenance_time
      /\ miner_supply' = miner_supply /\ at_max' = at_max
  BY DEF Block
<1>3. maintenances # 0 /\ Uncut
  BY <1>1, <1>2 DEF Uncut, TypeOK
<1>4. get_slot_time(slot) = n * i
  BY <1>1, <1>3, SlotTimes
<1>5. time' \div i = n
  BY <1>1, <1>2, <1>4, DivMultiple
<1>6. ASSUME NEW m \in Nat
      PROVE  get_slot_time(m)' = get_slot_time(slot + m)
  <2>1. get_slot_time(m)' = n * i + (m + 0) * i
    BY <1>2, <1>3, <1>5 DEF get_slot_time
  <2>2. get_slot_time(slot + m) = (q + (slot + m) + Skipped) * i
    BY <1>1, <1>3, SlotTimes
  <2> HIDE DEF i, q
  <2>3. n * i + (m + 0) * i = (q + (slot + m) + Skipped) * i
    BY <1>1
  <2> QED BY <2>1, <2>2, <2>3
<1>7. Fits(slot + k)
  <2>1. CASE k = 1
    BY <1>2, <2>1 DEF Fits
  <2>2. CASE k # 1
    <3>1. get_slot_time(k - 1)' < next_maintenance_time
      BY <1>2, <2>2 DEF Fits
    <3>2. get_slot_time(k - 1)' = get_slot_time(slot + (k - 1))
      BY <1>6, <2>2
    <3>3. slot + (k - 1) = (slot + k) - 1
      OBVIOUS
    <3> QED BY <3>1, <3>2, <3>3 DEF Fits
  <2> QED BY <2>1, <2>2
<1>8. Covers(slot + k) \/ (changed /\ params.skip = 0 /\ Covers(slot + k - 1))
  <2>1. slot + k \in Nat \ {0}
    OBVIOUS
  <2> QED BY <1>3, <1>7, <2>1 DEF Lasts, Paid
<1>9. ASSUME NEW m \in Nat, Covers(slot + m)
      PROVE  Covers(m)'
  <2>1. m * PayPerBlock + PayPerBlock <= (slot + m) * PayPerBlock
    BY FewerBlocks, BudgetAssumption
  <2>2. (slot + m) * PayPerBlock <= miners_budget
    BY <1>9 DEF Covers
  <2>3. /\ witness_pay \in Nat /\ witness_pay <= PayPerBlock /\ miners_budget \in Nat
        /\ PayPerBlock \in Nat
    BY <1>1, WitnessPay, BudgetAssumption DEF TypeOK
  <2>4. m * PayPerBlock \in Nat /\ (slot + m) * PayPerBlock \in Nat
    BY <2>3
  <2> QED BY <1>2, <2>1, <2>2, <2>3, <2>4 DEF Covers
<1>10. slot + k - 1 = slot + (k - 1) /\ k - 1 \in Nat
  OBVIOUS
<1> QED BY <1>2, <1>8, <1>9, <1>10

(***************************************************************************)
(* The budget of a maintenance is enough.  Its block lies on the old grid  *)
(* of slots, the blocks to come on the new one, whose slot before the      *)
(* maintenance block may be nearly an interval earlier.  That costs a      *)
(* block that was not counted, unless slots are skipped or the grid is the *)
(* same.                                                                   *)
(***************************************************************************)
LEMMA MaintenanceLasts ==
  ASSUME BudgetInv, BudgetInv', NEW slot \in Nat, NEW p \in Parameters,
         NEW cut \in Nat, NEW refund \in Nat, NEW keep \in Nat, NEW refunded \in 0..refund,
         Maintenance(slot, p, cut, refund, keep, refunded)
  PROVE  Lasts'
<1> SUFFICES ASSUME Uncut', NEW k \in Nat \ {0}, Fits(k)'
             PROVE  Covers(k)' \/ (changed' /\ params'.skip = 0 /\ Covers(k - 1)')
  BY DEF Lasts, Paid
<1> DEFINE now == get_slot_time(slot)
           next == NextMaintenance(now, p.maintenance_interval)
           i == p.block_interval
           q == now \div i
           blocks == Budgeted(slot, p)
<1>1. TypeOK /\ TypeOK' /\ maintenances' = maintenances + 1 /\ maintenances \in Nat
  BY MaintenanceEffect DEF BudgetInv, TypeOK
<1>2. maintenances # 0
  BY <1>1 DEF Uncut
<1>3. /\ time' = now /\ next_maintenance_time' = next /\ params' = p /\ maintenance_flag'
      /\ changed' = (p.block_interval # params.block_interval)
      /\ now >= next_maintenance_time
  BY DEF Maintenance
<1>4. /\ i \in Nat \ {0} /\ p.maintenance_interval \in Nat \ {0} /\ p.skip \in Nat
      /\ now \in Nat
  BY <1>1, ParameterTypes, SlotTimes
<1>5. miners_budget' = PayPerBlock * blocks
  BY <1>2, MaintenanceEffect DEF Uncut
<1>6. next \in Nat /\ next > now
  BY <1>1, <1>3, <1>4, NextAhead
<1>7. blocks \in Nat /\ next - now <= blocks * i
  <2>1. next - now \in Nat /\ blocks = blocks_to_maint(next - now, i)
    BY <1>4, <1>6 DEF Budgeted
  <2> QED BY <1>4, <2>1, BlocksCounted
<1>8. q \in Nat /\ q * i <= now /\ now < q * i + i
  BY <1>4, DivBounds
<1>9. ~changed' => now = q * i
  <2> SUFFICES ASSUME i = params.block_interval
               PROVE  now = q * i
    BY <1>3
  <2>1. PICK n \in Nat : now = n * i
    <3> DEFINE n == time \div params.block_interval + slot + Skipped
    <3>1. n \in Nat /\ now = n * params.block_interval
      BY <1>1, <1>2, SlotTimes
    <3> HIDE DEF n, now
    <3> QED BY <3>1
  <2>2. q = n
    BY <1>4, <2>1, DivMultiple
  <2> QED BY <2>1, <2>2
<1>10. k = 1 \/ q * i + ((k - 1) + p.skip) * i < next
  <2>1. k = 1 \/ get_slot_time(k - 1)' < next
    BY <1>3 DEF Fits
  <2>2. get_slot_time(k - 1)' = q * i + ((k - 1) + p.skip) * i
    <3>1. maintenances' # 0
      BY <1>1
    <3> QED BY <1>3, <3>1 DEF get_slot_time
  <2> QED BY <2>1, <2>2
<1> HIDE DEF now, next, i, q, blocks
<1>11. blocks * i \in Nat /\ q * i \in Nat
  BY <1>4, <1>7, <1>8
<1>12. ASSUME NEW m \in Nat, m <= blocks
       PROVE  Covers(m)'
  <2>1. m * PayPerBlock <= blocks * PayPerBlock
    <3>1. CASE m = blocks
      BY <1>7, <3>1, BudgetAssumption
    <3>2. CASE m < blocks
      <4>1. m * PayPerBlock + PayPerBlock <= blocks * PayPerBlock
        BY <1>7, <3>2, FewerBlocks, BudgetAssumption
      <4>2. m * PayPerBlock \in Nat /\ blocks * PayPerBlock \in Nat /\ PayPerBlock \in Nat
        BY <1>7, BudgetAssumption
      <4> QED BY <4>1, <4>2
    <3> QED BY <1>7, <1>12, <3>1, <3>2
  <2>2. blocks * PayPerBlock = PayPerBlock * blocks
    BY <1>7, BudgetAssumption
  <2> QED BY <1>5, <2>1, <2>2 DEF Covers
<1>13. blocks # 0
  <2>1. next - now > 0
    BY <1>4, <1>6
  <2>2. blocks = 0 => blocks * i = 0
    BY <1>4
  <2> QED BY <1>4, <1>6, <1>7, <1>11, <2>1, <2>2
<1>14. CASE k = 1
  BY <1>7, <1>12, <1>13, <1>14
<1>15. CASE k # 1
  <2> DEFINE m == (k - 1) + p.skip
  <2>1. m \in Nat /\ m * i \in Nat /\ q * i + m * i < next
    BY <1>4, <1>10, <1>15
  <2>2. m < blocks + 1
    <3> SUFFICES ASSUME blocks < m PROVE FALSE
      BY <1>7, <2>1
    <3>1. blocks * i + i <= m * i
      BY <1>4, <1>7, <2>1, FewerBlocks
    <3> QED BY <1>4, <1>6, <1>7, <1>8, <1>11, <2>1, <3>1
  <2>3. ASSUME now = q * i
        PROVE  m < blocks
    <3> SUFFICES ASSUME blocks <= m PROVE FALSE
      BY <1>7, <2>1
    <3>1. m = blocks
      BY <1>7, <2>1, <2>2
    <3> QED BY <1>4, <1>6, <1>7, <1>11, <2>1, <2>3, <3>1
  <2>4. k - 1 \in Nat /\ k - 1 <= blocks
    BY <1>4, <1>7, <2>2
  <2>5. CASE now = q * i \/ p.skip # 0
    <3>1. k <= blocks
      BY <1>4, <1>7, <2>2, <2>3, <2>5
    <3> QED BY <1>12, <3>1
  <2>6. CASE ~(now = q * i) /\ p.skip = 0
    BY <1>3, <1>9, <1>12, <2>4, <2>6
  <2> QED BY <2>5, <2>6
<1> QED BY <1>14, <1>15

(***************************************************************************)
(* A witness works without pay only in the first interval, because a limit *)
(* cut the budget short, or in the last block of an interval whose         *)
(* maintenance changed the block interval without skipping slots: but for  *)
(* these the budget of budget_miners, rounded to whole blocks, lasts for   *)
(* every block until the next maintenance, whatever slots are missed.      *)
(***************************************************************************)
THEOREM PayLasts == Spec => []BudgetLasts
<1>1. Init => Lasts
  BY DEF Init, Lasts, Uncut
<1>2. ASSUME BudgetInv, Lasts, [Next]_vars
      PROVE  Lasts'
  <2>1. BudgetInv'
    BY <1>2, InvariantKept
  <2>2. CASE UNCHANGED <<miners_budget, miner_supply, schedule, at_max>>
    BY <1>2, <2>2 DEF schedule, Lasts, Uncut, Paid, Fits, Covers, get_slot_time
  <2>3. ASSUME NEW slot \in 1..(MaxMissed + 1), Block(slot)
        PROVE  Lasts'
    <3>1. slot \in Nat \ {0}
      BY BudgetAssumption
    <3> QED BY <1>2, <2>3, <3>1, BlockLasts
  <2>4. ASSUME NEW slot \in 1..(MaxMissed + 1), NEW p \in Parameters,
               NEW cut \in Amounts \cup {0}, NEW refund \in Amounts \cup {0},
               NEW keep \in Amounts \cup {0}, NEW refunded \in 0..refund,
               Maintenance(slot, p, cut, refund, keep, refunded)
        PROVE  Lasts'
    <3>1. cut \in Nat /\ refund \in Nat /\ keep \in Nat /\ slot \in Nat
      BY BudgetAssumption
    <3> QED BY <1>2, <2>1, <2>4, <3>1, MaintenanceLasts
  <2>5. ASSUME NEW a \in Amounts,
               ReserveFees(a) \/ BuyFromPlatform(a) \/ Reserve(a) \/ Issue(a) \/ Revoke(a)
        PROVE  UNCHANGED <<miners_budget, miner_supply, schedule, at_max>>
    BY <2>5 DEF ReserveFees, BuyFromPlatform, Reserve, Issue, Revoke
  <2>6. CASE UNCHANGED vars
    BY <2>2, <2>6 DEF vars
  <2> QED BY <1>2, <2>2, <2>3, <2>4, <2>5, <2>6 DEF Next
<1>3. BudgetInv /\ Lasts /\ [Next]_vars => Lasts'
  BY <1>2
<1>4. BudgetInv /\ Lasts => BudgetLasts
  <2> SUFFICES ASSUME BudgetInv, Lasts, Uncut,
                      NEW k \in 1..(next_maintenance_time - time + 1)
               PROVE  Paid(k)
    BY DEF BudgetLasts, Uncut, Paid
  <2>1. k \in Nat \ {0}
    OBVIOUS
  <2> QED BY <2>1 DEF Lasts
<1> QED BY <1>1, <1>3, <1>4, BudgetInvariant, PTL DEF Spec
=============================================================================
