------------------------------ MODULE MCBudget ------------------------------
(***************************************************************************)
(* Amounts for TLC, small enough for every limit to be reached, and        *)
(* parameters under which maintenance times are not multiples of the block *)
(* interval, with and without skipped slots.                               *)
(***************************************************************************)
EXTENDS Budget

MCAmounts == {1}
MCParameters ==
  {[block_interval |-> 2, maintenance_interval |-> 4, skip |-> 0],
   [block_interval |-> 3, maintenance_interval |-> 6, skip |-> 0],
   [block_interval |-> 3, maintenance_interval |-> 6, skip |-> 1]}
=============================================================================
