------------------------------ MODULE MCChain ------------------------------
(***************************************************************************)
(* Block trees and transactions for model checking ChainDatabase.          *)
(*                                                                         *)
(*     A1 --- A2 --- A3 --- A4 - A5 - A6   A2: t1                          *)
(*       \      \                          B2: t2   B3: t1                 *)
(*        \       X3 --- X4                X4: t1 again                    *)
(*         B2 --- B3 --- B4                                                *)
(*                                                                         *)
(* t1 expires with the timestamp of X3, so that it is still too early for  *)
(* X4 to repeat it; t2 expires as late as A1 admits, after all blocks but  *)
(* A6; t3 is too far in the future for A1.  t2 cannot be applied after t1. *)
(* A6 makes the fork database trim A1.  No branch that leaves below a      *)
(* block that is irreversible on another one grows longer than it: that    *)
(* would take more than 30% of the witnesses to work on both.              *)
(***************************************************************************)
EXTENDS ChainDatabase

ValidTree == {"A1", "A2", "A3", "A4", "B2", "B3", "B4"}
FullTree == ValidTree \cup {"X3", "X4", "A5", "A6"}
TreeWithInvalid == {"A1", "A2", "X3", "X4", "B2", "B3"}
ShortTree == {"A1", "A2", "A3", "B2", "B3"}

AllPrev == [A1 |-> NoBlock, A2 |-> "A1", A3 |-> "A2", A4 |-> "A3", A5 |-> "A4", A6 |-> "A5",
            B2 |-> "A1", B3 |-> "B2", B4 |-> "B3",
            X3 |-> "A2", X4 |-> "X3"]
AllSlots == [A1 |-> 1, A2 |-> 2, A3 |-> 4, A4 |-> 6, A5 |-> 8, A6 |-> 10,
             B2 |-> 3, B3 |-> 5, B4 |-> 7,
             X3 |-> 4, X4 |-> 6]
AllWitnesses == [A1 |-> "w1", A2 |-> "w2", A3 |-> "w3", A4 |-> "w1", A5 |-> "w2", A6 |-> "w3",
                 B2 |-> "w3", B3 |-> "w2", B4 |-> "w3",
                 X3 |-> "w3", X4 |-> "w1"]
AllTxs == [A1 |-> <<>>, A2 |-> <<"t1">>, A3 |-> <<>>, A4 |-> <<>>, A5 |-> <<>>, A6 |-> <<>>,
           B2 |-> <<"t2">>, B3 |-> <<"t1">>, B4 |-> <<>>,
           X3 |-> <<>>, X4 |-> <<"t1">>]

MCPrev == [b \in Blocks |-> AllPrev[b]]
MCSlot == [b \in Blocks |-> AllSlots[b]]
MCWitnessOf == [b \in Blocks |-> AllWitnesses[b]]
MCTxsOf == [b \in Blocks |-> AllTxs[b]]
AllExpire == [t1 |-> 4, t2 |-> 9, t3 |-> 10]
MCExpires == [t \in Txs |-> AllExpire[t]]
MCConflicts == [t \in Txs |-> IF t = "t2" THEN {"t1"} ELSE {}]
=============================================================================
