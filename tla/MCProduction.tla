---------------------------- MODULE MCProduction ----------------------------
(***************************************************************************)
(* Six witnesses on four nodes, four of them elected, for TLC.             *)
(***************************************************************************)
EXTENDS Production

MCWitnesses == <<"a", "b", "c", "d", "e", "f">>

\* the order of a round depends on the time
MCShuffle(list, t) == [i \in 1..Len(list) |-> list[((i + t) % Len(list)) + 1]]

VotesFor(ws) == [w \in ToSet(MCWitnesses) |-> IF w \in ws THEN 1 ELSE 0]

Steady == [block_interval |-> 1, maintenance_interval |-> 6, skip |-> 1, seats |-> 4,
           votes |-> VotesFor({"a", "b", "c", "d"})]

\* half of the witnesses change at each of two elections
Elections ==
  [runs |-> <<{"a", "e"}, {"b", "f"}, {"c"}, {"d"}>>, genesis |-> 10,
   plan |-> <<Steady,
              [Steady EXCEPT !.votes = VotesFor({"a", "b", "e", "f"})],
              [Steady EXCEPT !.votes = VotesFor({"c", "d", "e", "f"})]>>,
   permanent |-> {"a", "b", "c"}, required |-> 0, max_undo |-> 14, max_clock |-> 34,
   faults |-> {{w} : w \in ToSet(MCWitnesses)}, max_outages |-> 2, max_restarts |-> 0]

\* intervals and the number of seats change, and one node is restarted
Parameters ==
  [Elections EXCEPT
     !.plan = <<[Steady EXCEPT !.block_interval = 2],
                [Steady EXCEPT !.block_interval = 2],
                [Steady EXCEPT !.block_interval = 3, !.maintenance_interval = 9,
                               !.skip = 0, !.seats = 3]>>,
     !.max_clock = 36, !.max_outages = 1, !.max_restarts = 1]

\* the chain may stand still over several maintenance times
Outage ==
  [Elections EXCEPT
     !.runs = <<{"a", "b", "c"}, {"d", "e", "f"}>>,
     !.plan = <<Steady>>, !.required = 25,
     !.faults = {{"a", "b", "c", "d"}, {"c", "d"}},
     !.max_undo = 16, !.max_clock = 29]

\* both nodes are restarted, also one after the other, and may wait for each other
Waiting ==
  [Outage EXCEPT
     !.required = 0, !.plan = <<[Steady EXCEPT !.block_interval = 2, !.maintenance_interval = 8]>>,
     !.max_clock = 25, !.max_outages = 1, !.max_restarts = 2]

MCSettings == {Elections, Parameters, Outage, Waiting}
=============================================================================
