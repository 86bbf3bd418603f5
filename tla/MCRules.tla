------------------------------ MODULE MCRules -------------------------------
(***************************************************************************)
(* Authorities, over three accounts and two keys with every graph of       *)
(* possible authorities; synopses, over chains of up to ten blocks that    *)
(* fork after the third or the seventh; and proposals, which are approved  *)
(* by the same rules of authority.  A behaviour is about one of the three; *)
(* the others stay as they began.                                          *)
(***************************************************************************)
EXTENDS MCProposals, AuthorityRules, SynopsisRules

VARIABLE subject

KeyOf == [a |-> "k", b |-> "l", c |-> "l"]

Possible(a) ==
  {au \in [threshold : 1..2, keys : [AuthKeys -> 0..1], accounts : [AuthAccounts -> 0..1]] :
     /\ au.accounts[a] = 0
     /\ \A k \in AuthKeys : au.keys[k] = 1 => k = KeyOf[a]
     /\ Weight(au, AuthKeys, AuthAccounts) >= au.threshold}

MCGraphs ==
  {[a |-> x, b |-> y, c |-> z] :
     x \in Possible("a"), y \in Possible("b"), z \in Possible("c")}

MCRequirements ==
  {[active |-> {"a", "b"}, owner |-> {}], [active |-> {"a"}, owner |-> {"c"}],
   [active |-> {}, owner |-> {"c"}]}

MCPath(fork, name) == [n \in 1..10 |-> IF n <= fork THEN <<n, "m">> ELSE <<n, name>>]
MCPaths == {MCPath(10, "m"), MCPath(3, "e"), MCPath(7, "l")}

\* nothing is required of anyone, while the behaviour is about something else
ByKey(a) ==
  [threshold |-> 1, keys |-> [k \in AuthKeys |-> IF k = KeyOf[a] THEN 1 ELSE 0],
   accounts |-> [b \in AuthAccounts |-> 0]]

AuthorityIdle ==
  /\ graph = [a \in AuthAccounts |-> ByKey(a)]
  /\ req = [active |-> {}, owner |-> {}]
  /\ sigs = {} /\ approvals = {}

ProposalsIdle == Init /\ setting = Undone

rulesVars == <<authorityVars, synopsisVars, vars, subject>>

RulesInit ==
  \/ subject = "authority" /\ AuthorityInit /\ SynopsisInit /\ ProposalsIdle
  \/ subject = "synopsis" /\ AuthorityIdle /\ SynopsisInit /\ ProposalsIdle
  \/ subject = "proposals" /\ AuthorityIdle /\ SynopsisInit /\ Init

RulesNext ==
  \/ subject = "authority" /\ AuthorityNext /\ UNCHANGED <<synopsisVars, vars, subject>>
  \/ subject = "synopsis" /\ SynopsisNext /\ UNCHANGED <<authorityVars, vars, subject>>
  \/ subject = "proposals" /\ Next /\ UNCHANGED <<authorityVars, synopsisVars, subject>>

RulesSpec ==
  RulesInit /\ [][RulesNext]_rulesVars /\ WF_vars(subject = "proposals" /\ Advance)
=============================================================================
