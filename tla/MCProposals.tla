---------------------------- MODULE MCProposals -----------------------------
(***************************************************************************)
(* The committee c is controlled by its member b and the account a         *)
(* together, or, after the change, by b alone; a has a key.  pay requires  *)
(* a, govern the committee.                                                *)
(***************************************************************************)
EXTENDS Proposals

MCAccounts == <<"a", "b", "c">>
MCKeys == <<"k", "l">>
Nobody == [x \in Range(MCAccounts) |-> 0]
NoKey == [x \in Range(MCKeys) |-> 0]
Of(t, accounts) ==
  [threshold |-> t, keys |-> NoKey,
   accounts |-> [x \in Range(MCAccounts) |-> IF x \in accounts THEN 1 ELSE 0]]

Keyed == [threshold |-> 1, keys |-> [NoKey EXCEPT !["k"] = 1], accounts |-> Nobody]
MCAuthority0 == [c |-> Of(2, {"b", "a"}), b |-> Of(1, {"c"}), a |-> Keyed]
MCAuthority1 == [c |-> Of(1, {"b"}), b |-> Of(1, {"c"}), a |-> Keyed]

MCRequires ==
  [pay |-> [active |-> {"a"}, owner |-> {}],
   govern |-> [active |-> {"c"}, owner |-> {}]]
MCTxs == {"pay", "govern"}
MCPay == {"pay"}
MCGovern == {"govern"}
MCLocked == {"c"}
MCPayers == {"b", "a"}

NoChange == [active_add |-> {}, active_remove |-> {}, owner_add |-> {},
             owner_remove |-> {}, keys_add |-> {}, keys_remove |-> {}]
Add(a) == [NoChange EXCEPT !.active_add = {a}]
Remove1(a) == [NoChange EXCEPT !.active_remove = {a}]

\* one approval is added or removed at a time
MCAllUpdates ==
  UNION {{Add(a), Remove1(a), [NoChange EXCEPT !.owner_add = {a}],
          [NoChange EXCEPT !.owner_remove = {a}]} : a \in MCPayers}
  \cup {[NoChange EXCEPT !.keys_add = {"k"}], [NoChange EXCEPT !.keys_remove = {"k"}]}

\* or one is replaced by another
MCFewUpdates == {Add("a"), Remove1("b"), [Add("b") EXCEPT !.active_remove = {"a"}]}

\* one proposal, every change of approvals
Single == [time |-> 3, proposals |-> 1, pops |-> 0, updates |-> MCAllUpdates,
           failing |-> MCTxs]
\* two proposals that concern the same accounts
Pair == [time |-> 2, proposals |-> 2, pops |-> 0, updates |-> MCFewUpdates,
         failing |-> {}]
\* one proposal, and a block is undone
Undone == [time |-> 2, proposals |-> 1, pops |-> 1, updates |-> MCFewUpdates,
           failing |-> MCTxs]
MCSettings == {Single, Pair, Undone}
=============================================================================
