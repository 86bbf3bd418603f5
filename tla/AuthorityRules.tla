--------------------------- MODULE AuthorityRules ---------------------------
(***************************************************************************)
(* The checks of Authority for growing sets of signatures and approvals,   *)
(* against a definition of what they should mean.                          *)
(***************************************************************************)
EXTENDS Authority

CONSTANTS
  Graphs,        \* the authorities of all accounts, one function per case
  Requirements   \* what the operations of a transaction require

ASSUME RulesAssumption ==
  /\ Graphs \subseteq [AuthAccounts -> Authorities]
  /\ Requirements \subseteq [active : SUBSET AuthAccounts, owner : SUBSET AuthAccounts]

VARIABLES graph, req, sigs, approvals

authorityVars == <<graph, req, sigs, approvals>>

AuthorityInit ==
  /\ graph \in Graphs
  /\ req \in Requirements
  /\ sigs = {} /\ approvals = {}

Sign(k) ==
  /\ k \notin sigs
  /\ sigs' = sigs \cup {k}
  /\ UNCHANGED <<graph, req, approvals>>

Approve(a) ==
  /\ a \notin approvals
  /\ approvals' = approvals \cup {a}
  /\ UNCHANGED <<graph, req, sigs>>

AuthorityNext ==
  \/ \E k \in AuthKeys : Sign(k)
  \/ \E a \in AuthAccounts : Approve(a)

AuthoritySpec == AuthorityInit /\ [][AuthorityNext]_authorityVars

-----------------------------------------------------------------------------
(***************************************************************************)
(* Reference: an account is satisfied when its keys and its nested         *)
(* accounts, satisfied themselves or approved, reach the threshold.        *)
(***************************************************************************)
Total(weights, order, S) ==
  ForEach(order,
          [x \in DOMAIN weights |->
            [n \in Nat |-> n + IF x \in S THEN weights[x] ELSE 0]],
          0)

Weight(au, keys, accounts) ==
  Total(au.keys, KeyOrder, keys) + Total(au.accounts, AccountOrder, accounts)

Suffices(a, accounts) == Weight(graph[a], sigs, accounts) >= graph[a].threshold

\* approved, or satisfied with fewer than n levels of nested accounts
Within[n \in 0..MaxRecursion + 1] ==
  IF n = 0 THEN approvals
  ELSE approvals \cup {a \in AuthAccounts : Suffices(a, Within[n - 1])}

\* satisfied at whatever depth: the least set that holds the approvals and
\* each account which it suffices for
Closed(S) == approvals \subseteq S /\ \A a \in AuthAccounts : Suffices(a, S) => a \in S

Justified == {a \in AuthAccounts : \A S \in SUBSET AuthAccounts : Closed(S) => a \in S}

Verdict == VerifyAuthority(graph, graph, req, sigs, approvals, {})

Required == req.active \cup req.owner

\* check_authority accepts nothing that signatures and approvals do not
\* justify, at whatever depth, although it keeps what earlier and failed
\* branches of the recursion have marked as approved.
CheckSound == ~Verdict.missing => Required \subseteq Justified

\* It accepts whatever can be justified within max_recursion levels, in
\* whatever order the accounts are visited.  An owner authority is checked
\* itself, so the account's own approval does not count for it.
CheckComplete ==
  /\ req.active \subseteq Within[MaxRecursion + 1]
  /\ \A a \in req.owner : Suffices(a, Within[MaxRecursion])
  => ~Verdict.missing

\* check_authority answers exactly what signatures and approvals justify.
CheckExact == CheckSound /\ CheckComplete

Verifies(keys) == Verified(VerifyAuthority(graph, graph, req, keys, {}, {}))

\* the available keys are sufficient, if not all needed
Sufficient == ~VerifyAuthority(graph, graph, req, sigs, {}, {}).missing

\* Transactions that require only active or only owner authorities: whatever
\* the nesting and the depth limit, the keys that get_required_signatures
\* and minimize_required_signatures choose among available ones are accepted
\* by verify_authority, which follows other branches with fewer keys.
MinimalAccepted ==
  (req.active = {} \/ req.owner = {}) /\ Sufficient =>
    /\ Verifies(RequiredSignatures(graph, graph, req, sigs))
    /\ Verifies(MinimalSignatures(graph, graph, req, sigs).keys)

=============================================================================
