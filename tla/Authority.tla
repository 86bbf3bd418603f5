----------------------------- MODULE Authority ------------------------------
(***************************************************************************)
(* Which approvals and signatures satisfy an account's authority           *)
(* (chain/protocol/transaction.cpp: sign_state, verify_authority,          *)
(* get_required_signatures, minimize_required_signatures).                 *)
(*                                                                         *)
(* An authority is a threshold, keys and accounts with a weight each.      *)
(* Nested accounts are followed to max_recursion levels.  sign_state       *)
(* remembers in approved_by the nested accounts that were satisfied and in *)
(* provided_signatures which keys were used; both outlive the call that    *)
(* found them and influence the ones after it.  Containers are iterated in *)
(* the order of account ids and keys: AccountOrder and KeyOrder.           *)
(* Addresses are another name for keys and are left out, and so are        *)
(* authorities of an operation that belong to no account (other).          *)
(***************************************************************************)
EXTENDS Naturals, Sequences, SequencesExt

CONSTANTS
  AccountOrder,   \* the accounts, lowest id first
  KeyOrder,       \* the public keys in their order
  MaxRecursion    \* max_authority_depth

AuthAccounts == Range(AccountOrder)
AuthKeys == Range(KeyOrder)

ASSUME AuthorityAssumption ==
  /\ AccountOrder \in Seq(AuthAccounts) /\ IsInjective(AccountOrder)
  /\ KeyOrder \in Seq(AuthKeys) /\ IsInjective(KeyOrder)
  /\ MaxRecursion \in Nat

\* weight 0 stands for "not listed"
Authorities == [threshold : Nat, keys : [AuthKeys -> Nat],
                accounts : [AuthAccounts -> Nat]]

\* A loop: body[x] is a function from the state before x to the state after it.
ForEach(order, body, start) ==
  LET after[i \in 0..Len(order)] ==
        IF i = 0 THEN start ELSE body[order[i]][after[i - 1]]
  IN after[Len(order)]

-----------------------------------------------------------------------------
(***************************************************************************)
(* sign_state: keys is provided_signatures and available_keys together,    *)
(* used the ones whose flag is set.                                        *)
(***************************************************************************)
SignStates ==
  [keys : SUBSET AuthKeys, used : SUBSET AuthKeys, approved : SUBSET AuthAccounts]

SignState(sigs, available, approvals) ==
  [keys |-> sigs \cup available, used |-> {}, approved |-> approvals]

\* the answer so far and the weight counted
Tallies == [ok : BOOLEAN, weight : Nat, s : SignStates]

Count(r, weight, threshold) ==
  [r EXCEPT !.weight = @ + weight, !.ok = @ \/ r.weight + weight >= threshold]

\* Mutant: a key counts although nobody signed with it.
UseUnsignedKey(r, au, k) ==
  IF r.ok \/ au.keys[k] = 0 THEN r
  ELSE [Count(r, au.keys[k], au.threshold) EXCEPT !.s.used = @ \cup ({k} \cap r.s.keys)]

UseKey(r, au, k) ==
  IF r.ok \/ au.keys[k] = 0 \/ k \notin r.s.keys THEN r
  ELSE [Count(r, au.keys[k], au.threshold) EXCEPT !.s.used = @ \cup {k}]

\* the loop over key_auths
UseKeys(au, start) ==
  ForEach(KeyOrder, [k \in AuthKeys |-> [r \in Tallies |-> UseKey(r, au, k)]], start)

UseAccount(r, au, a, left, nested) ==
  IF r.ok \/ au.accounts[a] = 0 THEN r
  ELSE IF a \in r.s.approved THEN Count(r, au.accounts[a], au.threshold)
  ELSE IF left = 0 THEN r
  ELSE LET n == nested[r.s] IN
    IF n.ok
    THEN Count([r EXCEPT !.s = [n.s EXCEPT !.approved = @ \cup {a}]],
               au.accounts[a], au.threshold)
    ELSE [r EXCEPT !.s = n.s]

\* the loop over account_auths; nested[a] checks the authority of a one level down
UseAccounts(au, left, nested, start) ==
  ForEach(AccountOrder,
          [a \in AuthAccounts |->
            [r \in Tallies |-> UseAccount(r, au, a, left, nested[a])]],
          start)

\* what check_authority returns and leaves
Answers == [ok : BOOLEAN, s : SignStates]

Reached(r, threshold) == [ok |-> r.ok \/ r.weight >= threshold, s |-> r.s]

\* left is max_recursion - depth
CheckLevel(au, left, nested, s) ==
  [r \in Tallies |-> Reached(r, au.threshold)]
    [UseAccounts(au, left, nested, UseKeys(au, [ok |-> FALSE, weight |-> 0, s |-> s]))]

\* the answers for every account and sign state at a level with left below it
CheckBelow(active, left, nested) ==
  [a \in AuthAccounts |-> [s \in SignStates |-> CheckLevel(active[a], left, nested, s)]]

\* check_authority(au) in sign state s
CheckAuthority(active, au, s) ==
  LET nested[left \in 0..MaxRecursion] ==
        IF left = 0 THEN <<>> ELSE CheckBelow(active, left - 1, nested[left - 1])
  IN CheckLevel(au, MaxRecursion, nested[MaxRecursion], s)

CheckAccount(active, a, s) ==
  IF a \in s.approved THEN [ok |-> TRUE, s |-> s]
  ELSE CheckAuthority(active, active[a], s)

(***************************************************************************)
(* verify_authority.  What it throws is collected in two flags: missing    *)
(* (an active or owner authority) and irrelevant (tx_irrelevant_sig).      *)
(* Proposals, the one caller that passes approvals, pass allow_committee   *)
(* too; for the other callers no account here is the committee, which only *)
(* a proposed transaction may require.                                     *)
(***************************************************************************)
OrByOwner(active, owner, c, a) ==
  IF c.ok THEN c ELSE CheckAuthority(active, owner[a], c.s)

CheckActive(active, owner, required, r, a) ==
  IF r.ok /\ a \in required
  THEN OrByOwner(active, owner, CheckAccount(active, a, r.s), a) ELSE r

CheckOwner(active, owner, required, r, a) ==
  IF r.ok /\ a \in required THEN CheckAuthority(active, owner[a], r.s) ELSE r

CheckActives(active, owner, required, start) ==
  ForEach(AccountOrder,
          [a \in AuthAccounts |->
            [r \in Answers |-> CheckActive(active, owner, required, r, a)]],
          start)

CheckOwners(active, owner, required, start) ==
  ForEach(AccountOrder,
          [a \in AuthAccounts |->
            [r \in Answers |-> CheckOwner(active, owner, required, r, a)]],
          start)

Outcome(sigs, r) == [missing |-> ~r.ok, irrelevant |-> r.ok /\ sigs # r.s.used]

VerifyAuthority(active, owner, req, sigs, active_approvals, owner_approvals) ==
  LET s == SignState(sigs, {}, active_approvals \cup owner_approvals)
  IN Outcome(sigs, CheckOwners(active, owner, req.owner \ owner_approvals,
                               CheckActives(active, owner, req.active,
                                            [ok |-> TRUE, s |-> s])))

Verified(v) == ~v.missing /\ ~v.irrelevant

(***************************************************************************)
(* get_required_signatures and minimize_required_signatures: which of the  *)
(* available keys must sign.  The transaction has no signature yet.        *)
(***************************************************************************)
\* Unlike verify_authority, it visits the owners first and goes on when one fails.
RequireOwners(active, owner, required, start) ==
  ForEach(AccountOrder,
          [a \in AuthAccounts |->
            [s \in SignStates |-> CheckOwner(active, owner, required, [ok |-> TRUE, s |-> s], a).s]],
          start)

RequireActives(active, owner, required, start) ==
  ForEach(AccountOrder,
          [a \in AuthAccounts |->
            [s \in SignStates |-> CheckActive(active, owner, required, [ok |-> TRUE, s |-> s], a).s]],
          start)

RequiredSignatures(active, owner, req, available) ==
  RequireActives(active, owner, req.active \ req.owner,
                 RequireOwners(active, owner, req.owner, SignState({}, available, {}))).used

\* Mutant: a key is dropped whatever verify_authority says of the rest.
DropAnyKey(active, owner, req, keys, k) == keys \ {k}

DropKey(active, owner, req, keys, k) ==
  LET v == VerifyAuthority(active, owner, req, keys \ {k}, {}, {})
  IN IF k \in keys /\ Verified(v) THEN keys \ {k} ELSE keys

\* tx_irrelevant_sig is not among the exceptions the loop catches.
MinimizeThrows(active, owner, req, keys, k) ==
  /\ k \in keys
  /\ VerifyAuthority(active, owner, req, keys \ {k}, {}, {}).irrelevant

MinimizeKey(active, owner, req, r, k) ==
  [throws |-> r.throws \/ MinimizeThrows(active, owner, req, r.keys, k),
   keys |-> DropKey(active, owner, req, r.keys, k)]

MinimalSignatures(active, owner, req, available) ==
  ForEach(KeyOrder,
          [k \in AuthKeys |->
            [r \in [throws : BOOLEAN, keys : SUBSET AuthKeys] |->
              MinimizeKey(active, owner, req, r, k)]],
          [throws |-> FALSE, keys |-> RequiredSignatures(active, owner, req, available)])

=============================================================================
