----------------------------- MODULE Proposals ------------------------------
(***************************************************************************)
(* Proposed transactions: creation, approval, review period, execution,    *)
(* deletion and expiration (chain/proposal_evaluator.cpp,                  *)
(* proposal_object.cpp, database::push_proposal, clear_expired_proposals). *)
(* required_approval_index, which proposal_object.cpp defines too, is not  *)
(* part of the program: db_init.cpp does not register it.                  *)
(*                                                                         *)
(* A block applies operations at the time of the block before it; then the *)
(* head time advances and expired proposals are cleared.  A block may be   *)
(* popped again; the undo database is proved to restore the objects.       *)
(* Times after the hard forks of 2019 and 2020.                            *)
(***************************************************************************)
EXTENDS Authority, FiniteSets

CONSTANTS
  Txs,            \* the transactions that may be proposed
  Requires,       \* their required authorities: [active, owner]
  MustReview,     \* holds an operation of is_must_review_period
  NoReview,       \* holds one of is_no_review_period, and none of the former
  Committee,      \* GRAPHENE_COMMITTEE_ACCOUNT
  Locked,         \* accounts with is_lock_balance
  CommitteeReview,  \* committee_proposal_review_period
  MaxLifetime,    \* maximum_proposal_lifetime
  Settings,       \* bounds: [time : the last head block time, proposals : proposals
                  \* ever created, pops : blocks undone, updates : changes of approvals,
                  \* failing : transactions that may fail]
  Authority0,     \* the authorities of all accounts at the start
  Authority1,     \* and after an account has changed its own
  Payers,         \* accounts that send operations
  None

Accounts == AuthAccounts
Ids == UNION {1..s.proposals : s \in Settings}
Times == UNION {0..s.time : s \in Settings}

ApprovalChanges ==
  [active_add : SUBSET Accounts, active_remove : SUBSET Accounts,
   owner_add : SUBSET Accounts, owner_remove : SUBSET Accounts,
   keys_add : SUBSET AuthKeys, keys_remove : SUBSET AuthKeys]

ProposalObjects ==
  [tx : Txs, proposer : Accounts, created : Nat, expires : Nat, review : Nat \cup {None},
   active : SUBSET Accounts, owner : SUBSET Accounts, keys : SUBSET AuthKeys,
   status : {"published", "passed", "failed"}]

ASSUME ProposalAssumption ==
  /\ Requires \in [Txs -> [active : SUBSET Accounts, owner : SUBSET Accounts]]
  /\ MustReview \subseteq Txs /\ NoReview \subseteq Txs \ MustReview
  /\ Locked \subseteq Accounts
  /\ \A s \in Settings : s.time \in Nat /\ s.proposals \in Nat /\ s.pops \in Nat
  /\ \A s \in Settings : s.updates \subseteq ApprovalChanges
  /\ MaxLifetime \in Nat
  /\ CommitteeReview \in Nat
  /\ Payers \subseteq Accounts
  /\ None \notin ProposalObjects

VARIABLES
  now,        \* head_block_time
  clearing,   \* inside clear_expired_proposals
  proposals,  \* proposal_object by id, or None
  next_id,
  authority,  \* the active authority of every account (owner is the same)
  failing,    \* transactions that do not apply in the current state
  executed,   \* how often the transaction of a proposal has been applied
  deleted,    \* proposals that an operation has deleted
  undo,       \* the objects before the current block
  pops,       \* how many blocks were undone
  setting     \* one of Settings

objects == <<now, proposals, next_id, authority, failing, executed, deleted>>
vars == <<objects, clearing, undo, pops, setting>>

Live == {i \in Ids : proposals[i] # None}

Snapshot ==
  [now |-> now, proposals |-> proposals, next_id |-> next_id,
   authority |-> authority, failing |-> failing, executed |-> executed,
   deleted |-> deleted]

-----------------------------------------------------------------------------
(***************************************************************************)
(* is_authorized_to_execute and push_proposal.  A transaction that does    *)
(* not apply is undone by the session of push_proposal.                    *)
(***************************************************************************)
IsAuthorized(p) ==
  Verified(VerifyAuthority(authority, authority, Requires[p.tx],
                           p.keys, p.active, p.owner))

\* Mutant: the proposal is not removed.
PushProposalKeeps(i, p) ==
  /\ p.tx \notin failing
  /\ proposals' = [proposals EXCEPT ![i] = [p EXCEPT !.status = "executed"]]
  /\ executed' = [executed EXCEPT ![i] = @ + 1]

PushProposal(i, p) ==
  /\ p.tx \notin failing
  /\ proposals' = [proposals EXCEPT ![i] = None]
  /\ executed' = [executed EXCEPT ![i] = @ + 1]

PushProposalFails(i, p) ==
  /\ p.tx \in failing
  /\ proposals' = [proposals EXCEPT ![i] = [p EXCEPT !.status = "failed"]]
  /\ UNCHANGED executed

-----------------------------------------------------------------------------
Snapshot0 ==
  [now |-> 0, proposals |-> [i \in Ids |-> None], next_id |-> 1,
   authority |-> Authority0, failing |-> {}, executed |-> [i \in Ids |-> 0],
   deleted |-> {}]

Init ==
  /\ now = 0 /\ clearing = FALSE
  /\ proposals = [i \in Ids |-> None]
  /\ next_id = 1
  /\ authority = Authority0
  /\ failing = {}
  /\ executed = [i \in Ids |-> 0]
  /\ deleted = {}
  /\ undo = Snapshot0
  /\ pops = 0
  /\ setting \in Settings

NeedsReview(tx) ==
  /\ tx \notin NoReview
  /\ tx \in MustReview \/ Committee \in Requires[tx].active \cup Requires[tx].owner

(***************************************************************************)
(* proposal_create_evaluator.  The proposer's approval is there from the   *)
(* start.  review is the length of the review period, None if not given.   *)
(***************************************************************************)
Create(payer, tx, expires, review) ==
  LET p == [tx |-> tx, proposer |-> payer, created |-> now, expires |-> expires,
            review |-> IF review # None /\ tx \notin NoReview THEN now + review ELSE None,
            active |-> {payer}, owner |-> {}, keys |-> {}, status |-> "published"]
  IN /\ ~clearing /\ next_id <= setting.proposals
     /\ payer \notin Locked
     /\ expires > now /\ expires <= now + MaxLifetime
     /\ review # None => review < expires - now
     /\ NeedsReview(tx) => review # None /\ review >= CommitteeReview
     /\ \E authorized \in {IsAuthorized(p)} :
        \/ /\ ~authorized
           /\ proposals' = [proposals EXCEPT ![next_id] = p]
           /\ UNCHANGED executed
        \/ authorized /\ PushProposal(next_id, p)
        \/ authorized /\ PushProposalFails(next_id, p)
     /\ next_id' = next_id + 1
     /\ UNCHANGED <<now, clearing, authority, failing, deleted, undo, pops, setting>>

InReview(p) == p.review # None /\ now < p.review

(***************************************************************************)
(* proposal_update_evaluator; u holds the approvals to add and to remove.  *)
(* Whoever pays for it matters only in not being locked.                   *)
(* With a review period, sufficient approval is only noted.                *)
(***************************************************************************)
Updated(p, u) ==
  [p EXCEPT !.active = (@ \cup u.active_add) \ u.active_remove,
            !.owner = (@ \cup u.owner_add) \ u.owner_remove,
            !.keys = (@ \cup u.keys_add) \ u.keys_remove,
            !.status = "published"]

\* Mutant: the proposal is executed whether it has a review period or not.
FinishAtOnce(i, q) ==
  \/ /\ ~IsAuthorized(q)
     /\ proposals' = [proposals EXCEPT ![i] = q]
     /\ UNCHANGED executed
  \/ /\ IsAuthorized(q)
     /\ PushProposal(i, q)

\* Mutant: a proposal whose transaction fails is removed at once.
FinishOrRemove(i, q) ==
  \/ /\ q.review # None \/ ~IsAuthorized(q)
     /\ proposals' = [proposals EXCEPT ![i] = q]
     /\ UNCHANGED executed
  \/ /\ q.review = None /\ IsAuthorized(q)
     /\ proposals' = [proposals EXCEPT ![i] = None]
     /\ executed' = [executed EXCEPT ![i] = IF q.tx \in failing THEN @ ELSE @ + 1]

Finish(i, q) ==
  \E authorized \in {IsAuthorized(q)} :
  \/ /\ q.review # None \/ ~authorized
     /\ proposals' = [proposals EXCEPT ![i] =
                        [q EXCEPT !.status = IF authorized THEN "passed" ELSE @]]
     /\ UNCHANGED executed
  \/ /\ q.review = None /\ authorized
     /\ PushProposal(i, q) \/ PushProposalFails(i, q)

Update(i, u) ==
  /\ ~clearing /\ i \in Live
  /\ Payers \ Locked # {}
  /\ InReview(proposals[i]) => u.active_add = {} /\ u.owner_add = {}
  /\ u.active_remove \subseteq proposals[i].active
  /\ u.owner_remove \subseteq proposals[i].owner
  /\ Finish(i, Updated(proposals[i], u))
  /\ UNCHANGED <<now, clearing, next_id, authority, failing, deleted, undo, pops, setting>>

\* proposal_delete_evaluator
Delete(i, payer) ==
  /\ ~clearing /\ i \in Live
  /\ payer = proposals[i].proposer
     \/ payer \in Requires[proposals[i].tx].active \cup Requires[proposals[i].tx].owner
  /\ payer \notin Locked
  /\ proposals' = [proposals EXCEPT ![i] = None]
  /\ deleted' = deleted \cup {i}
  /\ UNCHANGED <<now, clearing, next_id, authority, failing, executed, undo, pops, setting>>

(***************************************************************************)
(* The rest of the chain: an account changes its authority, and other      *)
(* operations make a proposed transaction applicable or not.               *)
(***************************************************************************)
ChangeAuthority ==
  /\ ~clearing
  /\ authority' = IF authority = Authority0 THEN Authority1 ELSE Authority0
  /\ UNCHANGED <<now, clearing, proposals, next_id, failing, deleted, executed, undo, pops, setting>>

ChangeFailing(tx) ==
  /\ ~clearing /\ tx \in setting.failing
  /\ failing' = IF tx \in failing THEN failing \ {tx} ELSE failing \cup {tx}
  /\ UNCHANGED <<now, clearing, proposals, next_id, authority, executed, deleted,
                 undo, pops, setting>>
(***************************************************************************)
(* The end of a block: the head time advances, and clear_expired_proposals *)
(* works through the expiration index, the earliest first.                 *)
(***************************************************************************)
NextBlock ==
  /\ ~clearing /\ now < setting.time
  /\ now' = now + 1
  /\ clearing' = TRUE
  /\ UNCHANGED <<proposals, next_id, authority, failing, deleted, executed, undo, pops, setting>>

Expired == {i \in Live : proposals[i].expires <= now}

Earliest(i) ==
  \A j \in Expired :
    \/ proposals[i].expires < proposals[j].expires
    \/ (proposals[i].expires = proposals[j].expires /\ i <= j)

\* Mutant: a proposal whose transaction fails at expiration is kept.
ClearKeepsFailing(i) ==
  /\ clearing /\ i \in Expired /\ Earliest(i)
  /\ \/ /\ IsAuthorized(proposals[i])
        /\ PushProposal(i, proposals[i]) \/ PushProposalFails(i, proposals[i])
     \/ /\ ~IsAuthorized(proposals[i])
        /\ proposals' = [proposals EXCEPT ![i] = None]
        /\ UNCHANGED executed
  /\ UNCHANGED <<now, clearing, next_id, authority, failing, deleted, undo, pops, setting>>

ClearExpired(i) ==
  /\ clearing /\ i \in Expired /\ Earliest(i)
  /\ \E authorized \in {IsAuthorized(proposals[i])} :
     \/ /\ authorized
        /\ PushProposal(i, proposals[i])
     \/ /\ authorized => proposals[i].tx \in failing
        /\ proposals' = [proposals EXCEPT ![i] = None]
        /\ UNCHANGED executed
  /\ UNCHANGED <<now, clearing, next_id, authority, failing, deleted, undo, pops, setting>>

\* The block is complete.  The objects are only recorded while a block may
\* still be undone.
EndBlock ==
  /\ clearing /\ Expired = {}
  /\ clearing' = FALSE
  /\ undo' = IF pops < setting.pops THEN Snapshot ELSE undo
  /\ UNCHANGED <<objects, pops, setting>>

(***************************************************************************)
(* The session of the block is undone: pending transactions are set aside, *)
(* or the complete block is popped.                                        *)
(***************************************************************************)
UndoBlock ==
  /\ pops < setting.pops
  /\ clearing => Expired = {}
  /\ now' = undo.now /\ proposals' = undo.proposals /\ next_id' = undo.next_id
  /\ authority' = undo.authority /\ failing' = undo.failing
  /\ executed' = undo.executed /\ deleted' = undo.deleted
  /\ clearing' = FALSE
  /\ pops' = pops + 1
  /\ undo' = IF pops' < setting.pops THEN undo ELSE Snapshot0
  /\ UNCHANGED setting

-----------------------------------------------------------------------------
Next ==
  \/ \E a \in Payers, tx \in Txs, e \in 0..setting.time, r \in Times \cup {None} :
       Create(a, tx, e, r)
  \/ \E i \in Ids, u \in setting.updates : Update(i, u)
  \/ \E i \in Ids, a \in Payers : Delete(i, a)
  \/ ChangeAuthority \/ \E tx \in Txs : ChangeFailing(tx)
  \/ NextBlock \/ (\E i \in Ids : ClearExpired(i)) \/ EndBlock
  \/ UndoBlock

\* Witnesses go on producing blocks; the loop of clear_expired_proposals
\* runs in the same call.
Advance == NextBlock \/ (\E i \in Ids : ClearExpired(i)) \/ EndBlock

Spec == Init /\ [][Next]_vars /\ WF_vars(Advance)

-----------------------------------------------------------------------------
\* protocol/proposal.hpp: "The first time the proposed transaction succeeds,
\* the proposal will be regarded as resolved": it is not applied again by a
\* later approval, at expiration or after a block was undone, and a proposal
\* that is still there has not been applied.
AppliedOnce ==
  \A i \in Ids : executed[i] <= 1 /\ (i \in Live => executed[i] = 0)

\* A proposal goes away only when its transaction was applied, when it was
\* deleted by its proposer or an account whose approval it needs, when its
\* creation is undone, or at its expiration, and then only if it was not
\* applicable or not sufficiently approved: "if sufficient approval is
\* granted, the transaction will be evaluated a final time".
GoesForAReason ==
  [][\A i \in Live :
       proposals'[i] = None /\ executed'[i] = executed[i]
       => \/ i \in deleted'
          \/ pops' # pops
          \/ /\ proposals[i].expires <= now
             /\ IsAuthorized(proposals[i]) => proposals[i].tx \in failing]_vars

\* No approval, of whoever and in whatever order, executes a proposal with a
\* review period: once it is there it is applied at its expiration only, and
\* whoever revokes an approval in time prevents it (proposal_update_evaluator).
RevocableUntilExpiration ==
  [][\A i \in Live :
       proposals[i].review # None /\ executed'[i] > executed[i]
       => proposals[i].expires <= now]_vars

\* "Proposals with a review period may never be executed except at their
\* expiration" (proposal_evaluator.cpp:265): not by an approval, and not when
\* they are created either.
ReviewedAtExpiration ==
  [][/\ \A i \in Live :
          proposals[i].review # None /\ executed'[i] > executed[i]
          => proposals[i].expires <= now
     /\ \A a \in Payers, tx \in Txs \ NoReview, e \in 0..setting.time, r \in Times :
          Create(a, tx, e, r) => UNCHANGED executed]_vars

\* Every proposal is resolved, deleted or expires.
ProposalsEnd ==
  \A i \in Ids : []<>(i \notin Live)

=============================================================================
