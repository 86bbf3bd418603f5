--------------------------- MODULE ProposalProofs ---------------------------
(***************************************************************************)
(* Proofs about Proposals: for all accounts, authorities, transactions and *)
(* bounds, whatever is authorised and whatever fails, a proposal is        *)
(* applied at most once, goes for a reason and, once it is there, is not   *)
(* applied before its review period is over.                               *)
(***************************************************************************)
EXTENDS Proposals, TLAPS

(***************************************************************************)
(* The inductive invariant.  Objects, current or recorded, are consistent  *)
(* when nothing beyond next_id exists and nothing live was applied.  While *)
(* a block may still be undone, the current objects descend from the       *)
(* recorded ones: ids are not reused, and what was applied stays applied.  *)
(***************************************************************************)
Consistent(props, exec, next) ==
  /\ props \in [Ids -> ProposalObjects \cup {None}]
  /\ exec \in [Ids -> Nat]
  /\ next \in Nat \ {0}
  /\ \A i \in Ids : /\ exec[i] <= 1
                    /\ props[i] # None => exec[i] = 0
                    /\ i >= next => props[i] = None /\ exec[i] = 0

Descends ==
  /\ undo.next_id <= next_id
  /\ \A i \in Ids : undo.executed[i] <= executed[i]
  /\ \A i \in Live : undo.proposals[i] # None => undo.proposals[i].tx = proposals[i].tx

ProposalInv ==
  /\ setting \in Settings /\ now \in Nat /\ pops \in Nat /\ undo.now \in Nat
  /\ Consistent(proposals, executed, next_id)
  /\ Consistent(undo.proposals, undo.executed, undo.next_id)
  /\ pops < setting.pops => Descends

-----------------------------------------------------------------------------
\* Ids are positive numbers, and the next one is an id while another
\* proposal may be created.
LEMMA IdFacts ==
  /\ Ids \subseteq Nat
  /\ \A s \in Settings, n \in Nat \ {0} : n <= s.proposals => n \in Ids
BY ProposalAssumption DEF Ids

-----------------------------------------------------------------------------
(***************************************************************************)
(* What the operations on one proposal have in common: the proposal j      *)
(* becomes q, which is None or keeps the transaction, and is counted as    *)
(* applied only if it goes.                                                *)
(***************************************************************************)
ChangesOne(j, q) ==
  /\ proposals' = [proposals EXCEPT ![j] = q]
  /\ \/ UNCHANGED executed
     \/ q = None /\ executed' = [executed EXCEPT ![j] = @ + 1]
  /\ UNCHANGED <<undo, pops, setting, now>>

\* Such a change keeps the invariant.
LEMMA ChangesOneInv ==
  ASSUME ProposalInv, NEW j \in Ids, NEW q \in ProposalObjects \cup {None},
         ChangesOne(j, q), executed[j] = 0, next_id' \in Nat \ {0}, next_id <= next_id', j < next_id',
         pops < setting.pops /\ undo.proposals[j] # None => q = None \/ q.tx = undo.proposals[j].tx
  PROVE  ProposalInv'
<1> USE IdFacts
<1>1. Consistent(proposals, executed, next_id)'
  BY DEF ProposalInv, Consistent, ChangesOne
<1>2. (pops < setting.pops => Descends)'
  BY DEF ProposalInv, Consistent, ChangesOne, Descends, Live
<1> QED BY <1>1, <1>2 DEF ProposalInv, ChangesOne

\* What Create makes of its arguments.
NewProposal(payer, tx, expires, review) ==
  [tx |-> tx, proposer |-> payer, created |-> now, expires |-> expires,
   review |-> IF review # None /\ tx \notin NoReview THEN now + review ELSE None,
   active |-> {payer}, owner |-> {}, keys |-> {}, status |-> "published"]

\* A new proposal takes the next id, which nothing has had before.
LEMMA CreateInv ==
  ASSUME ProposalInv, NEW payer \in Payers, NEW tx \in Txs, NEW e \in 0..setting.time,
         NEW r \in Times \cup {None}, Create(payer, tx, e, r)
  PROVE  ProposalInv'
<1> DEFINE p == NewProposal(payer, tx, e, r)
<1>1. /\ next_id \in Ids /\ next_id \in Nat \ {0}
      /\ proposals[next_id] = None /\ executed[next_id] = 0
      /\ pops < setting.pops => undo.proposals[next_id] = None
  <2>1. next_id \in Ids
    BY IdFacts DEF Create, ProposalInv, Consistent
  <2> QED BY <2>1, IdFacts DEF ProposalInv, Consistent, Descends
<1>2. p \in ProposalObjects
  <2>1. r \in Nat \cup {None} /\ e \in Nat
    BY ProposalAssumption DEF Times, ProposalInv
  <2> QED BY <2>1, ProposalAssumption DEF NewProposal, ProposalObjects, ProposalInv
<1>4. /\ next_id' = next_id + 1
      /\ UNCHANGED <<now, undo, pops, setting>>
      /\ \/ /\ proposals' = [proposals EXCEPT ![next_id] = p]
            /\ UNCHANGED executed
         \/ PushProposal(next_id, p)
         \/ PushProposalFails(next_id, p)
  BY DEF Create, NewProposal
<1> HIDE DEF p
<1>6. \E q \in ProposalObjects \cup {None} : ChangesOne(next_id, q)
  <2>1. CASE proposals' = [proposals EXCEPT ![next_id] = p] /\ UNCHANGED executed
    <3>1. ChangesOne(next_id, p)
      BY <1>4, <2>1 DEF ChangesOne
    <3> QED BY <1>2, <3>1
  <2>2. CASE PushProposal(next_id, p)
    <3>1. ChangesOne(next_id, None)
      BY <1>4, <2>2 DEF ChangesOne, PushProposal
    <3> QED BY <3>1
  <2>3. CASE PushProposalFails(next_id, p)
    <3> DEFINE q == [p EXCEPT !.status = "failed"]
    <3>1. q \in ProposalObjects
      BY <1>2 DEF ProposalObjects
    <3>2. proposals' = [proposals EXCEPT ![next_id] = q] /\ UNCHANGED executed
      BY <2>3 DEF PushProposalFails
    <3> HIDE DEF q
    <3>3. ChangesOne(next_id, q)
      BY <1>4, <3>2 DEF ChangesOne
    <3> QED BY <3>1, <3>3
  <2> QED BY <1>4, <2>1, <2>2, <2>3
<1>7. next_id' \in Nat \ {0} /\ next_id <= next_id' /\ next_id < next_id'
  BY <1>1, <1>4
<1> QED BY <1>1, <1>6, <1>7, ChangesOneInv

\* An update keeps the transaction and applies it only by removing the proposal.
LEMMA UpdateInv ==
  ASSUME ProposalInv, NEW j \in Ids, NEW u \in setting.updates, Update(j, u)
  PROVE  ProposalInv'
<1> DEFINE q == Updated(proposals[j], u)
<1>1. /\ j \in Live /\ proposals[j] \in ProposalObjects /\ executed[j] = 0
      /\ j < next_id /\ next_id \in Nat \ {0}
  BY IdFacts DEF Update, Live, ProposalInv, Consistent
<1>2. q \in ProposalObjects /\ q.tx = proposals[j].tx
  <2>1. u \in ApprovalChanges
    BY ProposalAssumption DEF ProposalInv
  <2> QED BY <1>1, <2>1 DEF Updated, ProposalObjects, ApprovalChanges
<1>3. Finish(j, q) /\ UNCHANGED <<now, next_id, undo, pops, setting>>
  BY DEF Update
<1> HIDE DEF q
<1>5. \E r \in ProposalObjects \cup {None} : ChangesOne(j, r) /\ (r = None \/ r.tx = proposals[j].tx)
  <2>1. CASE UNCHANGED executed /\ \E s \in {"published", "passed", "failed"} :
               proposals' = [proposals EXCEPT ![j] = [q EXCEPT !.status = s]]
    <3>1. PICK s \in {"published", "passed", "failed"} :
            proposals' = [proposals EXCEPT ![j] = [q EXCEPT !.status = s]]
      BY <2>1
    <3> DEFINE r == [q EXCEPT !.status = s]
    <3>2. r \in ProposalObjects /\ r.tx = q.tx
      BY <1>2 DEF ProposalObjects
    <3>3. proposals' = [proposals EXCEPT ![j] = r]
      BY <3>1
    <3> HIDE DEF r
    <3>4. ChangesOne(j, r)
      BY <1>3, <2>1, <3>3 DEF ChangesOne
    <3> QED BY <1>2, <3>2, <3>4
  <2>2. CASE PushProposal(j, q)
    <3>1. ChangesOne(j, None)
      BY <1>3, <2>2 DEF ChangesOne, PushProposal
    <3> QED BY <3>1
  <2>3. \/ PushProposal(j, q)
        \/ UNCHANGED executed /\ \E s \in {"published", "passed", "failed"} :
               proposals' = [proposals EXCEPT ![j] = [q EXCEPT !.status = s]]
    <3>1. q.status \in {"published", "passed", "failed"}
      BY <1>2 DEF ProposalObjects
    <3> QED BY <1>3, <3>1 DEF Finish, PushProposalFails
  <2> QED BY <2>1, <2>2, <2>3
<1>6. pops < setting.pops /\ undo.proposals[j] # None => proposals[j].tx = undo.proposals[j].tx
  BY <1>1 DEF ProposalInv, Descends
<1>7. next_id' \in Nat \ {0} /\ next_id <= next_id' /\ j < next_id'
  BY <1>1, <1>3
<1> QED BY <1>1, <1>5, <1>6, <1>7, ChangesOneInv

\* A live proposal goes, applied or not.
LEMMA GoneInv ==
  ASSUME ProposalInv, NEW j \in Live,
         proposals' = [proposals EXCEPT ![j] = None],
         \/ UNCHANGED executed
         \/ executed' = [executed EXCEPT ![j] = @ + 1],
         UNCHANGED <<now, next_id, undo, pops, setting>>
  PROVE  ProposalInv'
<1>1. j \in Ids /\ executed[j] = 0 /\ j < next_id /\ next_id \in Nat \ {0}
  BY IdFacts DEF Live, ProposalInv, Consistent
<1>2. ChangesOne(j, None)
  BY <1>1 DEF ChangesOne
<1> QED BY <1>1, <1>2, ChangesOneInv

\* proposal_delete_evaluator removes a live proposal.
LEMMA DeleteInv ==
  ASSUME ProposalInv, NEW j \in Ids, NEW payer \in Payers, Delete(j, payer)
  PROVE  ProposalInv'
BY GoneInv DEF Delete

\* So does clear_expired_proposals, which may apply it first.
LEMMA ClearExpiredInv ==
  ASSUME ProposalInv, NEW j \in Ids, ClearExpired(j)
  PROVE  ProposalInv'
<1>1. j \in Live
  BY DEF ClearExpired, Expired
<1>2. /\ proposals' = [proposals EXCEPT ![j] = None]
      /\ UNCHANGED executed \/ executed' = [executed EXCEPT ![j] = @ + 1]
      /\ UNCHANGED <<now, next_id, undo, pops, setting>>
  BY DEF ClearExpired, PushProposal
<1> QED BY <1>1, <1>2, GoneInv

\* The objects of a complete block become the recorded ones.
LEMMA EndBlockInv ==
  ASSUME ProposalInv, EndBlock
  PROVE  ProposalInv'
<1>1. /\ UNCHANGED <<now, proposals, next_id, executed, pops, setting>>
      /\ \/ UNCHANGED undo
         \/ undo' = Snapshot
  BY DEF EndBlock, objects
<1>3. CASE UNCHANGED undo
  BY <1>1, <1>3 DEF ProposalInv, Descends, Live
<1>4. CASE undo' = Snapshot
  <2>1. /\ undo'.proposals = proposals' /\ undo'.executed = executed'
        /\ undo'.next_id = next_id' /\ undo'.now = now'
    BY <1>1, <1>4 DEF Snapshot
  <2>2. Descends'
    BY <1>1, <2>1 DEF Descends, ProposalInv, Consistent
  <2> QED BY <1>1, <2>1, <2>2 DEF ProposalInv
<1> QED BY <1>1, <1>3, <1>4

\* Undo puts the recorded objects back.
LEMMA UndoBlockInv ==
  ASSUME ProposalInv, UndoBlock
  PROVE  ProposalInv'
<1>1. /\ pops < setting.pops /\ Descends
      /\ now' = undo.now /\ proposals' = undo.proposals /\ next_id' = undo.next_id
      /\ executed' = undo.executed /\ pops' = pops + 1 /\ setting' = setting
      /\ pops' < setting'.pops => undo' = undo
      /\ undo' = undo \/ undo' = Snapshot0
  BY DEF UndoBlock, ProposalInv
<1>2. Consistent(undo.proposals, undo.executed, undo.next_id)'
  <2>1. CASE undo' = undo
    BY <2>1 DEF ProposalInv
  <2>2. CASE undo' = Snapshot0
    BY <2>2 DEF Snapshot0, Consistent
  <2> QED BY <1>1, <2>1, <2>2
<1>3. pops' \in Nat /\ undo'.now \in Nat
  BY <1>1 DEF ProposalInv, Snapshot0
<1>4. (pops < setting.pops => Descends)'
  BY <1>1 DEF Descends, ProposalInv, Consistent
<1> QED BY <1>1, <1>2, <1>3, <1>4 DEF ProposalInv

\* The rest does not change the proposals.
LEMMA RestInv ==
  ASSUME ProposalInv, now' \in Nat,
         UNCHANGED <<proposals, next_id, executed, undo, pops, setting>>
  PROVE  ProposalInv'
BY DEF ProposalInv, Descends, Live

-----------------------------------------------------------------------------
(***************************************************************************)
(* Every step is a step of one of the operations.                          *)
(***************************************************************************)
LEMMA ProposalInvCorrect == Spec => []ProposalInv
<1>1. Init => ProposalInv
  <2> SUFFICES ASSUME Init PROVE ProposalInv
    OBVIOUS
  <2>1. Consistent(proposals, executed, next_id)
    BY DEF Init, Consistent
  <2>2. Consistent(undo.proposals, undo.executed, undo.next_id) /\ undo.now \in Nat
    BY DEF Init, Consistent, Snapshot0
  <2>3. Descends
    BY DEF Init, Descends, Snapshot0, Live
  <2> QED BY <2>1, <2>2, <2>3 DEF Init, ProposalInv
<1>2. ProposalInv /\ [Next]_vars => ProposalInv'
  <2> SUFFICES ASSUME ProposalInv, [Next]_vars
               PROVE  ProposalInv'
    OBVIOUS
  <2>1. ASSUME NEW a \in Payers, NEW tx \in Txs, NEW e \in 0..setting.time,
               NEW r \in Times \cup {None}, Create(a, tx, e, r)
        PROVE  ProposalInv'
    BY <2>1, CreateInv
  <2>2. ASSUME NEW i \in Ids, NEW u \in setting.updates, Update(i, u)
        PROVE  ProposalInv'
    BY <2>2, UpdateInv
  <2>3. ASSUME NEW i \in Ids, NEW a \in Payers, Delete(i, a)
        PROVE  ProposalInv'
    BY <2>3, DeleteInv
  <2>4. CASE ChangeAuthority
    BY <2>4, RestInv DEF ChangeAuthority, ProposalInv
  <2>5. ASSUME NEW tx \in Txs, ChangeFailing(tx)
        PROVE  ProposalInv'
    BY <2>5, RestInv DEF ChangeFailing, ProposalInv
  <2>6. CASE NextBlock
    BY <2>6, RestInv DEF NextBlock, ProposalInv
  <2>7. ASSUME NEW i \in Ids, ClearExpired(i)
        PROVE  ProposalInv'
    BY <2>7, ClearExpiredInv
  <2>8. CASE EndBlock
    BY <2>8, EndBlockInv
  <2>9. CASE UndoBlock
    BY <2>9, UndoBlockInv
  <2>10. CASE UNCHANGED vars
    BY <2>10, RestInv DEF vars, objects, ProposalInv
  <2> QED BY <2>1, <2>2, <2>3, <2>4, <2>5, <2>6, <2>7, <2>8, <2>9, <2>10 DEF Next
<1> QED BY <1>1, <1>2, PTL DEF Spec

\* The transaction of a proposal is applied at most once, and a proposal
\* that is still there has not been applied (push_proposal and its callers).
THEOREM ProposalAppliedOnce == Spec => []AppliedOnce
<1>1. ProposalInv => AppliedOnce
  BY DEF ProposalInv, Consistent, AppliedOnce, Live
<1> QED BY <1>1, ProposalInvCorrect, PTL

-----------------------------------------------------------------------------
(***************************************************************************)
(* What a step may do to a live proposal.                                  *)
(***************************************************************************)
LiveFacts(i) ==
  i \in Ids /\ i < next_id /\ proposals[i] \in ProposalObjects /\ proposals[i] # None /\ executed[i] = 0

\* A live proposal has an id that was given and has not been applied.
LEMMA LiveHasFacts ==
  ASSUME ProposalInv, NEW i \in Live
  PROVE  LiveFacts(i)
BY IdFacts DEF LiveFacts, Live, ProposalInv, Consistent

\* Creating a proposal leaves the others as they are.
LEMMA CreateKeeps ==
  ASSUME ProposalInv, NEW payer \in Payers, NEW tx \in Txs, NEW e \in 0..setting.time,
         NEW r \in Times \cup {None}, Create(payer, tx, e, r), NEW i \in Live
  PROVE  proposals'[i] = proposals[i] /\ executed'[i] = executed[i]
<1>1. i \in Ids /\ i # next_id
  BY LiveHasFacts, IdFacts DEF LiveFacts, ProposalInv, Consistent
<1>2. \E q : proposals' = [proposals EXCEPT ![next_id] = q]
  BY DEF Create, PushProposal, PushProposalFails
<1>3. executed' = executed \/ executed' = [executed EXCEPT ![next_id] = @ + 1]
  BY DEF Create, PushProposal, PushProposalFails
<1> QED BY <1>1, <1>2, <1>3 DEF ProposalInv, Consistent

\* An update removes a proposal only by applying it, which it does only
\* without a review period.
LEMMA UpdateKeeps ==
  ASSUME ProposalInv, NEW j \in Ids, NEW u \in setting.updates, Update(j, u), NEW i \in Live
  PROVE  \/ proposals'[i] # None /\ executed'[i] = executed[i]
         \/ proposals[i].review = None /\ executed'[i] = executed[i] + 1
<1> DEFINE q == Updated(proposals[j], u)
<1>1. LiveFacts(i) /\ LiveFacts(j)
  BY LiveHasFacts DEF Update
<1>2. q \in ProposalObjects /\ q.review = proposals[j].review
  <2>1. u \in ApprovalChanges
    BY ProposalAssumption DEF ProposalInv
  <2> QED BY <1>1, <2>1 DEF Updated, ProposalObjects, ApprovalChanges, LiveFacts
<1>3. Finish(j, q)
  BY DEF Update
<1> HIDE DEF q
<1>4. \/ UNCHANGED executed /\ \E s \in {"published", "passed", "failed"} :
           proposals' = [proposals EXCEPT ![j] = [q EXCEPT !.status = s]]
      \/ q.review = None /\ PushProposal(j, q)
  <2>1. q.status \in {"published", "passed", "failed"}
    BY <1>2 DEF ProposalObjects
  <2> QED BY <1>3, <2>1 DEF Finish, PushProposalFails
<1>5. CASE UNCHANGED executed /\ \E s \in {"published", "passed", "failed"} :
           proposals' = [proposals EXCEPT ![j] = [q EXCEPT !.status = s]]
  <2>1. PICK s \in {"published", "passed", "failed"} :
          proposals' = [proposals EXCEPT ![j] = [q EXCEPT !.status = s]]
    BY <1>5
  <2>2. [q EXCEPT !.status = s] \in ProposalObjects
    BY <1>2 DEF ProposalObjects
  <2>3. proposals'[i] # None
    BY <1>1, <2>1, <2>2, ProposalAssumption DEF LiveFacts, ProposalInv, Consistent
  <2> QED BY <1>5, <2>3
<1>6. CASE q.review = None /\ PushProposal(j, q)
  BY <1>1, <1>2, <1>6 DEF LiveFacts, PushProposal, ProposalInv, Consistent
<1> QED BY <1>4, <1>5, <1>6

\* At its expiration a proposal is applied, or not applicable or not
\* sufficiently approved; the others stay.
LEMMA ClearExpiredKeeps ==
  ASSUME ProposalInv, NEW j \in Ids, ClearExpired(j), NEW i \in Live
  PROVE  \/ proposals'[i] # None /\ executed'[i] = executed[i]
         \/ proposals[i].expires <= now /\ executed'[i] = executed[i] + 1
         \/ /\ proposals[i].expires <= now
            /\ executed'[i] = executed[i]
            /\ IsAuthorized(proposals[i]) => proposals[i].tx \in failing
<1>1. LiveFacts(i)
  BY LiveHasFacts
<1>2. /\ proposals[j].expires <= now
      /\ proposals' = [proposals EXCEPT ![j] = None]
      /\ \/ executed' = [executed EXCEPT ![j] = @ + 1]
         \/ /\ IsAuthorized(proposals[j]) => proposals[j].tx \in failing
            /\ UNCHANGED executed
  BY DEF ClearExpired, Expired, PushProposal
<1>3. CASE i = j
  BY <1>1, <1>2, <1>3 DEF LiveFacts, ProposalInv, Consistent
<1>4. CASE i # j
  BY <1>1, <1>2, <1>4 DEF LiveFacts, ProposalInv, Consistent
<1> QED BY <1>3, <1>4

\* Undoing a block, which counts, never makes a live proposal an applied one.
LEMMA UndoBlockKeeps ==
  ASSUME ProposalInv, UndoBlock, NEW i \in Live
  PROVE  pops' # pops /\ ~(executed'[i] > executed[i])
<1>1. LiveFacts(i) /\ Descends
  BY LiveHasFacts DEF UndoBlock, ProposalInv
<1> QED BY <1>1 DEF UndoBlock, LiveFacts, Descends, ProposalInv, Consistent

(***************************************************************************)
(* The cases of a step, for a proposal that is live before it.             *)
(***************************************************************************)
OutcomeFor(i) ==
  \/ proposals'[i] # None /\ executed'[i] = executed[i]
  \/ i \in deleted' /\ executed'[i] = executed[i]
  \/ pops' # pops /\ ~(executed'[i] > executed[i])
  \/ proposals[i].review = None /\ executed'[i] = executed[i] + 1
  \/ proposals[i].expires <= now /\ executed'[i] = executed[i] + 1
  \/ /\ proposals[i].expires <= now
     /\ executed'[i] = executed[i]
     /\ IsAuthorized(proposals[i]) => proposals[i].tx \in failing

\* Every step has one of these outcomes.
LEMMA StepKeeps ==
  ASSUME ProposalInv, [Next]_vars, NEW i \in Live
  PROVE  OutcomeFor(i)
<1>0. LiveFacts(i)
  BY LiveHasFacts
<1>1. ASSUME NEW a \in Payers, NEW tx \in Txs, NEW e \in 0..setting.time,
             NEW r \in Times \cup {None}, Create(a, tx, e, r)
      PROVE  OutcomeFor(i)
  BY <1>0, <1>1, CreateKeeps DEF LiveFacts, OutcomeFor
<1>2. ASSUME NEW j \in Ids, NEW u \in setting.updates, Update(j, u)
      PROVE  OutcomeFor(i)
  BY <1>2, UpdateKeeps DEF OutcomeFor
<1>3. ASSUME NEW j \in Ids, NEW a \in Payers, Delete(j, a)
      PROVE  OutcomeFor(i)
  BY <1>0, <1>3 DEF OutcomeFor, Delete, LiveFacts, ProposalInv, Consistent
<1>4. ASSUME UNCHANGED <<proposals, executed>>
      PROVE  OutcomeFor(i)
  BY <1>0, <1>4 DEF LiveFacts, OutcomeFor
<1>5. ASSUME NEW j \in Ids, ClearExpired(j)
      PROVE  OutcomeFor(i)
  BY <1>5, ClearExpiredKeeps DEF OutcomeFor
<1>6. CASE UndoBlock
  BY <1>6, UndoBlockKeeps DEF OutcomeFor
<1>7. CASE ChangeAuthority \/ (\E tx \in Txs : ChangeFailing(tx)) \/ NextBlock \/ EndBlock \/ UNCHANGED vars
  <2>1. UNCHANGED <<proposals, executed>>
    BY <1>7 DEF ChangeAuthority, ChangeFailing, NextBlock, EndBlock, vars, objects
  <2> QED BY <1>4, <2>1
<1>8. \/ \E a \in Payers, tx \in Txs, e \in 0..setting.time, r \in Times \cup {None} :
           Create(a, tx, e, r)
      \/ \E j \in Ids, u \in setting.updates : Update(j, u)
      \/ \E j \in Ids, a \in Payers : Delete(j, a)
      \/ \E j \in Ids : ClearExpired(j)
      \/ UndoBlock
      \/ ChangeAuthority \/ (\E tx \in Txs : ChangeFailing(tx)) \/ NextBlock \/ EndBlock \/ UNCHANGED vars
  BY DEF Next
<1> QED BY <1>1, <1>2, <1>3, <1>5, <1>6, <1>7, <1>8

\* A proposal goes away only when its transaction was applied, when it was
\* deleted, when its creation is undone, or at its expiration, and then only
\* if it was not applicable or not sufficiently approved
\* (clear_expired_proposals, proposal_delete_evaluator, push_proposal).
THEOREM ProposalGoesForAReason == Spec => GoesForAReason
<1>1. ProposalInv /\ [Next]_vars =>
        [\A i \in Live :
           proposals'[i] = None /\ executed'[i] = executed[i]
           => \/ i \in deleted'
              \/ pops' # pops
              \/ /\ proposals[i].expires <= now
                 /\ IsAuthorized(proposals[i]) => proposals[i].tx \in failing]_vars
  <2> SUFFICES ASSUME ProposalInv, [Next]_vars, NEW i \in Live,
                      proposals'[i] = None, executed'[i] = executed[i]
               PROVE  \/ i \in deleted'
                      \/ pops' # pops
                      \/ /\ proposals[i].expires <= now
                         /\ IsAuthorized(proposals[i]) => proposals[i].tx \in failing
    OBVIOUS
  <2>1. executed[i] # executed[i] + 1
    BY LiveHasFacts DEF LiveFacts
  <2> QED BY <2>1, StepKeeps DEF OutcomeFor
<1> QED BY <1>1, ProposalInvCorrect, PTL DEF Spec, GoesForAReason

\* Once it is there, a proposal with a review period is applied only at its
\* expiration, whatever is approved before (proposal_update_evaluator, clear_expired_proposals).
THEOREM ReviewPeriodKept == Spec => RevocableUntilExpiration
<1>1. ProposalInv /\ [Next]_vars =>
        [\A i \in Live :
           proposals[i].review # None /\ executed'[i] > executed[i]
           => proposals[i].expires <= now]_vars
  <2> SUFFICES ASSUME ProposalInv, [Next]_vars, NEW i \in Live,
                      proposals[i].review # None, executed'[i] > executed[i]
               PROVE  proposals[i].expires <= now
    OBVIOUS
  <2>1. executed'[i] # executed[i]
    BY LiveHasFacts DEF LiveFacts
  <2> QED BY <2>1, StepKeeps DEF OutcomeFor
<1> QED BY <1>1, ProposalInvCorrect, PTL DEF Spec, RevocableUntilExpiration
=============================================================================
