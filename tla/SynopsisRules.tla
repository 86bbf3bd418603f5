--------------------------- MODULE SynopsisRules ---------------------------
(***************************************************************************)
(* The synopsis and its answer for two nodes whose chains grow: what they  *)
(* promise each other when nothing changes in between.                     *)
(***************************************************************************)
EXTENDS Synopsis

CONSTANTS
  Limit,     \* ids in one answer
  MaxUndo    \* the largest undo history

ASSUME SynopsisAssumption == Limit \in Nat \ {0} /\ MaxUndo \in Nat

VARIABLES
  ours, theirs,  \* the two chains
  undoable,      \* how many blocks of ours can be undone
  offers         \* how many of their blocks they have listed already

synopsisVars == <<ours, theirs, undoable, offers>>

SynopsisInit == ours = <<>> /\ theirs = <<>> /\ undoable = 0 /\ offers = 0

Longer(chain) == {path \in Chains : Len(path) = Len(chain) + 1 /\ SubSeq(path, 1, Len(chain)) = chain}

OurBlock ==
  /\ ours' \in Longer(ours)
  /\ undoable' \in {undoable, undoable + 1} \cap 0..MaxUndo
  /\ offers' = 0
  /\ UNCHANGED theirs

TheirBlock ==
  /\ theirs' \in Longer(theirs)
  /\ offers' = 0
  /\ UNCHANGED <<ours, undoable>>

\* what they list follows a block we have, unless we have none
TheyList ==
  /\ ForkPoint(ours, theirs) > 0 \/ ours = <<>>
  /\ ForkPoint(ours, theirs) + offers < Len(theirs)
  /\ offers' = offers + 1
  /\ UNCHANGED <<ours, theirs, undoable>>

SynopsisNext == OurBlock \/ TheirBlock \/ TheyList

SynopsisSpec == SynopsisInit /\ [][SynopsisNext]_synopsisVars

-----------------------------------------------------------------------------
Common == ForkPoint(ours, theirs)
Seen == IF offers = 0 \/ Common = 0 THEN ZeroId ELSE ours[Common]
Asked == CreateSynopsisForPeer(ours, undoable, Seen, SubSeq(theirs, Common + 1, Common + offers))
Reply == GetBlockIds(theirs, Asked, Limit)

\* the fork, if any, is one that we could switch to
Reachable == Common >= Len(ours) - undoable

(***************************************************************************)
(* A node that answers from its chain is never disconnected for an invalid *)
(* response (on_blockchain_item_ids_inventory_message).                    *)
(***************************************************************************)
ReplyAccepted == ValidReply(Asked, Reply.ids)

(***************************************************************************)
(* If the chains fork within our undo history, the answer of get_block_ids *)
(* begins with a block both have or one they listed, the last of these in  *)
(* the synopsis, so that no block that we lack is left out; if they listed *)
(* blocks, it begins with the last of them.                                *)
(***************************************************************************)
NothingSkipped ==
  Reachable /\ Len(theirs) > 0 /\ (Common > 0 \/ ours = <<>>) =>
    /\ Reply.ids # <<>>
    /\ num_from_id(Head(Reply.ids)) \in {1} \cup 1..(Common + offers)
    /\ offers > 0 => num_from_id(Head(Reply.ids)) = Common + offers
    /\ Reply.remaining = Len(theirs) - num_from_id(Last(Reply.ids))

\* An answer from the peer's chain is accepted and leaves nothing out.
ReplyServes == ReplyAccepted /\ NothingSkipped
=============================================================================
