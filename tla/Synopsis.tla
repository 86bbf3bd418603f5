------------------------------ MODULE Synopsis ------------------------------
(***************************************************************************)
(* How two nodes find out which blocks one of them lacks: the synopsis of  *)
(* a chain (application_impl::get_blockchain_synopsis, completed by        *)
(* node_impl::create_blockchain_synopsis_for_peer), the list of block ids  *)
(* that answers it (application_impl::get_block_ids), and the test the     *)
(* receiver puts to that list.                                             *)
(*                                                                         *)
(* A block id is a pair of the block's number, which the first bytes of a  *)
(* real id hold, and of a label that tells blocks of equal number apart.   *)
(* A chain is the sequence of its block ids, in which block n stands at    *)
(* position n.                                                             *)
(***************************************************************************)
EXTENDS Naturals, Sequences, SequencesExt, FiniteSetsExt

CONSTANT Paths  \* the chains any node may be on; one holding a block holds its ancestors

num_from_id(id) == id[1]
ZeroId == <<0, 0>>

Blocks == UNION {ToSet(path) : path \in Paths}
Chains == UNION {Prefixes(path) : path \in Paths}

\* two chains that hold the same block agree up to it
ASSUME PathsAssumption ==
  /\ Paths # {}
  /\ \A path \in Paths : path \in Seq(ToSet(path))
  /\ \A path \in Paths : \A n \in 1..Len(path) : num_from_id(path[n]) = n
  /\ \A p, q \in Paths : \A n \in 1..Len(p) :
       n <= Len(q) /\ p[n] = q[n] => SubSeq(p, 1, n) = SubSeq(q, 1, n)

\* the chain that ends with a block
PathTo(id) ==
  CHOOSE path \in Chains : Len(path) = num_from_id(id) /\ (path = <<>> \/ Last(path) = id)

IsIncluded(chain, id) == num_from_id(id) \in 1..Len(chain) /\ chain[num_from_id(id)] = id

\* the number of the last block two chains have in common
ForkPoint(chain, other) ==
  Max({0} \cup {n \in 1..Len(chain) : n <= Len(other) /\ chain[n] = other[n]})

(***************************************************************************)
(* The numbers low, low + (high - low + 2) / 2, ... that are wanted: each  *)
(* step leaves out half of what remains.  The loop takes low before it     *)
(* tests anything.                                                         *)
(***************************************************************************)
HalvingTo(low, high, wanted) ==
  LET from[n \in low..Max({low, high})] ==
        (IF n \in wanted THEN <<n>> ELSE <<>>)
          \o IF n >= high THEN <<>> ELSE from[n + (high - n + 2) \div 2]
  IN from[low]

(***************************************************************************)
(* The synopsis of the blocks up to a reference point, leaving room for    *)
(* the ids that the caller adds.  undoable is the number of blocks the     *)
(* undo database can take back.  Without a reference point the whole chain *)
(* is summarised; a reference point on a fork that leaves the chain before *)
(* the first undoable block has no synopsis.                               *)
(***************************************************************************)
ForkedTooLongAgo(chain, undoable, reference) ==
  /\ reference # ZeroId
  /\ ~IsIncluded(chain, reference)
  /\ ForkPoint(chain, PathTo(reference)) < Len(chain) - undoable

GetBlockchainSynopsis(chain, undoable, reference, after) ==
  LET summarised == IF reference = ZeroId THEN chain ELSE PathTo(reference)
      high == Len(summarised)
      undone == Len(chain) - undoable
      low == Max({1, IF IsIncluded(chain, reference) THEN Min({undone, high}) ELSE undone})
      listed == HalvingTo(low, high + after, 1..high)
  IN [i \in 1..Len(listed) |-> summarised[listed[i]]]

\* mutant: takes the block after the last offered one for the end
CreateSynopsisTooFar(chain, undoable, reference, offered) ==
  LET synopsis == GetBlockchainSynopsis(chain, undoable, reference, Len(offered))
      first == num_from_id(Head(offered))
      low == IF synopsis = <<>> THEN 1 ELSE num_from_id(Head(synopsis))
      added == HalvingTo(low, first + Len(offered), first..(first + Len(offered) - 1))
  IN IF offered = <<>> THEN synopsis
     ELSE synopsis \o [i \in 1..Len(added) |-> offered[added[i] - first + 1]]

\* the ids a peer has offered and that are not yet handed over complete the synopsis
CreateSynopsisForPeer(chain, undoable, reference, offered) ==
  LET synopsis == GetBlockchainSynopsis(chain, undoable, reference, Len(offered))
      first == num_from_id(Head(offered))
      high == first + Len(offered) - 1
      low == IF synopsis = <<>> THEN 1 ELSE num_from_id(Head(synopsis))
      added == HalvingTo(low, high, first..Max({low, high}))
  IN IF offered = <<>> THEN synopsis
     ELSE synopsis \o [i \in 1..Len(added) |-> offered[added[i] - first + 1]]

(***************************************************************************)
(* The answer: up to limit ids of our chain, beginning with the last block *)
(* of the synopsis that is on it, and the number of ids left out.  There   *)
(* is none when the synopsis and our chain have nothing in common; the     *)
(* node then answers as if it had no blocks.                               *)
(***************************************************************************)
UnreachableFork(chain, synopsis) ==
  Len(chain) > 0 /\ synopsis # <<>> /\ \A i \in 1..Len(synopsis) : ~IsIncluded(chain, synopsis[i])

\* mutant: takes the first block of the synopsis that is known
FirstKnown(chain, synopsis) ==
  LET known == {i \in 1..Len(synopsis) : IsIncluded(chain, synopsis[i])}
  IN IF known = {} THEN 0 ELSE num_from_id(synopsis[Min(known)])

LastKnown(chain, synopsis) ==
  LET known == {i \in 1..Len(synopsis) : IsIncluded(chain, synopsis[i])}
  IN IF known = {} THEN 0 ELSE num_from_id(synopsis[Max(known)])

GetBlockIds(chain, synopsis, limit) ==
  LET from == Max({1, LastKnown(chain, synopsis)})
      ids == SubSeq(chain, from, Min({Len(chain), from + limit - 1}))
  IN IF UnreachableFork(chain, synopsis) THEN [ids |-> <<>>, remaining |-> 0]
     ELSE [ids |-> ids,
           remaining |-> IF ids = <<>> THEN 0 ELSE Len(chain) - num_from_id(Last(ids))]

\* the list is sequential and starts with a block we named, or with block 1
ValidReply(synopsis, ids) ==
  ids # <<>> =>
    /\ \A i \in 2..Len(ids) : num_from_id(ids[i]) = num_from_id(ids[1]) + i - 1
    /\ IF synopsis = <<>> THEN num_from_id(ids[1]) = 1 ELSE Contains(synopsis, ids[1])
=============================================================================
