--------------------------- MODULE SnapshotStack ---------------------------
(***************************************************************************)
(* What the undo database promises: a database with nested savepoints.     *)
(* Each savepoint is a complete copy of the database, taken when it was    *)
(* opened.  A rollback brings back the newest copy, whatever happened      *)
(* since; a merge forgets it.  Old copies may be forgotten when a new one  *)
(* is taken, but never that of a session that is still live.               *)
(***************************************************************************)
EXTENDS Naturals, Sequences

VARIABLES objects, next_id,  \* the database
          saved,             \* the savepoints, oldest first
          live               \* how many of them belong to live sessions

snapshotVars == <<objects, next_id, saved, live>>

Current == [objects |-> objects, next_id |-> next_id]
Newest == saved[Len(saved)]
WithoutNewest == SubSeq(saved, 1, Len(saved) - 1)

SInit == saved = <<>> /\ live = 0

(***************************************************************************)
(* The database changes in any way.  A first savepoint may be taken then.  *)
(***************************************************************************)
Change ==
  /\ \/ saved' = saved
     \/ saved = <<>> /\ saved' = <<Current>>
  /\ UNCHANGED live

Open ==
  /\ \E k \in 0 .. Len(saved) - live :
       saved' = Append(SubSeq(saved, k + 1, Len(saved)), Current)
  /\ live' = live + 1
  /\ UNCHANGED <<objects, next_id>>

Restore ==
  /\ saved # <<>>
  /\ objects' = Newest.objects
  /\ next_id' = Newest.next_id
  /\ saved' = WithoutNewest

Rollback == live > 0 /\ live' = live - 1 /\ Restore

RollbackCommitted == live = 0 /\ UNCHANGED live /\ Restore

Absorb ==
  /\ live > 0 /\ saved # <<>>
  /\ live' = live - 1
  /\ saved' = WithoutNewest
  /\ UNCHANGED <<objects, next_id>>

Keep ==
  /\ live = 1 /\ live' = 0
  /\ UNCHANGED <<objects, next_id, saved>>

SNext == Change \/ Open \/ Rollback \/ RollbackCommitted \/ Absorb \/ Keep

SSpec == SInit /\ [][SNext]_snapshotVars
=============================================================================
