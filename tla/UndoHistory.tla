---------------------------- MODULE UndoHistory ----------------------------
(***************************************************************************)
(* The undo database with a history variable: saved[i] is the database as  *)
(* it was when stack[i] was pushed.  The program does not have it; it says *)
(* what stack[i] is for, and it maps the undo database to SnapshotStack.   *)
(***************************************************************************)
EXTENDS UndoDatabase

VARIABLE saved

historyVars == <<objects, next_id, stack, sessions, disabled, max_size, saved>>

Current == [objects |-> objects, next_id |-> next_id]

HInit == Init /\ saved = <<>>

Changed ==
  saved' = IF disabled \/ saved # <<>> THEN saved ELSE <<Current>>

SavedPopBack == SubSeq(saved, 1, Len(saved) - 1)

HCreate(t, v) == Create(t, v) /\ Changed
HModify(o, v) == Modify(o, v) /\ Changed
HRemove(o) == Remove(o) /\ Changed

HStart(force_enable) ==
  /\ StartUndoSession(force_enable)
  /\ saved' = Append(IF Len(saved) > max_size
                     THEN SubSeq(saved, Len(saved) - max_size + 1, Len(saved))
                     ELSE saved, Current)

HUndo == Undo /\ saved' = SavedPopBack
HMerge == Merge /\ saved' = SavedPopBack
HCommit == Commit /\ UNCHANGED saved
HPopCommit == PopCommit /\ saved' = SavedPopBack
HSetMaxSize(m) == SetMaxSize(m) /\ UNCHANGED saved
HSwitch == (Disable \/ Enable) /\ UNCHANGED saved

HNext ==
  \/ \E t \in Types, v \in Values : HCreate(t, v)
  \/ \E o \in Object, v \in Values : HModify(o, v)
  \/ \E o \in Object : HRemove(o)
  \/ \E force_enable \in BOOLEAN : HStart(force_enable)
  \/ HUndo
  \/ HMerge
  \/ HCommit
  \/ HPopCommit
  \/ \E m \in MaxSizes : HSetMaxSize(m)
  \/ HSwitch

HSpec == HInit /\ [][HNext]_historyVars

-----------------------------------------------------------------------------
Snapshot == [objects : [Object -> Values \cup {None}],
             next_id : [Types -> NextIds]]

\* Every variable keeps its type.  While undo is disabled there is nothing
\* to undo, and while a session is live undo is enabled; only the outermost
\* session can have been forced.
TypeOK ==
  /\ objects \in [Object -> Values \cup {None}]
  /\ next_id \in [Types -> NextIds]
  /\ stack \in Seq(UndoState)
  /\ sessions \in Seq(BOOLEAN)
  /\ disabled \in BOOLEAN
  /\ max_size \in MaxSizes
  /\ saved \in Seq(Snapshot)
  /\ Len(saved) = Len(stack)
  /\ Len(sessions) <= MaxDepth
  /\ Len(sessions) <= Len(stack)
  /\ disabled => stack = <<>> /\ sessions = <<>>
  /\ \A i \in 1 .. Len(sessions) : sessions[i] => i = 1 /\ Len(stack) = Len(sessions)

(***************************************************************************)
(* The database above stack[i]: the next savepoint, or the database now.   *)
(***************************************************************************)
Above(i) == IF i = Len(saved) THEN Current ELSE saved[i + 1]

Fresh(snap) ==
  \A o \in Object : snap.objects[o] # None => o[2] < snap.next_id[o[1]]

(***************************************************************************)
(* An undo_state describes the difference between the database below it    *)
(* and the database above it, object by object and index by index.         *)
(***************************************************************************)
Describes(state, below, above) ==
  /\ \A o \in Object :
       /\ o \in state.new_ids <=>
            below.objects[o] = None /\ above.objects[o] # None
       /\ o \in state.new_ids => o[2] >= below.next_id[o[1]]
       /\ state.old_values[o] # None =>
            state.old_values[o] = below.objects[o] /\ above.objects[o] # None
       /\ state.removed[o] # None =>
            state.removed[o] = below.objects[o] /\ above.objects[o] = None
       /\ state.old_values[o] = None /\ state.removed[o] = None
            /\ o \notin state.new_ids => below.objects[o] = above.objects[o]
  /\ \A t \in Types :
       /\ below.next_id[t] <= above.next_id[t]
       /\ IF state.old_index_next_ids[t] = NoId
          THEN below.next_id[t] = above.next_id[t]
          ELSE below.next_id[t] = state.old_index_next_ids[t]

\* Each entry of the stack records exactly what changed between the savepoint
\* it belongs to and the next one, however sessions were nested, merged,
\* undone and trimmed in between; and no index has handed out an id at or
\* above its next id (undo_database.cpp, on_create to pop_commit).
StackDescribesHistory ==
  /\ Fresh(Current)
  /\ \A i \in 1 .. Len(saved) :
       /\ Fresh(saved[i])
       /\ Describes(stack[i], saved[i], Above(i))

\* The combinations that the comment in undo_database::merge marks N/A, and
\* that the code does not handle, never meet in two neighbouring states.
CausalTiming ==
  \A i \in 1 .. Len(stack) - 1 : \A o \in Object :
    LET A == stack[i]
        B == stack[i + 1]
    IN /\ o \in B.new_ids =>
            /\ o \notin A.new_ids
            /\ A.old_values[o] = None
            /\ A.removed[o] = None
       /\ A.removed[o] # None =>
            B.old_values[o] = None /\ B.removed[o] = None

\* undo, run by a session's destructor, and pop_commit never throw half way:
\* every object to modify or remove exists, and every removed object's place
\* is free (object_database::get_object, generic_index::insert).
RevertNeverThrows ==
  stack # <<>> => Revertible(Back, objects)

\* undo restores the database as it was when its session began; merge keeps
\* the older savepoint valid; a change spoils none; trimming the stack never
\* drops the state of a live session: the undo database implements nested
\* savepoints.
Snapshots == INSTANCE SnapshotStack WITH live <- Len(sessions)
ImplementsSnapshots == Snapshots!SSpec
=============================================================================
