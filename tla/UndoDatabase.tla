---------------------------- MODULE UndoDatabase ----------------------------
(***************************************************************************)
(* graphene::db::undo_database together with the objects it protects.      *)
(* Every create, modify and remove of an object goes through the primary   *)
(* index, which tells the undo database first; the undo database records   *)
(* the change in the undo_state at the back of a stack, so that the change *)
(* can be reverted, merged into the state below or committed.              *)
(*                                                                         *)
(* An object is named by its type and its instance number, its contents    *)
(* are one model value.  The maps of an undo_state are total functions     *)
(* with None (NoId) for "no entry".                                        *)
(***************************************************************************)
EXTENDS Integers, Sequences

CONSTANTS Types,        \* the (space, type) pairs that have an index
          Values,       \* the contents an object may have
          None,         \* no object, or no entry of an undo_state
          MaxInstance,  \* bound: largest instance number used
          MaxSizes,     \* the values set_max_size is called with
          MaxDepth      \* nesting of sessions: pending, transaction, proposal

(***************************************************************************)
(* update_global_dynamic_data never sets a maximum below 2, and sessions   *)
(* nest at most three deep (a block, or the pending block and one          *)
(* transaction, and in it one proposal; proposals hold no proposals), so a *)
(* stack of max_size + 1 entries has room for every live session.          *)
(***************************************************************************)
ASSUME NoneAssumption == None \notin Values
ASSUME InstanceAssumption == MaxInstance \in Nat
ASSUME DepthAssumption ==
  /\ MaxSizes \subseteq Nat \ {0}
  /\ MaxSizes # {}
  /\ MaxDepth \in Nat
  /\ \A m \in MaxSizes : MaxDepth <= m + 1

VARIABLES objects,   \* the indexes: contents of each object, or None
          next_id,   \* index::get_next_id, per type
          stack,     \* undo_database::_stack
          sessions,  \* live sessions, innermost last: their _disable_on_exit
          disabled,  \* undo_database::_disabled
          max_size   \* undo_database::_max_size

vars == <<objects, next_id, stack, sessions, disabled, max_size>>

Instances == 0 .. MaxInstance
Object == Types \X Instances
NoId == -1
NextIds == 0 .. MaxInstance + 1

(***************************************************************************)
(* undo_state                                                              *)
(***************************************************************************)
UndoState ==
  [old_values : [Object -> Values \cup {None}],
   old_index_next_ids : [Types -> NextIds \cup {NoId}],
   new_ids : SUBSET Object,
   removed : [Object -> Values \cup {None}]]

EmptyState ==
  [old_values |-> [o \in Object |-> None],
   old_index_next_ids |-> [t \in Types |-> NoId],
   new_ids |-> {},
   removed |-> [o \in Object |-> None]]

OnCreate(state, o) ==
  [state EXCEPT
     !.old_index_next_ids[o[1]] = IF @ = NoId THEN o[2] ELSE @,
     !.new_ids = @ \cup {o}]

\* Mutant: the value of an object created in this state is kept too.
ModifyKeepsNew(state, o) ==
  IF state.old_values[o] # None
  THEN state
  ELSE [state EXCEPT !.old_values[o] = objects[o]]

OnModify(state, o) ==
  IF o \in state.new_ids \/ state.old_values[o] # None
  THEN state
  ELSE [state EXCEPT !.old_values[o] = objects[o]]

\* Mutant: an object created in this state stays in new_ids.
RemoveForgetsNew(state, o) ==
  IF o \in state.new_ids \/ state.removed[o] # None
  THEN state
  ELSE IF state.old_values[o] # None
  THEN [state EXCEPT !.removed[o] = state.old_values[o],
                     !.old_values[o] = None]
  ELSE [state EXCEPT !.removed[o] = objects[o]]

OnRemove(state, o) ==
  IF o \in state.new_ids
  THEN [state EXCEPT !.new_ids = @ \ {o}]
  ELSE IF state.old_values[o] # None
  THEN [state EXCEPT !.removed[o] = state.old_values[o],
                     !.old_values[o] = None]
  ELSE IF state.removed[o] # None
  THEN state
  ELSE [state EXCEPT !.removed[o] = objects[o]]

(***************************************************************************)
(* The state a change is recorded in, and the stack with that state        *)
(* replaced.  An empty stack gets a first entry on demand.                 *)
(***************************************************************************)
Back == IF stack = <<>> THEN EmptyState ELSE stack[Len(stack)]

Record(state) ==
  IF disabled THEN stack
  ELSE IF stack = <<>> THEN <<state>>
  ELSE [stack EXCEPT ![Len(stack)] = state]

(***************************************************************************)
(* The loops of undo and of pop_commit: old values are put back, new       *)
(* objects removed, next ids reset, removed objects inserted.              *)
(***************************************************************************)
RevertObjects(state, objs) ==
  [o \in Object |->
     IF state.removed[o] # None THEN state.removed[o]
     ELSE IF o \in state.new_ids THEN None
     ELSE IF state.old_values[o] # None THEN state.old_values[o]
     ELSE objs[o]]

\* Mutant: an index without an entry goes back to its first id.
RevertToFirstId(state, ids) ==
  [t \in Types |-> IF state.old_index_next_ids[t] # NoId
                   THEN state.old_index_next_ids[t]
                   ELSE 0]

RevertNextIds(state, ids) ==
  [t \in Types |-> IF state.old_index_next_ids[t] # NoId
                   THEN state.old_index_next_ids[t]
                   ELSE ids[t]]

(***************************************************************************)
(* What those loops need in order not to throw: get_object finds what it   *)
(* modifies and removes, insert finds the place free.                      *)
(***************************************************************************)
Revertible(state, objs) ==
  /\ \A o \in Object : state.old_values[o] # None => objs[o] # None
  /\ \A o \in state.new_ids : objs[o] # None
  /\ \A o \in Object :
       state.removed[o] # None => objs[o] = None \/ o \in state.new_ids

(***************************************************************************)
(* merge: prev is the state below, state the one that is merged into it.   *)
(* The three loops run in this order, so the *+del loop sees the entries   *)
(* that the *+upd and *+new loops have put into prev.                      *)
(***************************************************************************)
MergeUpd(prev, state) ==
  [prev EXCEPT !.old_values =
     [o \in Object |->
        IF o \in prev.new_ids \/ prev.old_values[o] # None
        THEN prev.old_values[o] ELSE state.old_values[o]]]

MergeNew(prev, state) ==
  [prev EXCEPT
     !.new_ids = @ \cup state.new_ids,
     !.old_index_next_ids =
        [t \in Types |-> IF prev.old_index_next_ids[t] = NoId
                         THEN state.old_index_next_ids[t]
                         ELSE prev.old_index_next_ids[t]]]

\* Mutant: the value to restore is the one of the inner session.
MergeDelKeepsInner(prev, state) ==
  LET gone == {o \in Object : state.removed[o] # None}
  IN [prev EXCEPT
        !.new_ids = @ \ gone,
        !.removed = [o \in Object |->
           IF o \notin gone \/ o \in prev.new_ids THEN prev.removed[o]
           ELSE state.removed[o]],
        !.old_values = [o \in Object |->
           IF o \in gone /\ o \notin prev.new_ids THEN None
           ELSE prev.old_values[o]]]

MergeDel(prev, state) ==
  LET gone == {o \in Object : state.removed[o] # None}
  IN [prev EXCEPT
        !.new_ids = @ \ gone,
        !.removed = [o \in Object |->
           IF o \notin gone \/ o \in prev.new_ids THEN prev.removed[o]
           ELSE IF prev.old_values[o] # None THEN prev.old_values[o]
           ELSE state.removed[o]],
        !.old_values = [o \in Object |->
           IF o \in gone /\ o \notin prev.new_ids THEN None
           ELSE prev.old_values[o]]]

MergeStates(prev, state) ==
  MergeDel(MergeNew(MergeUpd(prev, state), state), state)

-----------------------------------------------------------------------------
Init ==
  /\ objects = [o \in Object |-> None]
  /\ next_id = [t \in Types |-> 0]
  /\ stack = <<>>
  /\ sessions = <<>>
  /\ disabled = TRUE
  /\ max_size \in MaxSizes

(***************************************************************************)
(* primary_index::create, modify and remove.                               *)
(***************************************************************************)
Create(t, v) ==
  LET o == <<t, next_id[t]>>
  IN /\ next_id[t] \in Instances
     /\ objects[o] = None
     /\ objects' = [objects EXCEPT ![o] = v]
     /\ next_id' = [next_id EXCEPT ![t] = @ + 1]
     /\ stack' = Record(OnCreate(Back, o))
     /\ UNCHANGED <<sessions, disabled, max_size>>

Modify(o, v) ==
  /\ objects[o] # None
  /\ objects' = [objects EXCEPT ![o] = v]
  /\ stack' = Record(OnModify(Back, o))
  /\ UNCHANGED <<next_id, sessions, disabled, max_size>>

Remove(o) ==
  /\ objects[o] # None
  /\ objects' = [objects EXCEPT ![o] = None]
  /\ stack' = Record(OnRemove(Back, o))
  /\ UNCHANGED <<next_id, sessions, disabled, max_size>>

(***************************************************************************)
(* start_undo_session.  Outside a forced session the callers open one only *)
(* while undo is enabled.                                                  *)
(***************************************************************************)
Kept ==
  IF Len(stack) > max_size
  THEN SubSeq(stack, Len(stack) - max_size + 1, Len(stack))
  ELSE stack

StartUndoSession(force_enable) ==
  /\ ~disabled \/ force_enable
  /\ Len(sessions) < MaxDepth
  /\ sessions' = Append(sessions, disabled)
  /\ disabled' = FALSE
  /\ stack' = Append(Kept, EmptyState)
  /\ UNCHANGED <<objects, next_id, max_size>>

(***************************************************************************)
(* The end of a session: its undo or merge, then its destructor, which     *)
(* disables undo again if this session had enabled it.                     *)
(***************************************************************************)
\* Mutant: every session of a forced one disables undo when it ends.
EndSessionDisables ==
  /\ sessions' = SubSeq(sessions, 1, Len(sessions) - 1)
  /\ disabled' = sessions[1]

EndSession ==
  /\ sessions' = SubSeq(sessions, 1, Len(sessions) - 1)
  /\ disabled' = sessions[Len(sessions)]

PopBack == SubSeq(stack, 1, Len(stack) - 1)

Undo ==
  /\ sessions # <<>>
  /\ ~disabled
  /\ stack # <<>>
  /\ Revertible(Back, objects)
  /\ objects' = RevertObjects(Back, objects)
  /\ next_id' = RevertNextIds(Back, next_id)
  /\ stack' = PopBack
  /\ EndSession
  /\ UNCHANGED max_size

Merge ==
  /\ sessions # <<>>
  /\ \/ /\ Len(sessions) = 1 /\ Len(stack) = 1
        /\ stack' = <<>>
     \/ /\ Len(stack) >= 2
        /\ stack' = [PopBack EXCEPT ![Len(stack) - 1] =
                       MergeStates(stack[Len(stack) - 1], Back)]
  /\ EndSession
  /\ UNCHANGED <<objects, next_id, max_size>>

(***************************************************************************)
(* Only the session of a whole block is committed, and it is the only one. *)
(***************************************************************************)
Commit ==
  /\ sessions = <<FALSE>>
  /\ EndSession
  /\ UNCHANGED <<objects, next_id, stack, max_size>>

PopCommit ==
  /\ sessions = <<>>
  /\ stack # <<>>
  /\ Revertible(Back, objects)
  /\ objects' = RevertObjects(Back, objects)
  /\ next_id' = RevertNextIds(Back, next_id)
  /\ stack' = PopBack
  /\ disabled' = FALSE
  /\ UNCHANGED <<sessions, max_size>>

SetMaxSize(m) ==
  /\ max_size' = m
  /\ UNCHANGED <<objects, next_id, stack, sessions, disabled>>

(***************************************************************************)
(* init_genesis and reindex switch undo off while nothing is on the stack. *)
(***************************************************************************)
Disable ==
  /\ stack = <<>> /\ sessions = <<>>
  /\ ~disabled
  /\ disabled' = TRUE
  /\ UNCHANGED <<objects, next_id, stack, sessions, max_size>>

Enable ==
  /\ sessions = <<>>
  /\ disabled
  /\ disabled' = FALSE
  /\ UNCHANGED <<objects, next_id, stack, sessions, max_size>>
=============================================================================
