----------------------------- MODULE UndoProofs -----------------------------
(***************************************************************************)
(* Theorems about the undo database, for every set of types and values,    *)
(* every number of instances and every admissible maximum stack size.      *)
(***************************************************************************)
EXTENDS UndoHistory, SequenceTheorems, TLAPS

-----------------------------------------------------------------------------
(***************************************************************************)
(* The sequence operations that the undo database applies to its stack.    *)
(***************************************************************************)

\* Dropping the last entry (_stack.pop_back) keeps the others where they are.
LEMMA PopBackFacts ==
  ASSUME NEW S, NEW s \in Seq(S), s # <<>>
  PROVE  /\ Len(s) \in Nat \ {0}
         /\ s[Len(s)] \in S
         /\ SubSeq(s, 1, Len(s) - 1) \in Seq(S)
         /\ Len(SubSeq(s, 1, Len(s) - 1)) = Len(s) - 1
         /\ \A i \in 1 .. Len(s) - 1 : SubSeq(s, 1, Len(s) - 1)[i] = s[i]
<1>1. Len(s) \in Nat \ {0}
  BY EmptySeq
<1>2. \A i \in 1 .. Len(s) : s[i] \in S
  BY ElementOfSeq
<1> DEFINE n == Len(s) - 1
<1>3. n \in Nat
  BY <1>1
<1>4. \A i \in 1 .. n : s[i] \in S
  BY <1>1, <1>2
<1> HIDE DEF n
<1>5. /\ SubSeq(s, 1, n) \in Seq(S)
      /\ Len(SubSeq(s, 1, n)) = n
      /\ \A i \in 1 .. n : SubSeq(s, 1, n)[i] = s[i]
  BY <1>3, <1>4, SubSeqProperties
<1> QED
  BY <1>1, <1>2, <1>5 DEF n

\* Keeping the newest m entries (the pop_front loop) shifts them to the front.
LEMMA KeepFacts ==
  ASSUME NEW S, NEW s \in Seq(S), NEW m \in Nat \ {0}, Len(s) > m
  PROVE  /\ SubSeq(s, Len(s) - m + 1, Len(s)) \in Seq(S)
         /\ Len(SubSeq(s, Len(s) - m + 1, Len(s))) = m
         /\ \A i \in 1 .. m :
              SubSeq(s, Len(s) - m + 1, Len(s))[i] = s[Len(s) - m + i]
<1>1. Len(s) \in Nat
  BY LenProperties
<1>2. \A i \in (Len(s) - m + 1) .. Len(s) : s[i] \in S
  BY <1>1, ElementOfSeq
<1> QED
  BY <1>1, <1>2, SubSeqProperties

\* Appending an entry (_stack.emplace_back).
LEMMA AppendFacts ==
  ASSUME NEW S, NEW s \in Seq(S), NEW e \in S
  PROVE  /\ Append(s, e) \in Seq(S)
         /\ Len(Append(s, e)) = Len(s) + 1
         /\ Append(s, e)[Len(s) + 1] = e
         /\ \A i \in 1 .. Len(s) : Append(s, e)[i] = s[i]
  BY LenProperties

-----------------------------------------------------------------------------
(***************************************************************************)
(* Types of the operators on undo states.                                  *)
(***************************************************************************)

\* The state that emplace_back puts on the stack is an undo_state.
LEMMA EmptyStateType == EmptyState \in UndoState
  BY DEF EmptyState, UndoState

\* on_create, on_modify and on_remove turn an undo_state into an undo_state.
LEMMA OnChangeType ==
  ASSUME NEW state \in UndoState, NEW o \in Object,
         objects \in [Object -> Values \cup {None}]
  PROVE  /\ OnCreate(state, o) \in UndoState
         /\ OnModify(state, o) \in UndoState
         /\ OnRemove(state, o) \in UndoState
<1>1. o[1] \in Types /\ o[2] \in NextIds
  BY InstanceAssumption DEF Object, NextIds, Instances
<1>2. OnCreate(state, o) \in UndoState
  BY <1>1 DEF OnCreate, UndoState
<1>3. OnModify(state, o) \in UndoState
  BY DEF OnModify, UndoState
<1>4. OnRemove(state, o) \in UndoState
  BY DEF OnRemove, UndoState
<1> QED
  BY <1>2, <1>3, <1>4

\* merge turns two undo_states into one.
LEMMA MergeStatesType ==
  ASSUME NEW prev \in UndoState, NEW state \in UndoState
  PROVE  MergeStates(prev, state) \in UndoState
<1>1. ASSUME NEW p \in UndoState
      PROVE  /\ MergeUpd(p, state) \in UndoState
             /\ MergeNew(p, state) \in UndoState
             /\ MergeDel(p, state) \in UndoState
  <2>1. MergeUpd(p, state) \in UndoState
    BY DEF MergeUpd, UndoState
  <2>2. MergeNew(p, state) \in UndoState
    BY DEF MergeNew, UndoState
  <2>3. MergeDel(p, state) \in UndoState
    BY DEF MergeDel, UndoState
  <2> QED
    BY <2>1, <2>2, <2>3
<1> QED
  BY <1>1 DEF MergeStates

\* Reverting an undo_state yields a database again.
LEMMA RevertType ==
  ASSUME NEW state \in UndoState,
         NEW objs \in [Object -> Values \cup {None}],
         NEW ids \in [Types -> NextIds]
  PROVE  /\ RevertObjects(state, objs) \in [Object -> Values \cup {None}]
         /\ RevertNextIds(state, ids) \in [Types -> NextIds]
<1>1. RevertObjects(state, objs) \in [Object -> Values \cup {None}]
  BY DEF RevertObjects, UndoState
<1>2. RevertNextIds(state, ids) \in [Types -> NextIds]
  BY DEF RevertNextIds, UndoState
<1> QED
  BY <1>1, <1>2
\* Recording a change (the _disabled and _stack.empty() cases of on_create,
\* on_modify and on_remove) replaces the back of the stack, or starts it.
LEMMA RecordFacts ==
  ASSUME TypeOK, NEW state \in UndoState
  PROVE  /\ Record(state) \in Seq(UndoState)
         /\ disabled => Record(state) = stack
         /\ ~disabled /\ stack = <<>> =>
              Len(Record(state)) = 1 /\ Record(state)[1] = state
         /\ ~disabled /\ stack # <<>> =>
              /\ Len(Record(state)) = Len(stack)
              /\ Record(state)[Len(stack)] = state
              /\ \A i \in 1 .. Len(stack) - 1 : Record(state)[i] = stack[i]
<1>1. stack \in Seq(UndoState)
  BY DEF TypeOK
<1>2. CASE disabled
  BY <1>1, <1>2 DEF Record
<1>3. CASE ~disabled /\ stack = <<>>
  BY <1>3 DEF Record
<1>4. CASE ~disabled /\ stack # <<>>
  <2>1. Len(stack) \in Nat \ {0}
    BY <1>1, <1>4, EmptySeq
  <2> QED
    BY <1>1, <1>4, <2>1, ExceptSeq DEF Record
<1> QED
  BY <1>2, <1>3, <1>4

\* The back of the stack is an undo_state.
LEMMA BackType ==
  ASSUME TypeOK
  PROVE  Back \in UndoState
  BY EmptyStateType, PopBackFacts DEF TypeOK, Back

\* start_undo_session keeps every entry, or the newest max_size of them.
LEMMA KeptFacts ==
  ASSUME TypeOK
  PROVE  /\ Kept \in Seq(UndoState)
         /\ Len(stack) > max_size =>
              /\ Len(Kept) = max_size
              /\ \A i \in 1 .. max_size :
                   Kept[i] = stack[Len(stack) - max_size + i]
         /\ Len(stack) <= max_size => Kept = stack
<1>1. stack \in Seq(UndoState) /\ max_size \in Nat \ {0} /\ Len(stack) \in Nat
  BY DepthAssumption, LenProperties DEF TypeOK
<1> QED
  BY <1>1, KeepFacts DEF Kept

-----------------------------------------------------------------------------
(***************************************************************************)
(* The part of TypeOK that relates sessions, stack and the switch.         *)
(***************************************************************************)
SessionsOK ==
  /\ sessions \in Seq(BOOLEAN)
  /\ disabled \in BOOLEAN
  /\ max_size \in MaxSizes
  /\ Len(sessions) <= MaxDepth
  /\ Len(sessions) <= Len(stack)
  /\ disabled => stack = <<>> /\ sessions = <<>>
  /\ \A i \in 1 .. Len(sessions) :
       sessions[i] => i = 1 /\ Len(stack) = Len(sessions)

StorageOK ==
  /\ objects \in [Object -> Values \cup {None}]
  /\ next_id \in [Types -> NextIds]
  /\ stack \in Seq(UndoState)
  /\ saved \in Seq(Snapshot)
  /\ Len(saved) = Len(stack)

\* A recorded change: what is left to check is that the database keeps its
\* type.
LEMMA ChangePreservesType ==
  ASSUME TypeOK, Changed, NEW state \in UndoState,
         stack' = Record(state),
         objects' \in [Object -> Values \cup {None}],
         next_id' \in [Types -> NextIds],
         UNCHANGED <<sessions, disabled, max_size>>
  PROVE  TypeOK'
<1>1. Current \in Snapshot
  BY DEF TypeOK, Current, Snapshot
<1>2. /\ stack' \in Seq(UndoState)
      /\ Len(stack') >= Len(stack)
      /\ stack # <<>> => Len(stack') = Len(stack)
      /\ disabled => stack' = stack
      /\ ~disabled /\ stack = <<>> => Len(stack') = 1
  BY RecordFacts, LenProperties DEF TypeOK
<1>3. saved' \in Seq(Snapshot) /\ Len(saved') = Len(stack')
  <2>1. saved = <<>> <=> stack = <<>>
    BY EmptySeq DEF TypeOK
  <2> QED
    BY <1>1, <1>2, <2>1 DEF TypeOK, Changed
<1>4. sessions # <<>> => stack # <<>>
  BY EmptySeq DEF TypeOK
<1> QED
  BY <1>2, <1>3, <1>4 DEF TypeOK

\* The end of a session by undo or merge.
LEMMA EndPreservesSessions ==
  ASSUME TypeOK, sessions # <<>>, EndSession,
         stack' \in Seq(UndoState), Len(stack') = Len(stack) - 1,
         UNCHANGED max_size
  PROVE  SessionsOK'
<1>1. /\ Len(sessions) \in Nat \ {0}
      /\ sessions[Len(sessions)] \in BOOLEAN
      /\ sessions' \in Seq(BOOLEAN)
      /\ Len(sessions') = Len(sessions) - 1
      /\ \A i \in 1 .. Len(sessions) - 1 : sessions'[i] = sessions[i]
  BY PopBackFacts DEF TypeOK, EndSession
<1>2. Len(stack) \in Nat
  BY LenProperties DEF TypeOK
<1>3. disabled' => stack' = <<>> /\ sessions' = <<>>
  <2> SUFFICES ASSUME disabled' PROVE Len(stack') = 0 /\ Len(sessions') = 0
    BY <1>1, EmptySeq
  <2>1. sessions[Len(sessions)]
    BY DEF EndSession
  <2>2. Len(sessions) \in 1 .. Len(sessions)
    BY <1>1
  <2>3. Len(sessions) = 1 /\ Len(stack) = Len(sessions)
    BY <2>1, <2>2, Zenon DEF TypeOK
  <2> QED
    BY <1>1, <2>3
<1>4. Len(sessions') <= MaxDepth /\ Len(sessions') <= Len(stack')
  BY <1>1, <1>2, DepthAssumption DEF TypeOK
<1>5. \A i \in 1 .. Len(sessions') :
        sessions'[i] => i = 1 /\ Len(stack') = Len(sessions')
  BY <1>1, <1>2 DEF TypeOK
<1>6. disabled' \in BOOLEAN /\ max_size' \in MaxSizes
  BY <1>1 DEF TypeOK, EndSession
<1> QED
  BY <1>1, <1>3, <1>4, <1>5, <1>6 DEF SessionsOK

\* Without a live session, and with undo enabled, there is little to check.
LEMMA NoSessionsOK ==
  ASSUME sessions' = <<>>, disabled' = FALSE, max_size' \in MaxSizes,
         Len(stack') \in Nat
  PROVE  SessionsOK'
<1>1. sessions' \in Seq(BOOLEAN) /\ Len(sessions') = 0
  BY EmptySeq
<1>2. 1 .. Len(sessions') = {}
  BY <1>1
<1>3. Len(sessions') <= MaxDepth /\ Len(sessions') <= Len(stack')
  BY <1>1, DepthAssumption
<1> QED
  BY <1>1, <1>2, <1>3, Zenon DEF SessionsOK

\* Every step of the undo database preserves its types.
LEMMA TypeStep == TypeOK /\ [HNext]_historyVars => TypeOK'
<1> SUFFICES ASSUME TypeOK, [HNext]_historyVars PROVE TypeOK'
  OBVIOUS
<1>t. /\ Len(stack) \in Nat
      /\ Len(saved) = Len(stack)
      /\ stack # <<>> <=> saved # <<>>
      /\ sessions # <<>> => stack # <<>>
  BY EmptySeq, LenProperties DEF TypeOK
<1>p. saved # <<>> =>
        /\ SavedPopBack \in Seq(Snapshot)
        /\ Len(SavedPopBack) = Len(saved) - 1
  BY PopBackFacts DEF TypeOK, SavedPopBack
<1>q. stack # <<>> =>
        /\ PopBack \in Seq(UndoState)
        /\ Len(PopBack) = Len(stack) - 1
        /\ Len(stack) \in Nat \ {0}
  BY PopBackFacts DEF TypeOK, PopBack
<1>1. ASSUME NEW t \in Types, NEW v \in Values, HCreate(t, v) PROVE TypeOK'
  <2>1. <<t, next_id[t]>> \in Object
    BY <1>1 DEF HCreate, Create, Object
  <2>2. OnCreate(Back, <<t, next_id[t]>>) \in UndoState
    BY <2>1, BackType, OnChangeType DEF TypeOK
  <2>3. objects' \in [Object -> Values \cup {None}]
    BY <1>1 DEF HCreate, Create, TypeOK
  <2>4. next_id' \in [Types -> NextIds]
    BY <1>1, InstanceAssumption DEF HCreate, Create, TypeOK, NextIds, Instances
  <2> QED
    BY <1>1, <2>2, <2>3, <2>4, ChangePreservesType DEF HCreate, Create
<1>2. ASSUME NEW o \in Object, NEW v \in Values, HModify(o, v) PROVE TypeOK'
  <2>1. OnModify(Back, o) \in UndoState
    BY BackType, OnChangeType DEF TypeOK
  <2>2. objects' \in [Object -> Values \cup {None}] /\ next_id' \in [Types -> NextIds]
    BY <1>2 DEF HModify, Modify, TypeOK
  <2> QED
    BY <1>2, <2>1, <2>2, ChangePreservesType DEF HModify, Modify
<1>3. ASSUME NEW o \in Object, HRemove(o) PROVE TypeOK'
  <2>1. OnRemove(Back, o) \in UndoState
    BY BackType, OnChangeType DEF TypeOK
  <2>2. objects' \in [Object -> Values \cup {None}] /\ next_id' \in [Types -> NextIds]
    BY <1>3 DEF HRemove, Remove, TypeOK
  <2> QED
    BY <1>3, <2>1, <2>2, ChangePreservesType DEF HRemove, Remove
<1>4. ASSUME NEW force_enable \in BOOLEAN, HStart(force_enable) PROVE TypeOK'
  <2>m. max_size \in Nat \ {0} /\ MaxDepth \in Nat /\ MaxDepth <= max_size + 1
    BY DepthAssumption DEF TypeOK
  <2>1. /\ Kept \in Seq(UndoState)
        /\ Len(Kept) = IF Len(stack) > max_size THEN max_size ELSE Len(stack)
        /\ Len(Kept) \in Nat
    BY <1>t, <2>m, KeptFacts, LenProperties
  <2>2. stack' \in Seq(UndoState) /\ Len(stack') = Len(Kept) + 1
    BY <1>4, <2>1, AppendFacts, EmptyStateType DEF HStart, StartUndoSession
  <2>3. saved' \in Seq(Snapshot) /\ Len(saved') = Len(stack')
    <3> DEFINE k == IF Len(saved) > max_size
                    THEN SubSeq(saved, Len(saved) - max_size + 1, Len(saved))
                    ELSE saved
    <3>1. k \in Seq(Snapshot) /\ Len(k) = Len(Kept)
      BY <1>t, <2>m, <2>1, KeepFacts DEF TypeOK
    <3>2. Current \in Snapshot
      BY DEF TypeOK, Current, Snapshot
    <3>3. saved' = Append(k, Current)
      BY <1>4 DEF HStart
    <3> HIDE DEF k
    <3> QED
      BY <2>2, <3>1, <3>2, <3>3, AppendFacts
  <2>4. /\ sessions' \in Seq(BOOLEAN)
        /\ Len(sessions') = Len(sessions) + 1
        /\ sessions'[Len(sessions) + 1] = disabled
        /\ \A i \in 1 .. Len(sessions) : sessions'[i] = sessions[i]
        /\ Len(sessions) \in Nat
        /\ Len(sessions) < MaxDepth
    BY <1>4, AppendFacts, LenProperties DEF HStart, StartUndoSession, TypeOK
  <2>5. Len(sessions') <= MaxDepth /\ Len(sessions') <= Len(stack')
    BY <1>t, <2>m, <2>1, <2>2, <2>4 DEF TypeOK
  <2>6. \A i \in 1 .. Len(sessions') :
          sessions'[i] => i = 1 /\ Len(stack') = Len(sessions')
    <3> SUFFICES ASSUME NEW i \in 1 .. Len(sessions'), sessions'[i]
                 PROVE  i = 1 /\ Len(stack') = Len(sessions')
      OBVIOUS
    <3>1. CASE i = Len(sessions) + 1
      <4>1. disabled
        BY <2>4, <3>1
      <4>2. Len(stack) = 0 /\ Len(sessions) = 0
        BY <4>1, EmptySeq DEF TypeOK
      <4> QED
        BY <2>m, <2>1, <2>2, <2>4, <3>1, <4>2
    <3>2. CASE i \in 1 .. Len(sessions)
      <4>1. i = 1 /\ Len(stack) = Len(sessions)
        BY <2>4, <3>2 DEF TypeOK
      <4> QED
        BY <2>m, <2>1, <2>2, <2>4, <4>1
    <3> QED
      BY <2>4, <3>1, <3>2
  <2>7. StorageOK'
    BY <1>4, <2>2, <2>3 DEF StorageOK, HStart, StartUndoSession, TypeOK
  <2>8. SessionsOK'
    BY <1>4, <2>4, <2>5, <2>6 DEF SessionsOK, HStart, StartUndoSession, TypeOK
  <2> QED
    BY <2>7, <2>8 DEF TypeOK, StorageOK, SessionsOK
<1>5. CASE HUndo
  <2>1. stack # <<>> /\ stack' = PopBack /\ saved' = SavedPopBack
    BY <1>5 DEF HUndo, Undo
  <2>2. objects' \in [Object -> Values \cup {None}] /\ next_id' \in [Types -> NextIds]
    BY <1>5, BackType, RevertType DEF HUndo, Undo, TypeOK
  <2>3. StorageOK'
    BY <1>t, <1>p, <1>q, <2>1, <2>2 DEF StorageOK
  <2>4. SessionsOK'
    BY <1>5, <1>q, <2>1, EndPreservesSessions DEF HUndo, Undo
  <2> QED
    BY <2>3, <2>4 DEF TypeOK, StorageOK, SessionsOK
<1>6. CASE HMerge
  <2>0. sessions # <<>> /\ stack # <<>>
    BY <1>6, <1>t DEF HMerge, Merge
  <2>1. stack' \in Seq(UndoState) /\ Len(stack') = Len(stack) - 1
    <3>1. CASE Len(stack) = 1 /\ stack' = <<>>
      BY <3>1, EmptySeq
    <3>2. CASE /\ Len(stack) >= 2
               /\ stack' = [PopBack EXCEPT ![Len(stack) - 1] =
                              MergeStates(stack[Len(stack) - 1], Back)]
      <4>1. stack[Len(stack) - 1] \in UndoState
        BY <1>t, <3>2, ElementOfSeq DEF TypeOK
      <4>2. MergeStates(stack[Len(stack) - 1], Back) \in UndoState
        BY <4>1, BackType, MergeStatesType
      <4>3. Len(stack) - 1 \in 1 .. Len(PopBack)
        BY <1>t, <1>q, <2>0, <3>2
      <4> QED
        BY <1>q, <2>0, <3>2, <4>2, <4>3, ExceptSeq
    <3> QED
      BY <1>6, <3>1, <3>2 DEF HMerge, Merge
  <2>2. SessionsOK'
    BY <1>6, <2>0, <2>1, EndPreservesSessions DEF HMerge, Merge
  <2>3. saved' \in Seq(Snapshot) /\ Len(saved') = Len(stack')
    BY <1>6, <1>t, <1>p, <2>0, <2>1 DEF HMerge
  <2>4. StorageOK'
    BY <1>6, <2>1, <2>3 DEF StorageOK, HMerge, Merge, TypeOK
  <2> QED
    BY <2>2, <2>4 DEF TypeOK, StorageOK, SessionsOK
<1>7. CASE HCommit
  <2>1. sessions = <<FALSE>> /\ sessions' = <<>> /\ disabled' = FALSE
    BY <1>7 DEF HCommit, Commit, EndSession
  <2>3. SessionsOK'
    BY <1>7, <1>t, <2>1, NoSessionsOK DEF HCommit, Commit, TypeOK
  <2>4. StorageOK'
    BY <1>7 DEF HCommit, Commit, TypeOK, StorageOK
  <2> QED
    BY <2>3, <2>4 DEF TypeOK, StorageOK, SessionsOK
<1>8. CASE HPopCommit
  <2>1. stack # <<>> /\ stack' = PopBack /\ saved' = SavedPopBack
    BY <1>8 DEF HPopCommit, PopCommit
  <2>2. objects' \in [Object -> Values \cup {None}] /\ next_id' \in [Types -> NextIds]
    BY <1>8, BackType, RevertType DEF HPopCommit, PopCommit, TypeOK
  <2>3. StorageOK'
    BY <1>t, <1>p, <1>q, <2>1, <2>2 DEF StorageOK
  <2>4. SessionsOK'
    <3>1. sessions' = <<>> /\ disabled' = FALSE /\ max_size' = max_size
      BY <1>8 DEF HPopCommit, PopCommit
    <3>2. Len(stack') \in Nat
      BY <1>q, <2>1
    <3> QED
      BY <3>1, <3>2, NoSessionsOK DEF TypeOK
  <2> QED
    BY <2>3, <2>4 DEF TypeOK, StorageOK, SessionsOK
<1>9. ASSUME NEW m \in MaxSizes, HSetMaxSize(m) PROVE TypeOK'
  BY <1>9 DEF HSetMaxSize, SetMaxSize, TypeOK
<1>10. CASE HSwitch
  BY <1>10 DEF HSwitch, Disable, Enable, TypeOK
<1>11. CASE UNCHANGED historyVars
  BY <1>11 DEF historyVars, TypeOK
<1> QED
  BY <1>1, <1>2, <1>3, <1>4, <1>5, <1>6, <1>7, <1>8, <1>9, <1>10, <1>11
  DEF HNext

\* Every variable of the undo database keeps its type, the stack has an entry
\* for every live session whatever start_undo_session trims, and undo is
\* disabled only while there is nothing to undo.
THEOREM TypeCorrect == HSpec => []TypeOK
<1>1. HInit => TypeOK
  BY EmptySeq, DepthAssumption, InstanceAssumption
  DEF HInit, Init, TypeOK, NextIds, Object
<1> QED
  BY <1>1, TypeStep, PTL DEF HSpec
-----------------------------------------------------------------------------
(***************************************************************************)
(* Describes: how the operations on one undo state, or on two neighbouring *)
(* ones, keep its meaning.                                                 *)
(***************************************************************************)

\* A new, empty undo_state describes that nothing has changed yet.
LEMMA DescribesEmpty ==
  ASSUME NEW snap \in Snapshot
  PROVE  Describes(EmptyState, snap, snap)
<1>1. \A t \in Types : snap.next_id[t] \in Int
  BY InstanceAssumption DEF Snapshot, NextIds
<1> QED
  BY <1>1 DEF Describes, EmptyState

\* Reverting the state restores the database below it, and does not throw
\* (the loops of undo and pop_commit).
LEMMA DescribesRevert ==
  ASSUME NEW state \in UndoState, NEW below \in Snapshot, NEW above \in Snapshot,
         Describes(state, below, above)
  PROVE  /\ RevertObjects(state, above.objects) = below.objects
         /\ RevertNextIds(state, above.next_id) = below.next_id
         /\ Revertible(state, above.objects)
<1>1. /\ below.objects \in [Object -> Values \cup {None}]
      /\ below.next_id \in [Types -> NextIds]
  BY DEF Snapshot
<1>2. \A o \in Object : RevertObjects(state, above.objects)[o] = below.objects[o]
  BY DEF RevertObjects, Describes
<1>3. RevertObjects(state, above.objects) = below.objects
  BY <1>1, <1>2 DEF RevertObjects
<1>4. \A t \in Types : RevertNextIds(state, above.next_id)[t] = below.next_id[t]
  BY DEF RevertNextIds, Describes
<1>5. RevertNextIds(state, above.next_id) = below.next_id
  BY <1>1, <1>4 DEF RevertNextIds
<1>6. Revertible(state, above.objects)
  BY DEF Revertible, Describes, UndoState
<1> QED
  BY <1>3, <1>5, <1>6

\* on_create.
LEMMA DescribesCreate ==
  ASSUME TypeOK, TypeOK', NEW state \in UndoState, NEW below \in Snapshot,
         Fresh(below), Fresh(Current), Describes(state, below, Current),
         NEW t \in Types, NEW v \in Values, Create(t, v)
  PROVE  /\ Describes(OnCreate(state, <<t, next_id[t]>>), below, Current')
         /\ Fresh(Current')
<1> DEFINE o == <<t, next_id[t]>>
<1>1. /\ o \in Object /\ o[1] = t /\ o[2] = next_id[t]
      /\ objects[o] = None
      /\ objects' = [objects EXCEPT ![o] = v]
      /\ next_id' = [next_id EXCEPT ![t] = @ + 1]
      /\ v # None
  BY NoneAssumption DEF Create, Object
<1>2. /\ \A u \in Types : /\ next_id[u] \in Nat /\ below.next_id[u] \in Nat
                          /\ below.next_id[u] <= next_id[u]
      /\ \A p \in Object : p[1] \in Types /\ p[2] \in Nat
  <2>1. \A u \in Types : next_id[u] \in Nat /\ below.next_id[u] \in Nat
    BY InstanceAssumption DEF TypeOK, Snapshot, NextIds
  <2>2. \A u \in Types : below.next_id[u] <= next_id[u]
    BY DEF Describes, Current
  <2>3. \A p \in Object : p[1] \in Types /\ p[2] \in Nat
    BY InstanceAssumption DEF Object, Instances
  <2> QED
    BY <2>1, <2>2, <2>3
<1>3. below.objects[o] = None
  BY <1>1, <1>2 DEF Fresh
<1> HIDE DEF o
<1>4. Fresh(Current')
  <2> SUFFICES ASSUME NEW p \in Object, objects'[p] # None
               PROVE  p[2] < next_id'[p[1]]
    BY DEF Fresh, Current
  <2>1. CASE p = o
    BY <1>1, <1>2, <2>1 DEF TypeOK
  <2>2. CASE p # o
    <3>1. objects[p] # None
      BY <1>1, <2>2 DEF TypeOK
    <3>2. p[2] < next_id[p[1]]
      BY <3>1 DEF Fresh, Current
    <3> QED
      BY <1>1, <1>2, <3>2 DEF TypeOK
  <2> QED
    BY <2>1, <2>2
<1>5. Describes(OnCreate(state, o), below, Current')
  <2> DEFINE s == OnCreate(state, o)
  <2>1. /\ s.old_values = state.old_values
        /\ s.removed = state.removed
        /\ s.new_ids = state.new_ids \cup {o}
        /\ \A u \in Types : s.old_index_next_ids[u] =
             IF u = t /\ state.old_index_next_ids[u] = NoId
             THEN next_id[t] ELSE state.old_index_next_ids[u]
    BY <1>1 DEF OnCreate, UndoState
  <2> HIDE DEF s
  <2>2. ASSUME NEW p \in Object
        PROVE  /\ p \in s.new_ids <=>
                    below.objects[p] = None /\ objects'[p] # None
               /\ p \in s.new_ids => p[2] >= below.next_id[p[1]]
               /\ s.old_values[p] # None =>
                    s.old_values[p] = below.objects[p] /\ objects'[p] # None
               /\ s.removed[p] # None =>
                    s.removed[p] = below.objects[p] /\ objects'[p] = None
               /\ s.old_values[p] = None /\ s.removed[p] = None
                    /\ p \notin s.new_ids => below.objects[p] = objects'[p]
    <3>1. /\ objects'[p] = IF p = o THEN v ELSE objects[p]
          /\ p \in s.new_ids <=> p = o \/ p \in state.new_ids
          /\ s.old_values[p] = state.old_values[p]
          /\ s.removed[p] = state.removed[p]
      BY <1>1, <2>1 DEF TypeOK
    <3>2. /\ p \in state.new_ids <=>
               below.objects[p] = None /\ objects[p] # None
          /\ p \in state.new_ids => p[2] >= below.next_id[p[1]]
          /\ state.old_values[p] # None =>
               state.old_values[p] = below.objects[p] /\ objects[p] # None
          /\ state.removed[p] # None =>
               state.removed[p] = below.objects[p] /\ objects[p] = None
          /\ state.old_values[p] = None /\ state.removed[p] = None
               /\ p \notin state.new_ids => below.objects[p] = objects[p]
      BY DEF Describes, Current
    <3> QED
      BY <1>1, <1>2, <1>3, <3>1, <3>2
  <2>3. ASSUME NEW u \in Types
        PROVE  /\ below.next_id[u] <= next_id'[u]
               /\ IF s.old_index_next_ids[u] = NoId
                  THEN below.next_id[u] = next_id'[u]
                  ELSE below.next_id[u] = s.old_index_next_ids[u]
    <3>1. /\ next_id'[u] = IF u = t THEN next_id[u] + 1 ELSE next_id[u]
          /\ next_id[u] \in Nat /\ below.next_id[u] \in Nat
          /\ below.next_id[u] <= next_id[u]
      BY <1>1, <1>2 DEF TypeOK
    <3>2. IF state.old_index_next_ids[u] = NoId
          THEN below.next_id[u] = next_id[u]
          ELSE below.next_id[u] = state.old_index_next_ids[u]
      BY DEF Describes, Current
    <3> QED
      BY <2>1, <3>1, <3>2 DEF NoId
  <2> QED
    BY <2>2, <2>3 DEF Describes, Current, s
<1> QED
  BY <1>4, <1>5 DEF o

\* on_modify.
LEMMA DescribesModify ==
  ASSUME TypeOK, NEW state \in UndoState, NEW below \in Snapshot,
         Fresh(Current), Describes(state, below, Current),
         NEW o \in Object, NEW v \in Values, Modify(o, v)
  PROVE  /\ Describes(OnModify(state, o), below, Current')
         /\ Fresh(Current')
<1>1. /\ objects[o] # None
      /\ objects' = [objects EXCEPT ![o] = v]
      /\ next_id' = next_id
      /\ v # None
  BY NoneAssumption DEF Modify
<1>2. Fresh(Current')
  BY <1>1 DEF Fresh, Current, TypeOK
<1>3. Describes(OnModify(state, o), below, Current')
  BY <1>1 DEF Describes, OnModify, Current, TypeOK, UndoState
<1> QED
  BY <1>2, <1>3

\* on_remove.
LEMMA DescribesRemove ==
  ASSUME TypeOK, NEW state \in UndoState, NEW below \in Snapshot,
         Fresh(Current), Describes(state, below, Current),
         NEW o \in Object, Remove(o)
  PROVE  /\ Describes(OnRemove(state, o), below, Current')
         /\ Fresh(Current')
<1>1. /\ objects[o] # None
      /\ objects' = [objects EXCEPT ![o] = None]
      /\ next_id' = next_id
  BY DEF Remove
<1>2. Fresh(Current')
  BY <1>1 DEF Fresh, Current, TypeOK
<1>3. Describes(OnRemove(state, o), below, Current')
  BY <1>1 DEF Describes, OnRemove, Current, TypeOK, UndoState
<1> QED
  BY <1>2, <1>3

\* merge: the composition of two differences.
LEMMA DescribesMerge ==
  ASSUME NEW A \in UndoState, NEW B \in UndoState,
         NEW s0 \in Snapshot, NEW s1 \in Snapshot, NEW s2 \in Snapshot,
         Fresh(s0), Fresh(s1), Describes(A, s0, s1), Describes(B, s1, s2)
  PROVE  Describes(MergeStates(A, B), s0, s2)
<1> DEFINE M == MergeStates(A, B)
<1>1. /\ \A u \in Types : /\ s0.next_id[u] \in Nat /\ s1.next_id[u] \in Nat
                          /\ s2.next_id[u] \in Nat
      /\ \A p \in Object : p[1] \in Types /\ p[2] \in Nat
  BY InstanceAssumption DEF Snapshot, NextIds, Object, Instances
<1>2. ASSUME NEW p \in Object
      PROVE  /\ p \in M.new_ids <=>
                  /\ p \in A.new_ids \/ p \in B.new_ids
                  /\ B.removed[p] = None
             /\ M.old_values[p] =
                  IF B.removed[p] # None /\ p \notin A.new_ids
                     /\ p \notin B.new_ids
                  THEN None
                  ELSE IF p \in A.new_ids \/ A.old_values[p] # None
                  THEN A.old_values[p] ELSE B.old_values[p]
             /\ M.removed[p] =
                  IF B.removed[p] = None \/ p \in A.new_ids \/ p \in B.new_ids
                  THEN A.removed[p]
                  ELSE IF A.old_values[p] # None THEN A.old_values[p]
                  ELSE IF B.old_values[p] # None THEN B.old_values[p]
                  ELSE B.removed[p]
  BY <1>2 DEF MergeStates, MergeUpd, MergeNew, MergeDel, UndoState
<1>3. ASSUME NEW u \in Types
      PROVE  M.old_index_next_ids[u] =
               IF A.old_index_next_ids[u] = NoId
               THEN B.old_index_next_ids[u] ELSE A.old_index_next_ids[u]
  BY <1>3 DEF MergeStates, MergeUpd, MergeNew, MergeDel, UndoState
<1> HIDE DEF M
<1>4. ASSUME NEW p \in Object
      PROVE  /\ p \in M.new_ids <=>
                  s0.objects[p] = None /\ s2.objects[p] # None
             /\ p \in M.new_ids => p[2] >= s0.next_id[p[1]]
             /\ M.old_values[p] # None =>
                  M.old_values[p] = s0.objects[p] /\ s2.objects[p] # None
             /\ M.removed[p] # None =>
                  M.removed[p] = s0.objects[p] /\ s2.objects[p] = None
             /\ M.old_values[p] = None /\ M.removed[p] = None
                  /\ p \notin M.new_ids => s0.objects[p] = s2.objects[p]
  <2>1. s0.next_id[p[1]] <= s1.next_id[p[1]]
    BY <1>1 DEF Describes
  <2>2. p \in B.new_ids => s0.objects[p] = None
    BY <1>1, <2>1 DEF Describes, Fresh
  <2> QED
    BY <1>1, <1>2, <2>1, <2>2 DEF Describes
<1>5. ASSUME NEW u \in Types
      PROVE  /\ s0.next_id[u] <= s2.next_id[u]
             /\ IF M.old_index_next_ids[u] = NoId
                THEN s0.next_id[u] = s2.next_id[u]
                ELSE s0.next_id[u] = M.old_index_next_ids[u]
  BY <1>1, <1>3 DEF Describes, NoId
<1> QED
  BY <1>4, <1>5 DEF Describes, M
-----------------------------------------------------------------------------
(***************************************************************************)
(* StackDescribesHistory is inductive, given TypeOK.                       *)
(***************************************************************************)

(***************************************************************************)
(* The savepoint that the back of the stack starts from.                   *)
(***************************************************************************)
Base == IF stack = <<>> THEN Current ELSE saved[Len(saved)]

\* Facts about lengths and types that the steps below share.
LEMMA Shapes ==
  ASSUME TypeOK
  PROVE  /\ Len(stack) \in Nat /\ Len(saved) = Len(stack)
         /\ saved = <<>> <=> stack = <<>>
         /\ stack = <<>> <=> Len(stack) = 0
         /\ Current \in Snapshot
         /\ \A i \in 1 .. Len(stack) :
              stack[i] \in UndoState /\ saved[i] \in Snapshot /\ Above(i) \in Snapshot
<1>1. Len(stack) \in Nat /\ Len(saved) = Len(stack)
  BY LenProperties DEF TypeOK
<1>2. /\ saved = <<>> <=> Len(saved) = 0
      /\ stack = <<>> <=> Len(stack) = 0
  BY EmptySeq DEF TypeOK
<1>3. Current \in Snapshot
  BY DEF TypeOK, Current, Snapshot
<1>4. \A i \in 1 .. Len(stack) : stack[i] \in UndoState /\ saved[i] \in Snapshot
  BY <1>1, ElementOfSeq DEF TypeOK
<1>5. \A i \in 1 .. Len(stack) : Above(i) \in Snapshot
  BY <1>1, <1>3, <1>4 DEF Above
<1> QED
  BY <1>1, <1>2, <1>3, <1>4, <1>5

\* The back of the stack describes what changed since Base.
LEMMA BackDescribes ==
  ASSUME TypeOK, StackDescribesHistory
  PROVE  /\ Base \in Snapshot /\ Fresh(Base) /\ Fresh(Current)
         /\ Describes(Back, Base, Current)
<1>1. CASE stack = <<>>
  BY <1>1, Shapes, DescribesEmpty DEF Base, Back, StackDescribesHistory
<1>2. CASE stack # <<>>
  <2>1. Len(stack) \in 1 .. Len(saved)
    BY <1>2, Shapes
  <2> QED
    BY <1>2, <2>1, Shapes DEF Base, Back, StackDescribesHistory, Above
<1> QED
  BY <1>1, <1>2

\* A recorded change of the database only concerns the back of the stack.
LEMMA ChangeStep ==
  ASSUME TypeOK, TypeOK', StackDescribesHistory, Changed,
         NEW state \in UndoState, stack' = Record(state),
         Fresh(Current'), Describes(state, Base, Current')
  PROVE  StackDescribesHistory'
<1>1. CASE disabled
  <2>1. Len(saved') = 0
    BY <1>1, Shapes, EmptySeq DEF TypeOK, Changed
  <2> QED
    BY <2>1 DEF StackDescribesHistory
<1>2. CASE ~disabled /\ stack = <<>>
  <2>1. /\ Len(saved') = 1 /\ saved'[1] = Current
        /\ stack'[1] = state
    BY <1>2, Shapes, RecordFacts DEF Changed
  <2>2. Above(1)' = Current'
    BY <2>1 DEF Above
  <2>3. Fresh(Current) /\ Base = Current
    BY <1>2 DEF StackDescribesHistory, Base
  <2>4. \A i \in 1 .. Len(saved') : i = 1
    BY <2>1
  <2> QED
    BY <2>1, <2>2, <2>3, <2>4 DEF StackDescribesHistory
<1>3. CASE ~disabled /\ stack # <<>>
  <2>1. /\ saved' = saved
        /\ Len(saved) \in Nat
        /\ stack'[Len(saved)] = state
        /\ \A i \in 1 .. Len(saved) - 1 : stack'[i] = stack[i]
        /\ Base = saved[Len(saved)]
    BY <1>3, Shapes, RecordFacts DEF Changed, Base
  <2>2. ASSUME NEW i \in 1 .. Len(saved')
        PROVE  Fresh(saved[i]) /\ Describes(stack'[i], saved[i], Above(i)')
    <3>1. CASE i = Len(saved)
      <4>1. Above(i)' = Current'
        BY <2>1, <3>1 DEF Above
      <4>2. Fresh(saved[i])
        BY <2>1 DEF StackDescribesHistory
      <4> QED
        BY <2>1, <3>1, <4>1, <4>2
    <3>2. CASE i # Len(saved)
      <4>1. i \in 1 .. Len(saved) - 1
        BY <2>1, <3>2
      <4>2. Above(i)' = Above(i)
        BY <2>1, <3>2 DEF Above
      <4> QED
        BY <2>1, <4>1, <4>2 DEF StackDescribesHistory
    <3> QED
      BY <3>1, <3>2
  <2> QED
    BY <2>1, <2>2 DEF StackDescribesHistory
<1> QED
  BY <1>1, <1>2, <1>3

\* Taking the newest savepoint off, and going back to it, leaves the others
\* as they were.
LEMMA PopStep ==
  ASSUME TypeOK, StackDescribesHistory, stack # <<>>,
         stack' = PopBack, saved' = SavedPopBack,
         objects' = RevertObjects(Back, objects),
         next_id' = RevertNextIds(Back, next_id)
  PROVE  /\ StackDescribesHistory'
         /\ objects' = saved[Len(saved)].objects
         /\ next_id' = saved[Len(saved)].next_id
<1> DEFINE n == Len(saved)
<1>1. /\ n \in Nat \ {0} /\ Len(stack) = n
      /\ Len(saved') = n - 1 /\ Len(stack') = n - 1
      /\ \A i \in 1 .. n - 1 : stack'[i] = stack[i] /\ saved'[i] = saved[i]
  BY Shapes, PopBackFacts DEF PopBack, SavedPopBack, TypeOK
<1>2. /\ saved[n] \in Snapshot /\ Fresh(saved[n])
      /\ Describes(Back, saved[n], Current)
      /\ Back \in UndoState /\ Current \in Snapshot
  BY BackDescribes, BackType, Shapes DEF Base
<1>3. objects' = saved[n].objects /\ next_id' = saved[n].next_id
  <2>1. objects = Current.objects /\ next_id = Current.next_id
    BY DEF Current
  <2> QED
    BY <1>2, <2>1, DescribesRevert
<1>4. Current' = saved[n]
  BY <1>2, <1>3 DEF Current, Snapshot
<1> HIDE DEF n
<1>5. ASSUME NEW i \in 1 .. Len(saved')
      PROVE  Fresh(saved'[i]) /\ Describes(stack'[i], saved'[i], Above(i)')
  <2>1. i \in 1 .. n - 1 /\ i \in 1 .. n
    BY <1>1
  <2>2. Above(i)' = Above(i)
    <3>1. CASE i = n - 1
      BY <1>1, <1>4, <2>1, <3>1 DEF Above, n
    <3>2. CASE i # n - 1
      <4>1. i + 1 \in 1 .. n - 1
        BY <1>1, <2>1, <3>2
      <4> QED
        BY <1>1, <2>1, <3>2, <4>1 DEF Above, n
    <3> QED
      BY <3>1, <3>2
  <2> QED
    BY <1>1, <2>1, <2>2 DEF StackDescribesHistory, n
<1> QED
  BY <1>2, <1>3, <1>4, <1>5 DEF StackDescribesHistory, n

\* Opening a session: the oldest savepoints may go, the others move down, and
\* an empty state is put on top of the current database.
LEMMA StartStep ==
  ASSUME TypeOK, StackDescribesHistory,
         NEW force_enable \in BOOLEAN, HStart(force_enable)
  PROVE  StackDescribesHistory'
<1> DEFINE k == IF Len(stack) > max_size THEN Len(stack) - max_size ELSE 0
           n == Len(stack) - k
           ks == IF Len(saved) > max_size
                 THEN SubSeq(saved, Len(saved) - max_size + 1, Len(saved))
                 ELSE saved
<1>1. /\ max_size \in Nat \ {0} /\ Len(stack) \in Nat
      /\ Len(saved) = Len(stack)
      /\ k \in Nat /\ n \in Nat /\ n + k = Len(stack)
  BY Shapes, DepthAssumption DEF TypeOK
<1>2. /\ Kept \in Seq(UndoState) /\ Len(Kept) = n
      /\ \A i \in 1 .. n : Kept[i] = stack[k + i]
  BY <1>1, KeptFacts
<1>3. /\ ks \in Seq(Snapshot) /\ Len(ks) = n
      /\ \A i \in 1 .. n : ks[i] = saved[k + i]
  BY <1>1, KeepFacts DEF TypeOK
<1>4. /\ stack' = Append(Kept, EmptyState) /\ saved' = Append(ks, Current)
      /\ Current' = Current
  BY DEF HStart, StartUndoSession, Current
<1>5. Current \in Snapshot
  BY Shapes
<1> HIDE DEF k, n, ks
<1>6. /\ Len(saved') = n + 1
      /\ saved'[n + 1] = Current
      /\ \A i \in 1 .. n : saved'[i] = saved[k + i]
  BY <1>3, <1>4, <1>5, AppendFacts
<1>7. /\ stack'[n + 1] = EmptyState
      /\ \A i \in 1 .. n : stack'[i] = stack[k + i]
  BY <1>2, <1>4, EmptyStateType, AppendFacts
<1>8. ASSUME NEW i \in 1 .. Len(saved')
      PROVE  Fresh(saved'[i]) /\ Describes(stack'[i], saved'[i], Above(i)')
  <2>1. CASE i = n + 1
    BY <1>4, <1>5, <1>6, <1>7, <2>1, DescribesEmpty
    DEF Above, StackDescribesHistory
  <2>2. CASE i # n + 1
    <3>1. i \in 1 .. n /\ k + i \in 1 .. Len(saved)
      BY <1>1, <1>6, <2>2
    <3>2. Above(i)' = Above(k + i)
      <4>1. CASE i = n
        BY <1>1, <1>4, <1>6, <3>1, <4>1 DEF Above
      <4>2. CASE i # n
        <5>1. i + 1 \in 1 .. n /\ k + (i + 1) = (k + i) + 1
          BY <1>1, <3>1, <4>2
        <5>2. saved'[i + 1] = saved[(k + i) + 1]
          BY <1>6, <5>1
        <5> QED
          BY <1>1, <1>6, <3>1, <4>2, <5>2 DEF Above
      <4> QED
        BY <4>1, <4>2
    <3> QED
      BY <1>6, <1>7, <3>1, <3>2 DEF StackDescribesHistory
  <2> QED
    BY <2>1, <2>2
<1> QED
  BY <1>4, <1>8 DEF StackDescribesHistory
\* merge composes the two newest differences and forgets the savepoint
\* between them.
LEMMA MergeStep ==
  ASSUME TypeOK, StackDescribesHistory, HMerge
  PROVE  StackDescribesHistory'
<1> DEFINE n == Len(saved)
<1>1. n \in Nat \ {0} /\ Len(stack) = n /\ Current' = Current
  BY Shapes, EmptySeq DEF TypeOK, HMerge, Merge, Current
<1>2. /\ Len(saved') = n - 1
      /\ \A i \in 1 .. n - 1 : saved'[i] = saved[i]
  BY <1>1, Shapes, PopBackFacts DEF HMerge, SavedPopBack, TypeOK
<1>3. CASE n = 1
  <2>1. Len(saved') = 0
    BY <1>2, <1>3
  <2> QED
    BY <1>1, <2>1 DEF StackDescribesHistory
<1>4. CASE n >= 2
  <2> DEFINE m == MergeStates(stack[n - 1], Back)
  <2>1. stack' = [PopBack EXCEPT ![n - 1] = m]
    BY <1>1, <1>4 DEF HMerge, Merge
  <2>2. /\ PopBack \in Seq(UndoState) /\ Len(PopBack) = n - 1
        /\ \A i \in 1 .. n - 1 : PopBack[i] = stack[i]
    BY <1>1, Shapes, PopBackFacts DEF PopBack, TypeOK
  <2>3. /\ n - 1 \in 1 .. n /\ n \in 1 .. n /\ n - 1 \in 1 .. n - 1
        /\ Above(n - 1) = saved[n] /\ Above(n) = Current
        /\ Back = stack[n]
    BY <1>1, <1>4, Shapes DEF Above, Back
  <2>4. /\ Fresh(saved[n - 1]) /\ Describes(stack[n - 1], saved[n - 1], saved[n])
        /\ Fresh(saved[n]) /\ Describes(Back, saved[n], Current)
    BY <2>3 DEF StackDescribesHistory
  <2>5. /\ stack[n - 1] \in UndoState /\ Back \in UndoState
        /\ saved[n - 1] \in Snapshot /\ saved[n] \in Snapshot
        /\ Current \in Snapshot
    BY <1>1, <2>3, Shapes
  <2>6. m \in UndoState /\ Describes(m, saved[n - 1], Current)
    BY <2>4, <2>5, DescribesMerge, MergeStatesType
  <2> HIDE DEF m
  <2>7. /\ stack'[n - 1] = m
        /\ \A i \in 1 .. n - 1 : i # n - 1 => stack'[i] = stack[i]
    BY <1>1, <2>1, <2>2, <2>3, <2>6, ExceptSeq
  <2> HIDE DEF n
  <2>8. ASSUME NEW i \in 1 .. Len(saved')
        PROVE  Fresh(saved'[i]) /\ Describes(stack'[i], saved'[i], Above(i)')
    <3>1. i \in 1 .. n - 1 /\ i \in 1 .. n
      BY <1>1, <1>2
    <3>2. CASE i = n - 1
      BY <1>1, <1>2, <2>4, <2>6, <2>7, <3>1, <3>2 DEF Above
    <3>3. CASE i # n - 1
      <4>1. i + 1 \in 1 .. n - 1
        BY <1>1, <3>1, <3>3
      <4>2. Above(i)' = Above(i)
        BY <1>1, <1>2, <3>1, <3>3, <4>1 DEF Above, n
      <4> QED
        BY <1>2, <2>7, <3>1, <3>3, <4>2 DEF StackDescribesHistory, n
    <3> QED
      BY <3>2, <3>3
  <2> QED
    BY <1>1, <2>4, <2>8 DEF StackDescribesHistory
<1> QED
  BY <1>1, <1>3, <1>4

\* Every step keeps the meaning of the stack.
LEMMA HistoryStep ==
  ASSUME TypeOK, TypeOK', StackDescribesHistory, [HNext]_historyVars
  PROVE  StackDescribesHistory'
<1>1. ASSUME NEW t \in Types, NEW v \in Values, HCreate(t, v)
      PROVE  StackDescribesHistory'
  <2>1. <<t, next_id[t]>> \in Object
    BY <1>1 DEF HCreate, Create, Object
  <2>2. OnCreate(Back, <<t, next_id[t]>>) \in UndoState
    BY <2>1, BackType, OnChangeType DEF TypeOK
  <2>3. Create(t, v) /\ Changed
    BY <1>1 DEF HCreate
  <2>4. /\ Describes(OnCreate(Back, <<t, next_id[t]>>), Base, Current')
        /\ Fresh(Current')
    BY <2>3, BackType, BackDescribes, DescribesCreate
  <2> QED
    BY <2>2, <2>3, <2>4, ChangeStep DEF Create
<1>2. ASSUME NEW o \in Object, NEW v \in Values, HModify(o, v)
      PROVE  StackDescribesHistory'
  <2>1. OnModify(Back, o) \in UndoState
    BY BackType, OnChangeType DEF TypeOK
  <2>2. Modify(o, v) /\ Changed
    BY <1>2 DEF HModify
  <2>3. Describes(OnModify(Back, o), Base, Current') /\ Fresh(Current')
    BY <2>2, BackType, BackDescribes, DescribesModify
  <2> QED
    BY <2>1, <2>2, <2>3, ChangeStep DEF Modify
<1>3. ASSUME NEW o \in Object, HRemove(o)
      PROVE  StackDescribesHistory'
  <2>1. OnRemove(Back, o) \in UndoState
    BY BackType, OnChangeType DEF TypeOK
  <2>2. Remove(o) /\ Changed
    BY <1>3 DEF HRemove
  <2>3. Describes(OnRemove(Back, o), Base, Current') /\ Fresh(Current')
    BY <2>2, BackType, BackDescribes, DescribesRemove
  <2> QED
    BY <2>1, <2>2, <2>3, ChangeStep DEF Remove
<1>4. ASSUME NEW force_enable \in BOOLEAN, HStart(force_enable)
      PROVE  StackDescribesHistory'
  BY <1>4, StartStep
<1>5. CASE HUndo
  BY <1>5, PopStep DEF HUndo, Undo
<1>6. CASE HMerge
  BY <1>6, MergeStep
<1>7. CASE HPopCommit
  BY <1>7, PopStep DEF HPopCommit, PopCommit
<1>8. ASSUME UNCHANGED <<objects, next_id, stack, saved>>
      PROVE  StackDescribesHistory'
  BY <1>8 DEF StackDescribesHistory, Above, Current
<1>9. CASE HCommit
  BY <1>8, <1>9 DEF HCommit, Commit
<1>10. ASSUME NEW m \in MaxSizes, HSetMaxSize(m)
       PROVE  StackDescribesHistory'
  BY <1>8, <1>10 DEF HSetMaxSize, SetMaxSize
<1>11. CASE HSwitch
  BY <1>8, <1>11 DEF HSwitch, Disable, Enable
<1>12. CASE UNCHANGED historyVars
  BY <1>8, <1>12 DEF historyVars
<1> QED
  BY <1>1, <1>2, <1>3, <1>4, <1>5, <1>6, <1>7, <1>9, <1>10, <1>11, <1>12
  DEF HNext

\* Each entry of the stack records exactly the difference between its
\* savepoint and the next one, after any sequence of sessions, changes,
\* merges, undos, commits and trims.
THEOREM StackCorrect == HSpec => []StackDescribesHistory
<1>1. HInit => StackDescribesHistory
  BY DEF HInit, Init, StackDescribesHistory, Fresh, Current
<1>2. TypeOK /\ TypeOK' /\ StackDescribesHistory /\ [HNext]_historyVars
        => StackDescribesHistory'
  BY HistoryStep
<1> QED
  BY <1>1, <1>2, TypeCorrect, PTL DEF HSpec

\* The destructor of a session, and pop_commit, never throw half way.
THEOREM RevertSafe == HSpec => []RevertNeverThrows
<1>1. TypeOK /\ StackDescribesHistory => RevertNeverThrows
  <2> SUFFICES ASSUME TypeOK, StackDescribesHistory, stack # <<>>
               PROVE  Revertible(Back, objects)
    BY DEF RevertNeverThrows
  <2>1. Revertible(Back, Current.objects)
    BY BackType, BackDescribes, Shapes, DescribesRevert
  <2> QED
    BY <2>1 DEF Current
<1> QED
  BY <1>1, TypeCorrect, StackCorrect, PTL

\* The combinations of entries that merge assumes away never occur.
THEOREM MergeAssumptionsHold == HSpec => []CausalTiming
<1>1. TypeOK /\ StackDescribesHistory => CausalTiming
  <2> SUFFICES ASSUME TypeOK, StackDescribesHistory,
                      NEW i \in 1 .. Len(stack) - 1, NEW o \in Object
               PROVE  /\ o \in stack[i + 1].new_ids =>
                           /\ o \notin stack[i].new_ids
                           /\ stack[i].old_values[o] = None
                           /\ stack[i].removed[o] = None
                      /\ stack[i].removed[o] # None =>
                           /\ stack[i + 1].old_values[o] = None
                           /\ stack[i + 1].removed[o] = None
    BY DEF CausalTiming
  <2>1. /\ i \in 1 .. Len(saved) /\ i + 1 \in 1 .. Len(saved)
        /\ Above(i) = saved[i + 1]
    BY Shapes DEF Above
  <2>2. /\ Fresh(saved[i])
        /\ Describes(stack[i], saved[i], saved[i + 1])
        /\ Describes(stack[i + 1], saved[i + 1], Above(i + 1))
    BY <2>1 DEF StackDescribesHistory
  <2>3. /\ saved[i].next_id[o[1]] \in Nat
        /\ saved[i + 1].next_id[o[1]] \in Nat
        /\ saved[i].next_id[o[1]] <= saved[i + 1].next_id[o[1]]
        /\ o[2] \in Nat
    <3>1. o[1] \in Types /\ o[2] \in Nat
      BY InstanceAssumption DEF Object, Instances
    <3>2. saved[i] \in Snapshot /\ saved[i + 1] \in Snapshot
      BY <2>1, Shapes
    <3> QED
      BY <2>2, <3>1, <3>2, InstanceAssumption DEF Describes, Snapshot, NextIds
  <2>4. o \in stack[i + 1].new_ids => saved[i].objects[o] = None
    BY <2>2, <2>3 DEF Describes, Fresh
  <2> QED
    BY <2>2, <2>4 DEF Describes
<1> QED
  BY <1>1, TypeCorrect, StackCorrect, PTL

-----------------------------------------------------------------------------
(***************************************************************************)
(* The undo database implements SnapshotStack.                             *)
(***************************************************************************)

\* A change of the database is a Change of the abstract specification.
LEMMA ChangeRefines ==
  ASSUME TypeOK, Changed, UNCHANGED sessions
  PROVE  Snapshots!Change
  BY DEF Changed, Snapshots!Change, Snapshots!Current, Current

\* Opening a session forgets only savepoints of sessions that have ended.
LEMMA StartRefines ==
  ASSUME TypeOK, NEW force_enable \in BOOLEAN, HStart(force_enable)
  PROVE  Snapshots!Open
<1>1. /\ max_size \in Nat \ {0} /\ MaxDepth \in Nat /\ MaxDepth <= max_size + 1
      /\ Len(saved) \in Nat /\ Len(sessions) \in Nat
      /\ Len(sessions) <= Len(saved) /\ Len(sessions) < MaxDepth
  BY DepthAssumption, LenProperties DEF TypeOK, HStart, StartUndoSession
<1>2. Len(sessions') = Len(sessions) + 1
  BY AppendFacts DEF HStart, StartUndoSession, TypeOK
<1>3. \E k \in 0 .. Len(saved) - Len(sessions) :
        saved' = Append(SubSeq(saved, k + 1, Len(saved)), Current)
  <2>1. CASE Len(saved) > max_size
    <3>1. Len(saved) - max_size \in 0 .. Len(saved) - Len(sessions)
      BY <1>1, <2>1
    <3>2. saved' = Append(SubSeq(saved, (Len(saved) - max_size) + 1, Len(saved)),
                          Current)
      BY <2>1 DEF HStart
    <3> QED
      BY <3>1, <3>2
  <2>2. CASE ~(Len(saved) > max_size)
    <3>1. 0 \in 0 .. Len(saved) - Len(sessions)
      BY <1>1
    <3>2. saved = SubSeq(saved, 0 + 1, Len(saved))
      BY SubSeqFull DEF TypeOK
    <3>3. saved' = Append(saved, Current)
      BY <2>2 DEF HStart
    <3> QED
      BY <3>1, <3>2, <3>3
  <2> QED
    BY <2>1, <2>2
<1> QED
  BY <1>2, <1>3
  DEF Snapshots!Open, Snapshots!Current, Current, HStart, StartUndoSession

\* Every step of the undo database is a step of nested savepoints.
LEMMA StepRefines ==
  ASSUME TypeOK, StackDescribesHistory, [HNext]_historyVars
  PROVE  [Snapshots!SNext]_(Snapshots!snapshotVars)
<1>s. /\ saved # <<>> <=> stack # <<>>
      /\ sessions # <<>> =>
           /\ Len(sessions) \in Nat \ {0}
           /\ stack # <<>>
           /\ EndSession => Len(sessions') = Len(sessions) - 1
  <2>1. sessions # <<>> => stack # <<>>
    BY EmptySeq, LenProperties DEF TypeOK
  <2> QED
    BY <2>1, Shapes, PopBackFacts DEF TypeOK, EndSession
<1>1. ASSUME NEW t \in Types, NEW v \in Values, HCreate(t, v)
      PROVE  Snapshots!SNext
  BY <1>1, ChangeRefines DEF HCreate, Create, Snapshots!SNext
<1>2. ASSUME NEW o \in Object, NEW v \in Values, HModify(o, v)
      PROVE  Snapshots!SNext
  BY <1>2, ChangeRefines DEF HModify, Modify, Snapshots!SNext
<1>3. ASSUME NEW o \in Object, HRemove(o)
      PROVE  Snapshots!SNext
  BY <1>3, ChangeRefines DEF HRemove, Remove, Snapshots!SNext
<1>4. ASSUME NEW force_enable \in BOOLEAN, HStart(force_enable)
      PROVE  Snapshots!SNext
  BY <1>4, StartRefines DEF Snapshots!SNext
<1>5. CASE HUndo
  <2>1. Snapshots!Restore
    BY <1>5, <1>s, PopStep
    DEF HUndo, Undo, SavedPopBack,
        Snapshots!Restore, Snapshots!Newest, Snapshots!WithoutNewest
  <2>2. Len(sessions) > 0 /\ Len(sessions') = Len(sessions) - 1
    BY <1>5, <1>s DEF HUndo, Undo
  <2> QED
    BY <2>1, <2>2 DEF Snapshots!Rollback, Snapshots!SNext
<1>6. CASE HMerge
  <2>1. Len(sessions) > 0 /\ Len(sessions') = Len(sessions) - 1 /\ saved # <<>>
    BY <1>6, <1>s DEF HMerge, Merge
  <2> QED
    BY <1>6, <2>1
    DEF HMerge, Merge, SavedPopBack,
        Snapshots!Absorb, Snapshots!WithoutNewest, Snapshots!SNext
<1>7. CASE HCommit
  <2>1. Len(sessions) = 1 /\ Len(sessions') = 0
    BY <1>7, <1>s DEF HCommit, Commit
  <2> QED
    BY <1>7, <2>1 DEF HCommit, Commit, Snapshots!Keep, Snapshots!SNext
<1>8. CASE HPopCommit
  <2>1. Snapshots!Restore
    BY <1>8, <1>s, PopStep
    DEF HPopCommit, PopCommit, SavedPopBack,
        Snapshots!Restore, Snapshots!Newest, Snapshots!WithoutNewest
  <2>2. Len(sessions) = 0 /\ UNCHANGED sessions
    BY <1>8 DEF HPopCommit, PopCommit
  <2> QED
    BY <2>1, <2>2 DEF Snapshots!RollbackCommitted, Snapshots!SNext
<1>9. ASSUME UNCHANGED <<objects, next_id, saved, sessions>>
      PROVE  UNCHANGED Snapshots!snapshotVars
  BY <1>9 DEF Snapshots!snapshotVars
<1>10. ASSUME NEW m \in MaxSizes, HSetMaxSize(m)
       PROVE  UNCHANGED Snapshots!snapshotVars
  BY <1>9, <1>10 DEF HSetMaxSize, SetMaxSize
<1>11. CASE HSwitch
  BY <1>9, <1>11 DEF HSwitch, Disable, Enable
<1>12. CASE UNCHANGED historyVars
  BY <1>9, <1>12 DEF historyVars
<1> QED
  BY <1>1, <1>2, <1>3, <1>4, <1>5, <1>6, <1>7, <1>8, <1>10, <1>11, <1>12
  DEF HNext

\* The undo database, which stores only differences, behaves like a stack of
\* complete copies of the database.
THEOREM UndoImplementsSnapshots == HSpec => ImplementsSnapshots
<1>1. HInit => Snapshots!SInit
  BY DEF HInit, Init, Snapshots!SInit
<1>2. TypeOK /\ StackDescribesHistory /\ [HNext]_historyVars
        => [Snapshots!SNext]_(Snapshots!snapshotVars)
  BY StepRefines
<1> QED
  BY <1>1, <1>2, TypeCorrect, StackCorrect, PTL
  DEF HSpec, ImplementsSnapshots, Snapshots!SSpec
=============================================================================
