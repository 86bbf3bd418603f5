-------------------------- MODULE ProductionProofs --------------------------
(***************************************************************************)
(* Proofs about Production: for all witnesses, nodes, votes, parameters    *)
(* that change at each maintenance, thresholds and any shuffle, the next   *)
(* maintenance is ahead, slots are usable, what becomes irreversible is    *)
(* backed by the share of the witnesses that the threshold names, and no   *)
(* witness is charged with a slot it has not let pass.                     *)
(***************************************************************************)
EXTENDS Production, NumberLemmas, SequenceTheorems, TLAPS

\* The witnesses are finitely many.
LEMMA WitnessesFinite ==
  /\ IsFiniteSet(Witnesses)
  /\ \A ws \in SUBSET Witnesses : IsFiniteSet(ws) /\ Cardinality(ws) \in Nat
  /\ \A ws \in SUBSET Witnesses : ws # {} => Cardinality(ws) > 0
<1>1. IsFiniteSet(Witnesses)
  <2> DEFINE n == Len(WitnessOrder)
  <2>1. n \in Nat /\ WitnessOrder \in [1..n -> Witnesses]
    BY SettingsAssumption
  <2>2. \A w \in Witnesses : \E i \in 1..n : WitnessOrder[i] = w
    BY <2>1 DEF Witnesses, ToSet
  <2>3. WitnessOrder \in Surjection(1..n, Witnesses)
    BY <2>1, <2>2 DEF Surjection
  <2>4. IsFiniteSet(1..n)
    BY <2>1, FS_Interval
  <2> QED BY <2>3, <2>4, FS_Surjection
<1>2. \A ws \in SUBSET Witnesses : IsFiniteSet(ws) /\ Cardinality(ws) \in Nat
  BY <1>1, FS_Subset, FS_CardinalityType
<1>3. \A ws \in SUBSET Witnesses : ws # {} => Cardinality(ws) > 0
  <2> SUFFICES ASSUME NEW ws \in SUBSET Witnesses, ws # {} PROVE Cardinality(ws) > 0
    OBVIOUS
  <2>1. Cardinality(ws) # 0 /\ Cardinality(ws) \in Nat
    BY <1>2, FS_EmptySet
  <2> QED BY <2>1
<1> QED BY <1>1, <1>2, <1>3

-----------------------------------------------------------------------------
(***************************************************************************)
(* What a state of the chain looks like; recent_slots_filled only matters  *)
(* for the decision to produce.                                            *)
(***************************************************************************)
Fields ==
  {"num", "time", "aslot", "filled", "recent_missed", "confirmed", "lib", "lost", "maintenances",
   "next_maintenance", "maintenance_flag", "active", "shuffled"}

IsSchedule(list) == \E n \in Nat \ {0} : list \in [1..n -> Witnesses]

StateOK(t) ==
  /\ DOMAIN t = Fields
  /\ t.num \in Nat /\ t.time \in Nat /\ t.aslot \in Nat /\ t.lib \in Nat
  /\ t.maintenances \in Nat /\ t.next_maintenance \in Nat /\ t.maintenance_flag \in BOOLEAN
  /\ t.recent_missed \in [Witnesses -> Nat]
  /\ t.confirmed \in [Witnesses -> Nat]
  /\ t.active \subseteq Witnesses /\ t.active # {}
  /\ IsSchedule(t.shuffled)

\* The parameters in force are one of the plan's.
LEMMA ParamsType ==
  ASSUME setting \in Settings, NEW t, t.maintenances \in Nat
  PROVE  Params(t) \in Plans
<1>1. setting.plan \in Seq(Plans) /\ Len(setting.plan) \in Nat \ {0}
  <2>1. setting.plan \in Seq(Plans) /\ setting.plan # <<>>
    BY SettingsAssumption
  <2> QED BY <2>1
<1>2. PICK a \in Nat, b \in Nat : a = t.maintenances + 1 /\ b = Len(setting.plan) /\ a > 0 /\ b > 0
  BY <1>1
<1>3. PICK m \in {a, b} : m = Min({a, b}) /\ m <= b
  BY MinMaxOfTwo
<1>4. m \in 1..Len(setting.plan)
  BY <1>2, <1>3
<1>5. setting.plan[m] \in Plans
  BY <1>1, <1>4
<1> QED BY <1>2, <1>3, <1>5 DEF Params

\* Slots are block_interval apart, and the first lies after the head block,
\* also when the interval has changed or slots are skipped.
LEMMA SlotTimes ==
  ASSUME setting \in Settings, NEW t, StateOK(t)
  PROVE  /\ block_interval(t) \in Nat \ {0}
         /\ \A k \in Nat \ {0} :
              /\ get_slot_time(t, k) \in Nat
              /\ get_slot_time(t, k) = get_slot_time(t, 1) + (k - 1) * block_interval(t)
              /\ t.time < get_slot_time(t, k)
<1> DEFINE bi == block_interval(t)
           skip == Params(t).skip
<1>1. bi \in Nat \ {0} /\ skip \in Nat /\ t.time \in Nat /\ t.num \in Nat
  BY ParamsType DEF StateOK, Plans, block_interval
<1>2. t.time \div bi \in Nat /\ t.time < (t.time \div bi) * bi + bi
  BY <1>1, DivBounds
<1> DEFINE base == IF t.num = 0 THEN t.time ELSE (t.time \div bi) * bi
           more == IF t.num = 0 \/ ~t.maintenance_flag THEN 0 ELSE skip
<1>3. base \in Nat /\ more \in Nat /\ t.time < base + bi
  BY <1>1, <1>2
<1>4. \A k \in Nat \ {0} : get_slot_time(t, k) = base + (k + more) * bi
  BY <1>1, <1>2 DEF get_slot_time
<1> HIDE DEF bi, base, more
<1>5. ASSUME NEW k \in Nat \ {0}
      PROVE  /\ base + (k + more) * bi \in Nat
             /\ base + (k + more) * bi = (base + (1 + more) * bi) + (k - 1) * bi
             /\ base + bi <= base + (k + more) * bi
  <2>1. (k + more) * bi = (1 + more) * bi + (k - 1) * bi
    BY <1>1, <1>3
  <2>2. PICK x \in Nat : x = k - 1 + more
    BY <1>3
  <2>3. (k + more) * bi = bi + x * bi /\ x * bi \in Nat
    BY <1>1, <1>3, <2>2
  <2> QED BY <1>1, <1>3, <2>1, <2>3
<1> QED BY <1>1, <1>3, <1>4, <1>5 DEF bi

\* The slot of a time is the last one that has begun, and get_slot_at_time
\* inverts get_slot_time.
LEMMA SlotAt ==
  ASSUME setting \in Settings, NEW t, StateOK(t), NEW when \in Nat
  PROVE  LET slot == get_slot_at_time(t, when)
         IN /\ slot \in Nat
            /\ slot > 0 => /\ get_slot_time(t, slot) <= when
                           /\ when < get_slot_time(t, slot) + block_interval(t)
            /\ when < get_slot_time(t, 1) => slot = 0
            /\ \A k \in Nat \ {0} : when = get_slot_time(t, k) => slot = k
            /\ \A k \in 1..slot : k < slot => get_slot_time(t, k) < get_slot_time(t, slot)
<1> DEFINE bi == block_interval(t)
           first == get_slot_time(t, 1)
           slot == get_slot_at_time(t, when)
<1>1. bi \in Nat \ {0} /\ first \in Nat
  BY SlotTimes
<1>2. \A k \in Nat \ {0} : get_slot_time(t, k) = first + (k - 1) * bi
  BY SlotTimes
<1>3. slot = IF when < first THEN 0 ELSE (when - first) \div bi + 1
  BY DEF get_slot_at_time
<1> HIDE DEF bi, first, slot
<1>4. CASE when < first
  <2>1. slot = 0
    BY <1>3, <1>4
  <2>2. ASSUME NEW k \in Nat \ {0} PROVE first <= first + (k - 1) * bi
    <3>1. (k - 1) * bi \in Nat
      BY <1>1
    <3> QED BY <1>1, <3>1
  <2> QED BY <1>1, <1>2, <1>4, <2>1, <2>2 DEF slot, first
<1>5. CASE ~(when < first)
  <2>1. PICK x \in Nat : x = when - first
    BY <1>1, <1>5
  <2>2. PICK q \in Nat : q = x \div bi /\ q * bi <= x /\ x < q * bi + bi
    BY <1>1, DivBounds
  <2>3. slot = q + 1 /\ slot \in Nat \ {0}
    BY <1>3, <1>5, <2>1, <2>2
  <2>4. get_slot_time(t, slot) = first + q * bi
    BY <1>2, <2>2, <2>3
  <2>5. ASSUME NEW k \in Nat \ {0}, when = get_slot_time(t, k) PROVE slot = k
    <3>1. PICK j \in Nat : j = k - 1
      OBVIOUS
    <3>2. x = j * bi
      BY <1>1, <1>2, <2>1, <2>5, <3>1
    <3>3. x \div bi = j
      BY <1>1, <3>2
    <3> QED BY <2>2, <2>3, <3>1, <3>3
  <2>6. ASSUME NEW k \in 1..slot, k < slot PROVE get_slot_time(t, k) < get_slot_time(t, slot)
    <3>1. PICK j \in Nat : j = k - 1 /\ j < q
      BY <2>3, <2>6
    <3>2. PICK d \in Nat : q = j + 1 + d
      BY <3>1
    <3>3. q * bi = j * bi + bi + d * bi /\ d * bi \in Nat /\ j * bi \in Nat
      BY <1>1, <3>2
    <3>4. get_slot_time(t, k) = first + j * bi
      BY <1>2, <3>1
    <3> QED BY <1>1, <2>4, <3>3, <3>4
  <2> QED BY <1>1, <1>5, <2>1, <2>2, <2>3, <2>4, <2>5, <2>6 DEF slot, first, bi
<1> QED BY <1>4, <1>5

\* Every slot is scheduled for a witness.
LEMMA ScheduledType ==
  ASSUME NEW t, StateOK(t), NEW slot \in Nat
  PROVE  get_scheduled_witness(t, slot) \in Witnesses
<1>1. PICK n \in Nat \ {0} : t.shuffled \in [1..n -> Witnesses]
  BY DEF StateOK, IsSchedule
<1>2. Len(t.shuffled) = n
  BY <1>1
<1>3. t.aslot + slot \in Nat
  BY DEF StateOK
<1>4. (t.aslot + slot) % n \in 0..(n - 1)
  BY <1>1, <1>3
<1> QED BY <1>1, <1>2, <1>4 DEF get_scheduled_witness

-----------------------------------------------------------------------------
(* _apply_block, one function at a time *)

\* The slots before the given one that were scheduled for w.
Skipped(t, slot, w) == {i \in 1..(slot - 1) : get_scheduled_witness(t, i) = w}

\* They are finitely many.
LEMMA SkippedFinite ==
  ASSUME NEW t, NEW slot \in Int, NEW w
  PROVE  IsFiniteSet(Skipped(t, slot, w)) /\ Cardinality(Skipped(t, slot, w)) \in Nat
<1>1. IsFiniteSet(1..(slot - 1))
  BY FS_Interval
<1> QED BY <1>1, CardinalityMonotone DEF Skipped

Usable(t, b) ==
  /\ b.time \in Nat /\ b.witness \in Witnesses
  /\ get_slot_at_time(t, b.time) \in Nat \ {0}

\* update_global_dynamic_data.
LEMMA DynamicData ==
  ASSUME NEW t, StateOK(t), NEW b, Usable(t, b)
  PROVE  LET u == UpdateGlobalDynamicData(t, b)
         IN /\ StateOK(u)
            /\ u.num = t.num + 1 /\ u.time = b.time
            /\ u.recent_missed = [w \in Witnesses |->
                 IF w = b.witness THEN t.recent_missed[w]
                 ELSE t.recent_missed[w] + Cardinality(Skipped(t, get_slot_at_time(t, b.time), w))]
            /\ u.confirmed = t.confirmed /\ u.lib = t.lib
            /\ u.maintenances = t.maintenances /\ u.next_maintenance = t.next_maintenance
            /\ u.active = t.active
<1> DEFINE slot == get_slot_at_time(t, b.time)
           bits == t.filled \o <<TRUE>> \o [i \in 1..(slot - 1) |-> FALSE]
           kept == SubSeq(bits, Len(bits) - Window + 1, Len(bits))
           missed == [w \in Witnesses |->
                 IF w = b.witness THEN t.recent_missed[w]
                 ELSE t.recent_missed[w] + Cardinality(Skipped(t, slot, w))]
           u == UpdateGlobalDynamicData(t, b)
<1>1. u = [t EXCEPT !.num = t.num + 1, !.time = b.time, !.aslot = t.aslot + slot,
                    !.filled = kept, !.recent_missed = missed]
  BY Zenon DEF UpdateGlobalDynamicData, Skipped
<1>2. missed \in [Witnesses -> Nat]
  <2>1. \A w : Cardinality(Skipped(t, slot, w)) \in Nat
    BY SkippedFinite DEF Usable
  <2> QED BY <2>1 DEF StateOK, Usable
<1> HIDE DEF kept, missed, u
<1>3. /\ DOMAIN u = Fields /\ u.num = t.num + 1 /\ u.time = b.time /\ u.aslot = t.aslot + slot
      /\ u.recent_missed = missed /\ u.confirmed = t.confirmed /\ u.lib = t.lib
      /\ u.maintenances = t.maintenances /\ u.next_maintenance = t.next_maintenance
      /\ u.maintenance_flag = t.maintenance_flag /\ u.active = t.active /\ u.shuffled = t.shuffled
  BY <1>1 DEF StateOK, Fields
<1>4. StateOK(u)
  BY <1>2, <1>3 DEF StateOK, Usable
<1> QED BY <1>3, <1>4 DEF u, missed

\* update_signing_witness.
LEMMA SigningWitness ==
  ASSUME NEW t, StateOK(t), NEW b, b.witness \in Witnesses
  PROVE  LET u == UpdateSigningWitness(t, b)
         IN /\ StateOK(u)
            /\ u.confirmed = [t.confirmed EXCEPT ![b.witness] = t.num]
            /\ u.num = t.num /\ u.time = t.time /\ u.recent_missed = t.recent_missed /\ u.lib = t.lib
            /\ u.maintenances = t.maintenances /\ u.next_maintenance = t.next_maintenance
            /\ u.active = t.active
<1> DEFINE new == [t.confirmed EXCEPT ![b.witness] = t.num]
           u == UpdateSigningWitness(t, b)
<1>1. u = [t EXCEPT !.confirmed = new]
  BY DEF UpdateSigningWitness
<1>2. new \in [Witnesses -> Nat]
  BY DEF StateOK
<1> HIDE DEF new, u
<1>3. /\ DOMAIN u = Fields /\ u.num = t.num /\ u.time = t.time /\ u.aslot = t.aslot
      /\ u.recent_missed = t.recent_missed /\ u.confirmed = new /\ u.lib = t.lib
      /\ u.maintenances = t.maintenances /\ u.next_maintenance = t.next_maintenance
      /\ u.maintenance_flag = t.maintenance_flag /\ u.active = t.active /\ u.shuffled = t.shuffled
  BY <1>1 DEF StateOK, Fields
<1>4. StateOK(u)
  BY <1>2, <1>3 DEF StateOK
<1> QED BY <1>3, <1>4 DEF u, new

\* The offset of update_last_irreversible_block, within the active witnesses.
Offset(t) == ((100 - Threshold) * Cardinality(t.active)) \div 100

\* It leaves at least the share that the threshold names.
LEMMA OffsetBounds ==
  ASSUME NEW t, StateOK(t)
  PROVE  /\ Offset(t) \in Nat /\ Cardinality(t.active) \in Nat
         /\ Offset(t) < Cardinality(t.active)
         /\ 100 * (Cardinality(t.active) - Offset(t)) >= Threshold * Cardinality(t.active)
<1>1. PICK n \in Nat : n = Cardinality(t.active) /\ n > 0
  BY WitnessesFinite DEF StateOK
<1>2. Threshold \in 1..100
  BY SettingsAssumption
<1>3. PICK x \in Nat : x = (100 - Threshold) * n
  BY <1>2
<1>4. PICK q \in Nat : q = x \div 100 /\ q * 100 <= x
  BY DivBounds
<1>5. x = 100 * n - Threshold * n /\ Threshold * n >= n /\ Threshold * n \in Nat
  <2>1. PICK k \in Nat : Threshold = k + 1
    BY <1>2
  <2>2. Threshold * n = k * n + n /\ k * n \in Nat
    BY <2>1
  <2>3. (100 - Threshold) * n = 100 * n - Threshold * n
    BY <1>2
  <2> QED BY <1>3, <2>2, <2>3
<1>6. Offset(t) = q
  BY <1>1, <1>3, <1>4 DEF Offset
<1> QED BY <1>1, <1>4, <1>5, <1>6

\* The block that update_last_irreversible_block finds was confirmed by a
\* witness, and at most as many as the offset have not confirmed it.
LEMMA LastConfirmedIsNth ==
  ASSUME NEW t, StateOK(t), \A w \in t.active : t.confirmed[w] <= t.num
  PROVE  /\ LastConfirmed(t) \in Nat
         /\ LastConfirmed(t) \in {t.confirmed[w] : w \in t.active}
         /\ Cardinality({w \in t.active : t.confirmed[w] < LastConfirmed(t)}) <= Offset(t)
<1>1. \A w \in t.active : t.confirmed[w] \in Nat
  BY DEF StateOK
<1>2. \E n : IsNth(t.active, t.confirmed, Offset(t), n)
  <2>1. IsFiniteSet(t.active) /\ t.num \in Nat
    BY WitnessesFinite DEF StateOK
  <2>2. Offset(t) \in Nat /\ Offset(t) < Cardinality(t.active)
    BY OffsetBounds
  <2> QED BY <1>1, <2>1, <2>2, NthElement
<1>3. LastConfirmed(t) = CHOOSE n \in {t.confirmed[w] : w \in t.active} :
        /\ Cardinality({w \in t.active : t.confirmed[w] < n}) <= Offset(t)
        /\ Cardinality({w \in t.active : t.confirmed[w] <= n}) > Offset(t)
  BY Zenon DEF LastConfirmed, Offset
<1>4. IsNth(t.active, t.confirmed, Offset(t), LastConfirmed(t))
  BY <1>2, <1>3, Zenon DEF IsNth
<1> QED BY <1>1, <1>4 DEF IsNth

\* update_last_irreversible_block.
LEMMA LastIrreversible ==
  ASSUME NEW t, StateOK(t), \A w \in t.active : t.confirmed[w] <= t.num
  PROVE  LET u == UpdateLastIrreversibleBlock(t)
         IN /\ StateOK(u)
            /\ u.lib \in {t.lib, LastConfirmed(t)}
            /\ u.num = t.num /\ u.time = t.time /\ u.recent_missed = t.recent_missed
            /\ u.confirmed = t.confirmed
            /\ u.maintenances = t.maintenances /\ u.next_maintenance = t.next_maintenance
            /\ u.active = t.active
<1> DEFINE new == Max({t.lib, LastConfirmed(t)})
           u == UpdateLastIrreversibleBlock(t)
<1>1. u = [t EXCEPT !.lib = new]
  BY DEF UpdateLastIrreversibleBlock
<1>2. new \in {t.lib, LastConfirmed(t)} /\ new \in Nat
  <2>1. LastConfirmed(t) \in Nat
    BY LastConfirmedIsNth
  <2>2. t.lib \in Nat
    BY DEF StateOK
  <2>3. PICK a \in Int, b \in Int : a = t.lib /\ b = LastConfirmed(t)
    BY <2>1, <2>2
  <2>4. Max({a, b}) \in {a, b}
    BY MinMaxOfTwo
  <2> QED BY <2>1, <2>2, <2>3, <2>4
<1> HIDE DEF new, u
<1>3. /\ DOMAIN u = Fields /\ u.num = t.num /\ u.time = t.time /\ u.aslot = t.aslot
      /\ u.recent_missed = t.recent_missed /\ u.confirmed = t.confirmed /\ u.lib = new
      /\ u.maintenances = t.maintenances /\ u.next_maintenance = t.next_maintenance
      /\ u.maintenance_flag = t.maintenance_flag /\ u.active = t.active /\ u.shuffled = t.shuffled
  BY <1>1 DEF StateOK, Fields
<1>4. StateOK(u)
  BY <1>2, <1>3 DEF StateOK
<1> QED BY <1>2, <1>3, <1>4 DEF u

\* sort_votable_objects sorts by a strict order.
LEMMA PrecedesIsAnOrder ==
  ASSUME setting \in Settings, NEW t, StateOK(t)
  PROVE  /\ \A w \in Witnesses : ~Precedes(t, w, w)
         /\ \A x, y, z \in Witnesses : Precedes(t, x, y) /\ Precedes(t, y, z) => Precedes(t, x, z)
<1> DEFINE Votes(x) == IF x \in t.lost THEN 0 ELSE Params(t).votes[x]
           Id(x) == CHOOSE i \in DOMAIN WitnessOrder : WitnessOrder[i] = x
<1>1. \A x \in Witnesses : Votes(x) \in Nat
  <2>1. Params(t).votes \in [Witnesses -> Nat]
    BY ParamsType DEF StateOK, Plans
  <2> QED BY <2>1
<1>2. \A x \in Witnesses : Id(x) \in Nat
  <2>1. DOMAIN WitnessOrder \subseteq Nat
    BY SettingsAssumption
  <2>2. \A x \in Witnesses : \E i \in DOMAIN WitnessOrder : WitnessOrder[i] = x
    BY SettingsAssumption DEF Witnesses, ToSet
  <2>3. \A x \in Witnesses : Id(x) \in DOMAIN WitnessOrder
    BY <2>2, Zenon
  <2> QED BY <2>1, <2>3
<1>3. \A x, y : Precedes(t, x, y) <=> Votes(x) > Votes(y) \/ (Votes(x) = Votes(y) /\ Id(x) < Id(y))
  BY Zenon DEF Precedes
<1> HIDE DEF Votes, Id
<1> QED BY <1>1, <1>2, <1>3

\* An election elects somebody: the first in the order.
LEMMA SomebodyElected ==
  ASSUME setting \in Settings, NEW t, StateOK(t)
  PROVE  Elected(t) \subseteq Witnesses /\ Elected(t) # {}
<1> DEFINE Ahead(w) == {v \in Witnesses : Precedes(t, v, w)}
           C == {n \in Nat : \E w \in Witnesses : n = Cardinality(Ahead(w))}
<1>1. \A w : IsFiniteSet(Ahead(w)) /\ Cardinality(Ahead(w)) \in Nat
  BY WitnessesFinite
<1>2. PICK w0 \in Witnesses : TRUE
  BY DEF StateOK
<1>3. C # {}
  BY <1>1, <1>2
<1>4. PICK n \in C : \A m \in C : n <= m
  BY <1>3, LeastNat
<1>5. PICK w \in Witnesses : n = Cardinality(Ahead(w))
  BY <1>4
<1>6. Ahead(w) = {}
  <2> SUFFICES ASSUME NEW v \in Ahead(w) PROVE FALSE
    OBVIOUS
  <2>1. Ahead(v) \subseteq Ahead(w) \ {v}
    BY <1>5, PrecedesIsAnOrder
  <2>2. IsFiniteSet(Ahead(w) \ {v}) /\ Cardinality(Ahead(w) \ {v}) = Cardinality(Ahead(w)) - 1
    BY <1>1, FS_RemoveElement
  <2>3. Cardinality(Ahead(v)) <= Cardinality(Ahead(w)) - 1
    BY <2>1, <2>2, CardinalityMonotone
  <2>4. v \in Witnesses /\ Cardinality(Ahead(v)) \in C
    BY <1>1
  <2> HIDE DEF Ahead, C
  <2> QED BY <1>1, <1>4, <1>5, <2>3, <2>4
<1>7. Cardinality(Ahead(w)) = 0 /\ Params(t).seats \in Nat \ {0}
  BY <1>6, FS_EmptySet, ParamsType DEF StateOK, Plans
<1>8. w \in Elected(t)
  BY <1>5, <1>7 DEF Elected
<1> QED BY <1>8 DEF Elected

\* The next maintenance time is the first planned one after the block, also
\* if several have passed or the interval has changed.
LEMMA NextMaintenanceAhead ==
  ASSUME setting \in Settings, NEW t, t.maintenances \in Nat, NEW b, b.time \in Nat, t.time = b.time,
         t.next_maintenance \in Nat, t.next_maintenance <= b.time
  PROVE  /\ NextMaintenance(t, b) \in Nat
         /\ b.time < NextMaintenance(t, b)
         /\ NextMaintenance(t, b) <= b.time + Params(t).maintenance_interval
<1>1. PICK d \in Nat \ {0} : d = Params(t).maintenance_interval
  BY ParamsType DEF Plans
<1>2. CASE t.num = 1
  <2>1. PICK q \in Nat : q = b.time \div d /\ q * d <= b.time /\ b.time < q * d + d
    BY DivBounds
  <2>2. NextMaintenance(t, b) = (q + 1) * d
    BY <1>1, <1>2, <2>1 DEF NextMaintenance
  <2>3. (q + 1) * d = q * d + d /\ q * d \in Nat
    BY <2>1
  <2> QED BY <1>1, <2>1, <2>2, <2>3
<1>3. CASE t.num # 1
  <2>1. PICK x \in Nat : x = t.time - t.next_maintenance
    OBVIOUS
  <2>2. PICK q \in Nat : q = x \div d /\ q * d <= x /\ x < q * d + d
    BY DivBounds
  <2>3. NextMaintenance(t, b) = t.next_maintenance + (q + 1) * d
    BY <1>1, <1>3, <2>1, <2>2 DEF NextMaintenance
  <2>4. (q + 1) * d = q * d + d /\ q * d \in Nat
    BY <2>2
  <2> QED BY <1>1, <2>1, <2>2, <2>3, <2>4
<1> QED BY <1>2, <1>3

\* perform_chain_maintenance.
LEMMA Maintenance ==
  ASSUME setting \in Settings, NEW t, StateOK(t), NEW b, b.time \in Nat, t.time = b.time,
         t.next_maintenance <= b.time
  PROVE  LET u == PerformChainMaintenance(t, b)
         IN /\ StateOK(u)
            /\ b.time < u.next_maintenance
            /\ u.next_maintenance <= b.time + Params(u).maintenance_interval
            /\ u.recent_missed = [w \in Witnesses |-> 0]
            /\ u.num = t.num /\ u.time = t.time /\ u.lib = t.lib /\ u.confirmed = t.confirmed
<1> DEFINE checked == CheckWitness(t)
           elected == [checked EXCEPT !.active = Elected(checked),
                                      !.recent_missed = [w \in Witnesses |-> 0]]
           renewed == [elected EXCEPT !.maintenances = @ + 1]
           u == PerformChainMaintenance(t, b)
<1>1. u = [renewed EXCEPT !.next_maintenance = NextMaintenance(renewed, b)]
  BY Zenon DEF PerformChainMaintenance
<1>2. \E lost : checked = [t EXCEPT !.lost = lost]
  BY Zenon DEF CheckWitness
<1>3. /\ DOMAIN checked = Fields /\ checked.num = t.num /\ checked.time = t.time
      /\ checked.aslot = t.aslot /\ checked.recent_missed = t.recent_missed
      /\ checked.confirmed = t.confirmed /\ checked.lib = t.lib
      /\ checked.maintenances = t.maintenances /\ checked.next_maintenance = t.next_maintenance
      /\ checked.maintenance_flag = t.maintenance_flag /\ checked.active = t.active
      /\ checked.shuffled = t.shuffled
  <2> HIDE DEF checked
  <2> QED BY <1>2 DEF StateOK, Fields
<1> HIDE DEF checked
<1>4. StateOK(checked)
  BY <1>3 DEF StateOK
<1>5. Elected(checked) \subseteq Witnesses /\ Elected(checked) # {}
  BY <1>4, SomebodyElected
<1>6. /\ DOMAIN elected = Fields /\ elected.num = t.num /\ elected.time = t.time
      /\ elected.aslot = t.aslot /\ elected.recent_missed = [w \in Witnesses |-> 0]
      /\ elected.confirmed = t.confirmed /\ elected.lib = t.lib
      /\ elected.maintenances = t.maintenances /\ elected.next_maintenance = t.next_maintenance
      /\ elected.maintenance_flag = t.maintenance_flag /\ elected.active = Elected(checked)
      /\ elected.shuffled = t.shuffled
  BY <1>3 DEF Fields
<1> HIDE DEF elected
<1>7. /\ DOMAIN renewed = Fields /\ renewed.num = t.num /\ renewed.time = t.time
      /\ renewed.aslot = t.aslot /\ renewed.recent_missed = [w \in Witnesses |-> 0]
      /\ renewed.confirmed = t.confirmed /\ renewed.lib = t.lib
      /\ renewed.maintenances = t.maintenances + 1 /\ renewed.next_maintenance = t.next_maintenance
      /\ renewed.maintenance_flag = t.maintenance_flag /\ renewed.active = Elected(checked)
      /\ renewed.shuffled = t.shuffled
  BY <1>6 DEF Fields
<1> HIDE DEF renewed
<1>8. /\ NextMaintenance(renewed, b) \in Nat
      /\ b.time < NextMaintenance(renewed, b)
      /\ NextMaintenance(renewed, b) <= b.time + Params(renewed).maintenance_interval
  <2>1. renewed.maintenances \in Nat /\ renewed.time = b.time /\ renewed.next_maintenance \in Nat
        /\ renewed.next_maintenance <= b.time
    BY <1>7 DEF StateOK
  <2> QED BY <2>1, NextMaintenanceAhead
<1> HIDE DEF u
<1>9. /\ DOMAIN u = Fields /\ u.num = t.num /\ u.time = t.time
      /\ u.aslot = t.aslot /\ u.recent_missed = [w \in Witnesses |-> 0]
      /\ u.confirmed = t.confirmed /\ u.lib = t.lib
      /\ u.maintenances = renewed.maintenances /\ u.next_maintenance = NextMaintenance(renewed, b)
      /\ u.maintenance_flag = t.maintenance_flag /\ u.active = Elected(checked)
      /\ u.shuffled = t.shuffled
  BY <1>1, <1>7 DEF Fields
<1>10. StateOK(u)
  BY <1>5, <1>7, <1>8, <1>9 DEF StateOK
<1>11. Params(u) = Params(renewed)
  BY <1>9 DEF Params
<1> QED BY <1>8, <1>9, <1>10, <1>11 DEF u

\* update_witness_schedule.
LEMMA Schedule ==
  ASSUME setting \in Settings, NEW t, StateOK(t), t.time \in setting.genesis .. setting.max_clock
  PROVE  LET u == UpdateWitnessSchedule(t)
         IN /\ StateOK(u)
            /\ u.num = t.num /\ u.time = t.time /\ u.recent_missed = t.recent_missed
            /\ u.confirmed = t.confirmed /\ u.lib = t.lib
            /\ u.maintenances = t.maintenances /\ u.next_maintenance = t.next_maintenance
            /\ u.maintenance_flag = t.maintenance_flag
<1> DEFINE new == Shuffle(Listing(t.active), t.time)
           u == UpdateWitnessSchedule(t)
<1>1. CASE u = t
  BY <1>1
<1>2. CASE u = [t EXCEPT !.shuffled = new]
  <2>1. IsSchedule(new)
    <3>1. PICK n \in Nat : n = Cardinality(t.active) /\ n > 0
      BY WitnessesFinite DEF StateOK
    <3>2. new \in [1..n -> t.active]
      BY <3>1, ShuffleAssumption DEF StateOK
    <3> HIDE DEF new
    <3>3. new \in [1..n -> Witnesses]
      BY <3>2 DEF StateOK
    <3> QED BY <3>1, <3>3 DEF IsSchedule
  <2> HIDE DEF new, u
  <2>2. /\ DOMAIN u = Fields /\ u.num = t.num /\ u.time = t.time /\ u.aslot = t.aslot
        /\ u.recent_missed = t.recent_missed /\ u.confirmed = t.confirmed /\ u.lib = t.lib
        /\ u.maintenances = t.maintenances /\ u.next_maintenance = t.next_maintenance
        /\ u.maintenance_flag = t.maintenance_flag /\ u.active = t.active /\ u.shuffled = new
    BY <1>2 DEF StateOK, Fields
  <2>3. StateOK(u)
    BY <2>1, <2>2 DEF StateOK
  <2> QED BY <2>2, <2>3 DEF u
<1> QED BY <1>1, <1>2 DEF UpdateWitnessSchedule

(***************************************************************************)
(* What a block does to the state of the chain.                            *)
(***************************************************************************)
Confirmed(t, b) == UpdateSigningWitness(UpdateGlobalDynamicData(t, b), b)

\* _apply_block.
LEMMA AppliedEffect ==
  ASSUME setting \in Settings, NEW t, StateOK(t), NEW b, Usable(t, b),
         b.time \in setting.genesis .. setting.max_clock, \A w \in Witnesses : t.confirmed[w] <= t.num
  PROVE  LET u == Applied(t, b)
             v == Confirmed(t, b)
         IN /\ StateOK(u) /\ StateOK(v)
            /\ v.active = t.active /\ v.lib = t.lib /\ v.num = u.num /\ v.confirmed = u.confirmed
            /\ u.num = t.num + 1 /\ u.time = b.time
            /\ u.confirmed = [t.confirmed EXCEPT ![b.witness] = t.num + 1]
            /\ u.lib \in {t.lib, LastConfirmed(v)}
            /\ u.maintenance_flag = (t.next_maintenance <= b.time)
            /\ u.maintenance_flag =>
                 /\ u.recent_missed = [w \in Witnesses |-> 0]
                 /\ b.time < u.next_maintenance
                 /\ u.next_maintenance <= b.time + Params(u).maintenance_interval
            /\ ~u.maintenance_flag =>
                 /\ u.recent_missed = [w \in Witnesses |->
                      IF w = b.witness THEN t.recent_missed[w]
                      ELSE t.recent_missed[w] + Cardinality(Skipped(t, get_slot_at_time(t, b.time), w))]
                 /\ u.next_maintenance = t.next_maintenance
                 /\ u.maintenances = t.maintenances
<1> DEFINE maint == t.next_maintenance <= b.time
           d == UpdateGlobalDynamicData(t, b)
           v == Confirmed(t, b)
           produced == UpdateLastIrreversibleBlock(v)
           maintained == IF maint THEN PerformChainMaintenance(produced, b) ELSE produced
           flagged == [maintained EXCEPT !.maintenance_flag = maint]
           u == Applied(t, b)
           missed == [w \in Witnesses |->
                      IF w = b.witness THEN t.recent_missed[w]
                      ELSE t.recent_missed[w] + Cardinality(Skipped(t, get_slot_at_time(t, b.time), w))]
<1>1. u = UpdateWitnessSchedule(flagged)
  BY Zenon DEF Applied, Confirmed
<1>2. /\ StateOK(d) /\ d.num = t.num + 1 /\ d.time = b.time /\ d.recent_missed = missed
      /\ d.confirmed = t.confirmed /\ d.lib = t.lib
      /\ d.maintenances = t.maintenances /\ d.next_maintenance = t.next_maintenance
      /\ d.active = t.active
  BY DynamicData
<1>3. /\ StateOK(v) /\ v.num = t.num + 1 /\ v.time = b.time /\ v.recent_missed = missed
      /\ v.confirmed = [t.confirmed EXCEPT ![b.witness] = t.num + 1] /\ v.lib = t.lib
      /\ v.maintenances = t.maintenances /\ v.next_maintenance = t.next_maintenance
      /\ v.active = t.active
  <2> HIDE DEF d, missed
  <2>1. v = UpdateSigningWitness(d, b) /\ b.witness \in Witnesses
    BY DEF d, Confirmed, Usable
  <2> HIDE DEF v
  <2> QED BY <1>2, <2>1, SigningWitness
<1>4. \A w \in v.active : v.confirmed[w] <= v.num
  <2> HIDE DEF v
  <2> QED BY <1>3 DEF StateOK, Usable
<1> HIDE DEF d, v, missed
<1>5. /\ StateOK(produced) /\ produced.num = t.num + 1 /\ produced.time = b.time
      /\ produced.recent_missed = missed /\ produced.confirmed = v.confirmed
      /\ produced.lib \in {t.lib, LastConfirmed(v)}
      /\ produced.maintenances = t.maintenances /\ produced.next_maintenance = t.next_maintenance
  BY <1>3, <1>4, LastIrreversible
<1> HIDE DEF produced
<1>6. /\ StateOK(maintained) /\ maintained.num = t.num + 1 /\ maintained.time = b.time
      /\ maintained.confirmed = v.confirmed /\ maintained.lib = produced.lib
      /\ maint => /\ maintained.recent_missed = [w \in Witnesses |-> 0]
                  /\ b.time < maintained.next_maintenance
                  /\ maintained.next_maintenance <= b.time + Params(maintained).maintenance_interval
      /\ ~maint => maintained = produced
  <2>1. CASE maint
    <3>1. maintained = PerformChainMaintenance(produced, b)
      BY <2>1
    <3>2. b.time \in Nat /\ produced.time = b.time /\ produced.next_maintenance <= b.time
      BY <1>5, <2>1 DEF Usable
    <3> HIDE DEF maintained
    <3> QED BY <1>5, <2>1, <3>1, <3>2, Maintenance
  <2>2. CASE ~maint
    BY <1>5, <2>2
  <2> QED BY <2>1, <2>2
<1> HIDE DEF maintained
<1>7. /\ DOMAIN flagged = Fields /\ flagged.num = t.num + 1 /\ flagged.time = b.time
      /\ flagged.aslot = maintained.aslot /\ flagged.recent_missed = maintained.recent_missed
      /\ flagged.confirmed = v.confirmed /\ flagged.lib = produced.lib
      /\ flagged.maintenances = maintained.maintenances
      /\ flagged.next_maintenance = maintained.next_maintenance
      /\ flagged.maintenance_flag = maint /\ flagged.active = maintained.active
      /\ flagged.shuffled = maintained.shuffled
  BY <1>6 DEF StateOK, Fields
<1>8. maint \in BOOLEAN
  OBVIOUS
<1> HIDE DEF flagged, maint
<1>9. StateOK(flagged)
  BY <1>6, <1>7, <1>8 DEF StateOK
<1>10. /\ StateOK(u) /\ u.num = t.num + 1 /\ u.time = b.time
       /\ u.recent_missed = maintained.recent_missed /\ u.confirmed = v.confirmed
       /\ u.lib = produced.lib /\ u.maintenances = maintained.maintenances
       /\ u.next_maintenance = maintained.next_maintenance /\ u.maintenance_flag = maint
  BY <1>1, <1>7, <1>9, Schedule
<1>11. Params(u) = Params(maintained)
  BY <1>10 DEF Params
<1> HIDE DEF u
<1> QED BY <1>3, <1>5, <1>6, <1>10, <1>11 DEF v, u, maint, missed

-----------------------------------------------------------------------------
(***************************************************************************)
(* The inductive invariant.  A slot has passed for a witness when its      *)
(* second is over or the nodes that run the witness have had their turn in *)
(* it; whatever has passed since the head block will be charged by the     *)
(* next one, and has been counted in turns.                                *)
(***************************************************************************)
Passed(w) ==
  {i \in 1..Slot : /\ get_scheduled_witness(s, i) = w
                   /\ \/ get_slot_time(s, i) < clock
                      \/ \A n \in waiting : w \notin setting.runs[n]}

SignersOK ==
  /\ signers \in Seq(Witnesses) /\ Len(signers) = s.num
  /\ \A w \in Witnesses :
       s.confirmed[w] <= s.num /\ (s.confirmed[w] > 0 => signers[s.confirmed[w]] = w)

NodesOK ==
  DOMAIN enabled = DOMAIN setting.runs /\ waiting \subseteq DOMAIN setting.runs

ChargedOK ==
  /\ turns \in [Witnesses -> Nat]
  /\ \A w \in Witnesses : s.recent_missed[w] + Cardinality(Passed(w)) <= turns[w]

ProductionInv ==
  /\ setting \in Settings
  /\ clock \in setting.genesis .. setting.max_clock
  /\ StateOK(s)
  /\ s.num = 0 => s.next_maintenance = 0
  /\ MaintenanceAhead
  /\ SignersOK /\ NodesOK /\ ChargedOK

\* Times are natural numbers.
LEMMA ClockType ==
  ASSUME ProductionInv
  PROVE  /\ clock \in Nat /\ setting.genesis \in Nat /\ setting.max_clock \in Nat
         /\ setting.genesis <= clock /\ clock <= setting.max_clock
BY SettingsAssumption DEF ProductionInv

\* The slots that have passed are finitely many.
LEMMA PassedFinite ==
  ASSUME ProductionInv, NEW w
  PROVE  IsFiniteSet(Passed(w)) /\ Cardinality(Passed(w)) \in Nat
<1>1. Slot \in Nat
  BY ClockType, SlotAt DEF ProductionInv, Slot
<1>2. IsFiniteSet(1..Slot)
  BY <1>1, FS_Interval
<1> QED BY <1>2, CardinalityMonotone DEF Passed

\* A block that is due is the block of a witness in a slot after the head.
LEMMA DueFacts ==
  ASSUME ProductionInv, Slot > 0
  PROVE  /\ Slot \in Nat \ {0} /\ Due.time \in Nat /\ Due.witness \in Witnesses
         /\ s.time < Due.time /\ Due.time <= clock
         /\ get_slot_at_time(s, Due.time) = Slot
         /\ Due.witness = get_scheduled_witness(s, Slot)
<1>1. setting \in Settings /\ StateOK(s) /\ clock \in Nat
  BY ClockType DEF ProductionInv
<1>2. Slot \in Nat \ {0} /\ get_slot_time(s, Slot) <= clock
  BY <1>1, SlotAt DEF Slot
<1>3. get_slot_time(s, Slot) \in Nat /\ s.time < get_slot_time(s, Slot)
  BY <1>1, <1>2, SlotTimes
<1>4. get_slot_at_time(s, get_slot_time(s, Slot)) = Slot
  BY <1>1, <1>2, <1>3, SlotAt
<1>5. get_scheduled_witness(s, Slot) \in Witnesses
  BY <1>1, <1>2, ScheduledType
<1> QED BY <1>2, <1>3, <1>4, <1>5 DEF Due

\* Genesis.
LEMMA InitInv == Init => ProductionInv
<1> SUFFICES ASSUME Init PROVE ProductionInv
  OBVIOUS
<1> DEFINE first == SubSeq(WitnessOrder, 1, setting.plan[1].seats)
<1>1. setting \in Settings /\ clock = setting.genesis /\ s = Genesis
  BY DEF Init
<1>2. clock \in setting.genesis .. setting.max_clock /\ setting.genesis \in Nat
  BY <1>1, SettingsAssumption
<1>3. PICK n \in Nat \ {0} : n = setting.plan[1].seats /\ n <= Len(WitnessOrder)
  <2>1. setting.plan \in Seq(Plans) /\ setting.plan # <<>> /\ setting.plan[1].seats <= Len(WitnessOrder)
    BY <1>1, SettingsAssumption
  <2>2. setting.plan[1] \in Plans
    BY <2>1
  <2> QED BY <2>1, <2>2 DEF Plans
<1>4. first \in [1..n -> Witnesses] /\ ToSet(first) \subseteq Witnesses /\ ToSet(first) # {}
  <2>1. WitnessOrder \in Seq(Witnesses) /\ Len(WitnessOrder) \in Nat
    BY SettingsAssumption
  <2>2. first \in [1..n -> Witnesses]
    <3>1. first = SubSeq(WitnessOrder, 1, n)
      BY <1>3
    <3>2. first = [i \in 1..n |-> WitnessOrder[i]]
      BY <1>3, <2>1, <3>1, SubSeqProperties
    <3>3. \A i \in 1..n : WitnessOrder[i] \in Witnesses
      BY <1>3, <2>1
    <3> HIDE DEF first
    <3> QED BY <3>2, <3>3
  <2> HIDE DEF first
  <2>3. DOMAIN first = 1..n /\ 1 \in 1..n
    BY <1>3, <2>2
  <2> QED BY <2>2, <2>3 DEF ToSet
<1>5. StateOK(s)
  <2>1. IsSchedule(first)
    BY <1>3, <1>4 DEF IsSchedule
  <2>2. s.shuffled = first /\ s.active = ToSet(first)
    BY <1>1 DEF Genesis
  <2>3. /\ DOMAIN s = Fields
        /\ s.num = 0 /\ s.time = setting.genesis /\ s.aslot = 0 /\ s.lib = 0 /\ s.maintenances = 0
        /\ s.next_maintenance = 0 /\ s.maintenance_flag = FALSE
        /\ s.recent_missed = [w \in Witnesses |-> 0] /\ s.confirmed = [w \in Witnesses |-> 0]
    BY <1>1 DEF Genesis, Fields
  <2>4. s.recent_missed \in [Witnesses -> Nat] /\ s.confirmed \in [Witnesses -> Nat] /\ s.time \in Nat
    BY <1>2, <2>3
  <2>6. s.maintenance_flag \in BOOLEAN
    BY <2>3, Zenon
  <2>5. s.active \subseteq Witnesses /\ s.active # {} /\ IsSchedule(s.shuffled)
    BY <1>4, <2>1, <2>2
  <2> QED BY <2>3, <2>4, <2>5, <2>6 DEF StateOK
<1>6. /\ s.num = 0 /\ s.next_maintenance = 0 /\ s.time = clock
      /\ s.recent_missed = [w \in Witnesses |-> 0] /\ s.confirmed = [w \in Witnesses |-> 0]
  BY <1>1 DEF Genesis
<1>7. SignersOK
  BY <1>6 DEF Init, SignersOK
<1>8. NodesOK
  BY DEF Init, NodesOK
<1>9. ChargedOK
  <2>1. clock < get_slot_time(s, 1)
    BY <1>1, <1>5, <1>6, SlotTimes
  <2>2. Slot = 0
    BY <1>1, <1>2, <1>5, <2>1, SlotAt DEF Slot
  <2>3. \A w : Passed(w) = {}
    BY <2>2 DEF Passed
  <2>4. \A w : Cardinality(Passed(w)) = 0
    BY <2>3, FS_EmptySet
  <2>5. turns = [w \in Witnesses |-> 0]
    BY DEF Init
  <2> QED BY <1>6, <2>4, <2>5 DEF ChargedOK
<1> QED BY <1>1, <1>2, <1>5, <1>6, <1>7, <1>8, <1>9 DEF ProductionInv, MaintenanceAhead

\* A node produces in the current second, in a slot that has come.
LEMMA ProduceFacts ==
  ASSUME ProductionInv, NEW n, Produce(n)
  PROVE  /\ Slot \in Nat \ {0} /\ Due.time = clock /\ Due.witness \in Witnesses
         /\ Usable(s, Due) /\ get_slot_at_time(s, Due.time) = Slot
         /\ \A w \in Witnesses : s.confirmed[w] <= s.num
         /\ setting \in Settings /\ StateOK(s) /\ Due.time \in setting.genesis .. setting.max_clock
         /\ s' = Applied(s, Due) /\ signers' = Append(signers, Due.witness)
         /\ UNCHANGED <<clock, setting>>
<1>1. Slot > 0 /\ Due.time = clock
  BY DEF Produce, MayProduce, HisTurn
<1>2. /\ Slot \in Nat \ {0} /\ Due.time \in Nat /\ Due.witness \in Witnesses
      /\ get_slot_at_time(s, Due.time) = Slot
  BY <1>1, DueFacts
<1> HIDE DEF Due, Slot
<1> QED BY <1>1, <1>2 DEF ProductionInv, SignersOK, Usable, Produce

\* What the block of a step of Produce does.
LEMMA ProduceEffect ==
  ASSUME ProductionInv, NEW n, Produce(n)
  PROVE  /\ StateOK(s') /\ StateOK(Confirmed(s, Due))
         /\ Confirmed(s, Due).active = s.active /\ Confirmed(s, Due).num = s'.num
         /\ Confirmed(s, Due).confirmed = s'.confirmed
         /\ s'.num = s.num + 1 /\ s'.time = clock
         /\ s'.confirmed = [s.confirmed EXCEPT ![Due.witness] = s.num + 1]
         /\ s'.lib \in {s.lib, LastConfirmed(Confirmed(s, Due))}
         /\ s'.maintenance_flag = (s.next_maintenance <= clock)
         /\ s'.maintenance_flag =>
              /\ s'.recent_missed = [w \in Witnesses |-> 0]
              /\ clock < s'.next_maintenance
              /\ s'.next_maintenance <= clock + Params(s').maintenance_interval
         /\ ~s'.maintenance_flag =>
              /\ s'.recent_missed = [w \in Witnesses |->
                   IF w = Due.witness THEN s.recent_missed[w]
                   ELSE s.recent_missed[w] + Cardinality(Skipped(s, Slot, w))]
              /\ s'.next_maintenance = s.next_maintenance
              /\ s'.maintenances = s.maintenances
<1> DEFINE b == Due
<1>1. /\ setting \in Settings /\ StateOK(s) /\ Usable(s, b)
      /\ b.time \in setting.genesis .. setting.max_clock /\ \A w \in Witnesses : s.confirmed[w] <= s.num
      /\ s' = Applied(s, b) /\ b.time = clock /\ get_slot_at_time(s, clock) = Slot
  BY ProduceFacts
<1> HIDE DEF b
<1>2. LET u == Applied(s, b)
          v == Confirmed(s, b)
      IN /\ StateOK(u) /\ StateOK(v)
         /\ v.active = s.active /\ v.lib = s.lib /\ v.num = u.num /\ v.confirmed = u.confirmed
         /\ u.num = s.num + 1 /\ u.time = b.time
         /\ u.confirmed = [s.confirmed EXCEPT ![b.witness] = s.num + 1]
         /\ u.lib \in {s.lib, LastConfirmed(v)}
         /\ u.maintenance_flag = (s.next_maintenance <= b.time)
         /\ u.maintenance_flag =>
              /\ u.recent_missed = [w \in Witnesses |-> 0]
              /\ b.time < u.next_maintenance
              /\ u.next_maintenance <= b.time + Params(u).maintenance_interval
         /\ ~u.maintenance_flag =>
              /\ u.recent_missed = [w \in Witnesses |->
                   IF w = b.witness THEN s.recent_missed[w]
                   ELSE s.recent_missed[w] + Cardinality(Skipped(s, get_slot_at_time(s, b.time), w))]
              /\ u.next_maintenance = s.next_maintenance
              /\ u.maintenances = s.maintenances
  BY <1>1, AppliedEffect
<1> QED BY <1>1, <1>2 DEF b

\* After a block no slot has come yet, so nothing has passed.
LEMMA ProduceCharges ==
  ASSUME ProductionInv, NEW n, Produce(n), StateOK(s'), s'.time = clock,
         s'.maintenance_flag => s'.recent_missed = [w \in Witnesses |-> 0],
         ~s'.maintenance_flag =>
              s'.recent_missed = [w \in Witnesses |->
                   IF w = Due.witness THEN s.recent_missed[w]
                   ELSE s.recent_missed[w] + Cardinality(Skipped(s, Slot, w))]
  PROVE  ChargedOK'
<1>1. setting' \in Settings /\ clock' = clock /\ clock \in Nat /\ setting' = setting
  BY ClockType DEF Produce, ProductionInv
<1>2. Slot' = 0
  <2>1. clock < get_slot_time(s', 1) /\ setting \in Settings
    BY <1>1, SlotTimes
  <2>2. get_slot_at_time(s', clock) = 0
    BY <1>1, <2>1, SlotAt
  <2> QED BY <1>1, <2>2 DEF Slot, get_slot_at_time, get_slot_time, block_interval, Params
<1>3. \A w : Cardinality(Passed(w)') = 0
  BY <1>2, FS_EmptySet DEF Passed
<1>4. CASE s'.maintenance_flag
  <2>1. turns' = [w \in Witnesses |-> 0]
    BY <1>4 DEF Produce
  <2> QED BY <1>3, <1>4, <2>1 DEF ChargedOK
<1>5. CASE ~s'.maintenance_flag
  <2>1. turns' = turns
    BY <1>5 DEF Produce
  <2>2. ASSUME NEW w \in Witnesses PROVE s'.recent_missed[w] <= turns[w]
    <3>1. Cardinality(Passed(w)) \in Nat /\ s.recent_missed[w] \in Nat /\ turns[w] \in Nat
          /\ s.recent_missed[w] + Cardinality(Passed(w)) <= turns[w]
      BY PassedFinite DEF ProductionInv, ChargedOK, StateOK
    <3>2. Skipped(s, Slot, w) \subseteq Passed(w)
      <4>1. Slot \in Nat \ {0} /\ setting \in Settings /\ StateOK(s) /\ Due.time = clock
        BY ProduceFacts
      <4>2. \A k \in 1..Slot : k < Slot => get_slot_time(s, k) < get_slot_time(s, Slot)
        BY <1>1, <4>1, SlotAt DEF Slot
      <4>3. get_slot_time(s, Slot) = clock
        BY <4>1 DEF Due
      <4> HIDE DEF Slot
      <4> QED BY <4>1, <4>2, <4>3 DEF Skipped, Passed
    <3>3. Cardinality(Skipped(s, Slot, w)) \in Nat /\ Cardinality(Skipped(s, Slot, w)) <= Cardinality(Passed(w))
      BY <3>2, PassedFinite, CardinalityMonotone
    <3> QED BY <1>5, <3>1, <3>3
  <2>3. \A w \in Witnesses : s'.recent_missed[w] \in Nat
    BY DEF StateOK
  <2> QED BY <1>3, <2>1, <2>2, <2>3 DEF ChargedOK, ProductionInv
<1> QED BY <1>4, <1>5 DEF StateOK

\* A slot that has begun is not after the current one.
LEMMA SlotReached ==
  ASSUME setting \in Settings, NEW t, StateOK(t), NEW when \in Nat, NEW k \in Nat \ {0},
         get_slot_time(t, k) <= when
  PROVE  k <= get_slot_at_time(t, when)
<1> DEFINE bi == block_interval(t)
           first == get_slot_time(t, 1)
<1>1. bi \in Nat \ {0} /\ first \in Nat /\ get_slot_time(t, k) = first + (k - 1) * bi
  BY SlotTimes
<1>2. PICK j \in Nat : j = k - 1
  OBVIOUS
<1> HIDE DEF bi, first
<1>3. j * bi \in Nat /\ first + j * bi <= when
  BY <1>1, <1>2
<1>4. PICK x \in Nat : x = when - first /\ j * bi <= x
  BY <1>1, <1>3
<1>5. PICK q \in Nat : q = x \div bi /\ x < q * bi + bi
  BY <1>1, DivBounds
<1>6. j <= q
  <2> SUFFICES ASSUME q < j PROVE FALSE
    OBVIOUS
  <2>1. PICK d \in Nat : j = q + 1 + d
    OBVIOUS
  <2>2. j * bi = q * bi + bi + d * bi /\ d * bi \in Nat /\ q * bi \in Nat
    BY <1>1, <2>1
  <2> QED BY <1>1, <1>3, <1>4, <1>5, <2>2
<1>7. get_slot_at_time(t, when) = q + 1
  BY <1>1, <1>3, <1>4, <1>5 DEF get_slot_at_time, bi, first
<1> QED BY <1>2, <1>6, <1>7

\* A block keeps the invariant.
LEMMA ProduceInv ==
  ASSUME ProductionInv, NEW n, Produce(n)
  PROVE  ProductionInv'
<1> DEFINE b == Due
<1>1. /\ setting \in Settings /\ StateOK(s) /\ b.witness \in Witnesses
      /\ s' = Applied(s, b) /\ signers' = Append(signers, b.witness) /\ UNCHANGED <<clock, setting>>
  BY ProduceFacts
<1>2. /\ StateOK(s') /\ s'.num = s.num + 1 /\ s'.time = clock
      /\ s'.confirmed = [s.confirmed EXCEPT ![b.witness] = s.num + 1]
      /\ s'.maintenance_flag = (s.next_maintenance <= clock)
      /\ s'.maintenance_flag =>
           /\ clock < s'.next_maintenance
           /\ s'.next_maintenance <= clock + Params(s').maintenance_interval
      /\ ~s'.maintenance_flag =>
           /\ s'.next_maintenance = s.next_maintenance
           /\ s'.maintenances = s.maintenances
  BY ProduceEffect
<1>3. ChargedOK'
  BY ProduceEffect, ProduceCharges
<1> HIDE DEF b
<1>4. clock \in Nat /\ s.time < clock /\ s.num \in Nat /\ s.time \in Nat
  <2>1. Slot > 0 /\ Due.time = clock
    BY ProduceFacts
  <2> QED BY <2>1, DueFacts, ClockType DEF ProductionInv, StateOK
<1>5. MaintenanceAhead'
  <2>1. (Params(s))' = Params(s')
    BY <1>1 DEF Params
  <2>2. CASE s'.maintenance_flag
    BY <1>2, <2>1, <2>2 DEF MaintenanceAhead
  <2>3. CASE ~s'.maintenance_flag
    <3>1. clock < s.next_maintenance /\ s.next_maintenance \in Nat
      <4>1. ~(s.next_maintenance <= clock)
        BY <1>2, <2>3
      <4>2. s.next_maintenance \in Nat
        BY DEF ProductionInv, StateOK
      <4> QED BY <1>4, <4>1, <4>2
    <3>2. s.num # 0
      BY <1>4, <3>1 DEF ProductionInv
    <3>3. Params(s') = Params(s)
      BY <1>2, <2>3 DEF Params
    <3>4. PICK d \in Nat : d = Params(s).maintenance_interval
      BY ParamsType DEF ProductionInv, StateOK, Plans
    <3>5. s.next_maintenance <= s.time + d
      BY <1>4, <3>2, <3>4 DEF ProductionInv, MaintenanceAhead
    <3> QED BY <1>2, <1>4, <2>1, <2>3, <3>1, <3>3, <3>4, <3>5 DEF MaintenanceAhead
  <2> QED BY <2>2, <2>3
<1>6. SignersOK'
  <2>1. signers \in Seq(Witnesses) /\ Len(signers) = s.num
    BY DEF ProductionInv, SignersOK
  <2>2. signers' \in Seq(Witnesses) /\ Len(signers') = s'.num
        /\ signers'[s.num + 1] = b.witness /\ \A i \in 1..s.num : signers'[i] = signers[i]
    BY <1>1, <1>2, <1>4, <2>1
  <2>3. ASSUME NEW w \in Witnesses
        PROVE  s'.confirmed[w] <= s'.num /\ (s'.confirmed[w] > 0 => signers'[s'.confirmed[w]] = w)
    <3>1. CASE w = b.witness
      <4>1. s'.confirmed[w] = s.num + 1
        BY <1>1, <1>2, <3>1 DEF StateOK
      <4> QED BY <1>2, <1>4, <2>2, <3>1, <4>1
    <3>2. CASE w # b.witness
      <4>1. s'.confirmed[w] = s.confirmed[w] /\ s.confirmed[w] \in Nat
        BY <1>1, <1>2, <3>2 DEF StateOK
      <4>2. s.confirmed[w] <= s.num /\ (s.confirmed[w] > 0 => signers[s.confirmed[w]] = w)
        BY DEF ProductionInv, SignersOK
      <4>3. s.confirmed[w] > 0 => s.confirmed[w] \in 1..s.num
        BY <1>4, <4>1, <4>2
      <4> QED BY <1>2, <1>4, <2>2, <4>1, <4>2, <4>3
    <3> QED BY <3>1, <3>2
  <2> QED BY <2>2, <2>3 DEF SignersOK
<1>7. NodesOK'
  BY <1>1 DEF Produce, NodesOK, ProductionInv
<1> QED BY <1>1, <1>2, <1>3, <1>4, <1>5, <1>6, <1>7 DEF ProductionInv

\* What a step that leaves chain and parameters alone leaves to show.
LEMMA SameChainInv ==
  ASSUME ProductionInv, UNCHANGED <<s, signers, setting>>,
         clock' \in setting.genesis .. setting.max_clock, NodesOK', ChargedOK'
  PROVE  ProductionInv'
BY DEF ProductionInv, MaintenanceAhead, Params, SignersOK

\* A node that lets its turn pass is charged at most for that turn.
LEMMA DoNotProduceInv ==
  ASSUME ProductionInv, NEW n, DoNotProduce(n)
  PROVE  ProductionInv'
<1>1. UNCHANGED <<clock, s, signers, setting>> /\ clock \in Nat /\ setting \in Settings /\ StateOK(s)
  BY ClockType DEF DoNotProduce, ProductionInv
<1>2. Slot' = Slot /\ Slot \in Nat
      /\ \A i : get_slot_time(s, i)' = get_slot_time(s, i)
                /\ get_scheduled_witness(s, i)' = get_scheduled_witness(s, i)
  <2>1. Slot \in Nat
    BY <1>1, SlotAt DEF Slot
  <2> QED BY <1>1, <2>1 DEF Slot, get_slot_at_time, get_slot_time, block_interval, Params, get_scheduled_witness
<1>3. NodesOK'
  BY <1>1 DEF DoNotProduce, NodesOK, ProductionInv
<1>4. ASSUME NEW w \in Witnesses, NEW i \in Passed(w)', i \notin Passed(w)
      PROVE  HisTurn(n) /\ w = Due.witness /\ i = Slot
  <2>1. /\ i \in 1..Slot /\ get_scheduled_witness(s, i) = w /\ ~(get_slot_time(s, i) < clock)
        /\ \E m \in waiting : w \in setting.runs[m]
        /\ \A m \in waiting' : w \notin setting.runs[m]
    BY <1>1, <1>2, <1>4 DEF Passed
  <2>2. w \in setting.runs[n]
    BY <2>1 DEF DoNotProduce
  <2>3. /\ get_slot_time(s, Slot) <= clock /\ Slot > 0
        /\ get_slot_time(s, Slot) \in Nat /\ get_slot_time(s, i) \in Nat
        /\ i < Slot => get_slot_time(s, i) < get_slot_time(s, Slot)
    BY <1>1, <1>2, <2>1, SlotAt, SlotTimes DEF Slot
  <2>4. i = Slot /\ get_slot_time(s, Slot) = clock
    BY <1>1, <1>2, <2>1, <2>3
  <2> QED BY <2>1, <2>2, <2>3, <2>4 DEF HisTurn, Due
<1>5. turns \in [Witnesses -> Nat]
  BY DEF ProductionInv, ChargedOK
<1>6. turns' = IF HisTurn(n) THEN [turns EXCEPT ![Due.witness] = @ + 1] ELSE turns
  BY DEF DoNotProduce
<1>7. HisTurn(n) => Due.witness \in Witnesses
  BY DueFacts DEF HisTurn
<1>8. ASSUME NEW w \in Witnesses
      PROVE  s.recent_missed[w] + Cardinality(Passed(w)') <= turns'[w]
  <2>1. /\ IsFiniteSet(Passed(w)) /\ Cardinality(Passed(w)) \in Nat /\ s.recent_missed[w] \in Nat
        /\ s.recent_missed[w] + Cardinality(Passed(w)) <= turns[w] /\ turns[w] \in Nat
    BY PassedFinite DEF ProductionInv, ChargedOK, StateOK
  <2>2. CASE HisTurn(n) /\ w = Due.witness
    <3>1. Passed(w)' \subseteq Passed(w) \cup {Slot}
      BY <1>4
    <3>2. /\ IsFiniteSet(Passed(w) \cup {Slot})
          /\ Cardinality(Passed(w) \cup {Slot}) <= Cardinality(Passed(w)) + 1
      <4>1. /\ IsFiniteSet(Passed(w) \cup {Slot})
            /\ Cardinality(Passed(w) \cup {Slot}) =
                 IF Slot \in Passed(w) THEN Cardinality(Passed(w)) ELSE Cardinality(Passed(w)) + 1
        BY <2>1, FS_AddElement, Zenon
      <4> QED BY <2>1, <4>1
    <3>3. Cardinality(Passed(w)') \in Nat /\ Cardinality(Passed(w)') <= Cardinality(Passed(w) \cup {Slot})
          /\ Cardinality(Passed(w) \cup {Slot}) \in Nat
      BY <3>1, <3>2, CardinalityMonotone
    <3>4. turns'[w] = turns[w] + 1
      BY <1>5, <1>6, <2>2
    <3> QED BY <2>1, <3>2, <3>3, <3>4
  <2>3. CASE ~(HisTurn(n) /\ w = Due.witness)
    <3>1. Passed(w)' \subseteq Passed(w)
      BY <1>4, <2>3
    <3>2. Cardinality(Passed(w)') \in Nat /\ Cardinality(Passed(w)') <= Cardinality(Passed(w))
      BY <2>1, <3>1, CardinalityMonotone
    <3>3. turns'[w] = turns[w]
      BY <1>5, <1>6, <2>3
    <3> QED BY <2>1, <3>2, <3>3
  <2> QED BY <2>2, <2>3
<1>9. ChargedOK'
  BY <1>1, <1>5, <1>6, <1>7, <1>8 DEF ChargedOK
<1> QED BY <1>1, <1>3, <1>9, SameChainInv DEF ProductionInv

\* With the next second begins at most one slot, which nobody has let pass.
LEMMA NextSecondInv ==
  ASSUME ProductionInv, NextSecond
  PROVE  ProductionInv'
<1>1. /\ UNCHANGED <<s, signers, setting, turns, enabled>> /\ clock \in Nat /\ setting \in Settings /\ StateOK(s)
      /\ clock' = clock + 1 /\ waiting = {} /\ waiting' = DOMAIN setting.runs
  BY ClockType DEF NextSecond, ProductionInv, NodesOK, Nodes, history
<1>2. clock' \in setting.genesis .. setting.max_clock
  BY <1>1, ClockType DEF NextSecond
<1>3. NodesOK'
  BY <1>1 DEF NodesOK, ProductionInv
<1>4. ASSUME NEW w \in Witnesses PROVE Passed(w)' \subseteq Passed(w)
  <2> SUFFICES ASSUME NEW i \in Passed(w)' PROVE i \in Passed(w)
    OBVIOUS
  <2>1. Slot' \in Nat
    <3>1. get_slot_at_time(s, clock + 1) \in Nat
      BY <1>1, SlotAt
    <3>2. Slot' = get_slot_at_time(s, clock + 1)
      BY <1>1 DEF Slot, get_slot_at_time, get_slot_time, block_interval, Params
    <3> QED BY <3>1, <3>2
  <2>2. /\ i \in 1..Slot' /\ get_scheduled_witness(s, i)' = w
        /\ get_slot_time(s, i)' < clock' \/ \A n \in waiting' : w \notin setting'.runs[n]
    BY DEF Passed
  <2>3. get_scheduled_witness(s, i) = w /\ get_slot_time(s, i)' = get_slot_time(s, i)
    BY <1>1, <2>2 DEF get_scheduled_witness, get_slot_time, block_interval, Params
  <2>4. \E n \in waiting' : w \in setting'.runs[n]
    BY <1>1, SettingsAssumption
  <2>5. i \in Nat \ {0} /\ get_slot_time(s, i) \in Nat /\ get_slot_time(s, i) <= clock
    <3>1. i \in Nat \ {0}
      BY <2>1, <2>2
    <3>2. get_slot_time(s, i) \in Nat
      BY <1>1, <3>1, SlotTimes
    <3> QED BY <1>1, <2>2, <2>3, <2>4, <3>1, <3>2
  <2>6. i <= Slot /\ Slot \in Nat
    BY <1>1, <2>5, SlotReached, SlotAt DEF Slot
  <2> QED BY <1>1, <2>3, <2>5, <2>6 DEF Passed
<1>5. ChargedOK'
  <2>1. ASSUME NEW w \in Witnesses PROVE s.recent_missed[w] + Cardinality(Passed(w)') <= turns[w]
    <3>1. /\ IsFiniteSet(Passed(w)) /\ Cardinality(Passed(w)) \in Nat /\ s.recent_missed[w] \in Nat
          /\ s.recent_missed[w] + Cardinality(Passed(w)) <= turns[w] /\ turns[w] \in Nat
      BY PassedFinite DEF ProductionInv, ChargedOK, StateOK
    <3>2. Cardinality(Passed(w)') \in Nat /\ Cardinality(Passed(w)') <= Cardinality(Passed(w))
      BY <1>4, <3>1, CardinalityMonotone
    <3> QED BY <3>1, <3>2
  <2> QED BY <1>1, <2>1 DEF ChargedOK, ProductionInv
<1> QED BY <1>1, <1>2, <1>3, <1>5, SameChainInv

\* Failures, recoveries and restarts change neither the chain nor who waits.
LEMMA OtherInv ==
  ASSUME ProductionInv, UNCHANGED <<clock, s, signers, waiting, turns, setting>>, DOMAIN enabled' = DOMAIN enabled
  PROVE  ProductionInv'
<1>1. NodesOK'
  BY DEF NodesOK, ProductionInv
<1>2. \A w : Passed(w)' = Passed(w)
  BY DEF Passed, Slot, get_slot_at_time, get_slot_time, block_interval, Params, get_scheduled_witness
<1>3. ChargedOK'
  BY <1>2 DEF ChargedOK, ProductionInv
<1> QED BY <1>1, <1>3, SameChainInv DEF ProductionInv

\* Every step is one of these.
LEMMA ProductionInvCorrect == Spec => []ProductionInv
<1>1. ProductionInv /\ [Next]_vars => ProductionInv'
  <2> SUFFICES ASSUME ProductionInv, [Next]_vars PROVE ProductionInv'
    OBVIOUS
  <2>1. CASE NextSecond
    BY <2>1, NextSecondInv
  <2>2. ASSUME NEW n \in Nodes, Produce(n) PROVE ProductionInv'
    BY <2>2, ProduceInv
  <2>3. ASSUME NEW n \in Nodes, DoNotProduce(n) PROVE ProductionInv'
    BY <2>3, DoNotProduceInv
  <2>4. ASSUME NEW n \in Nodes, RestartNode(n) PROVE ProductionInv'
    BY <2>4, OtherInv DEF RestartNode
  <2>5. ASSUME NEW ws \in setting.faults, Fail(ws) PROVE ProductionInv'
    BY <2>5, OtherInv DEF Fail, history
  <2>6. CASE Recover
    BY <2>6, OtherInv DEF Recover
  <2>7. CASE UNCHANGED vars
    BY <2>7, OtherInv DEF vars, history
  <2> QED BY <2>1, <2>2, <2>3, <2>4, <2>5, <2>6, <2>7 DEF Next
<1> QED BY <1>1, InitInv, PTL DEF Spec

-----------------------------------------------------------------------------
\* The next maintenance is ahead and not further than an interval, also
\* after intervals without a block and after the interval was changed
\* (perform_chain_maintenance).
THEOREM NextMaintenanceIsAhead == Spec => []MaintenanceAhead
<1>1. ProductionInv => MaintenanceAhead
  BY DEF ProductionInv
<1> QED BY <1>1, ProductionInvCorrect, PTL

\* No witness is charged with more missed blocks than turns it has let pass
\* (update_global_dynamic_data against the production loop of the plugin).
THEOREM WitnessesChargedRightly == Spec => []MissedRightly
<1>1. ProductionInv => MissedRightly
  <2> SUFFICES ASSUME ProductionInv, NEW w \in Witnesses PROVE s.recent_missed[w] <= turns[w]
    BY DEF MissedRightly
  <2>1. /\ Cardinality(Passed(w)) \in Nat /\ s.recent_missed[w] \in Nat
        /\ s.recent_missed[w] + Cardinality(Passed(w)) <= turns[w] /\ turns[w] \in Nat
    BY PassedFinite DEF ProductionInv, ChargedOK, StateOK
  <2> QED BY <2>1
<1> QED BY <1>1, ProductionInvCorrect, PTL

\* A slot that has come lies after the head block, and while the undo
\* history suffices every node accepts a block of the witness scheduled for
\* it (get_slot_time, get_slot_at_time, validate_block_header).
THEOREM UsableSlots == Spec => [](HistorySuffices => SlotsAreUsable)
<1>1. ProductionInv => (HistorySuffices => SlotsAreUsable)
  <2> SUFFICES ASSUME ProductionInv, HistorySuffices, Slot > 0
               PROVE  s.time < Due.time /\ Due.time <= clock /\ Valid(s, Due)
    BY DEF SlotsAreUsable
  <2>1. /\ Slot \in Nat \ {0} /\ s.time < Due.time /\ Due.time <= clock
        /\ get_slot_at_time(s, Due.time) = Slot
        /\ Due.witness = get_scheduled_witness(s, Slot)
    BY DueFacts
  <2>2. s.num + 1 - s.lib < setting.max_undo
    <3>1. s.num \in Nat /\ s.lib \in Nat /\ setting.max_undo \in Nat
      BY SettingsAssumption DEF ProductionInv, StateOK
    <3> QED BY <3>1 DEF HistorySuffices
  <2> HIDE DEF Slot, Due
  <2> QED BY <2>1, <2>2 DEF Valid
<1> QED BY <1>1, ProductionInvCorrect, PTL

\* When a block becomes irreversible, the share of the active witnesses that
\* the threshold names have signed it or a block after it
\* (update_last_irreversible_block).
THEOREM IrreversibleBlocksBacked == Spec => IrreversibleIsBacked
<1>1. ASSUME ProductionInv, ProductionInv', NEW n, Produce(n), s'.lib > s.lib
      PROVE  LET backing == {w \in s.active : \E i \in s'.lib .. s'.num : signers'[i] = w}
             IN 100 * Cardinality(backing) >= Threshold * Cardinality(s.active)
  <2> DEFINE v == Confirmed(s, Due)
             A == s.active
             last == s'.lib
             below == {w \in A : s'.confirmed[w] < last}
             backing == {w \in A : \E i \in last .. s'.num : signers'[i] = w}
  <2>1. /\ StateOK(v) /\ v.active = A /\ v.num = s'.num /\ v.confirmed = s'.confirmed
        /\ last \in {s.lib, LastConfirmed(v)} /\ StateOK(s')
    BY <1>1, ProduceEffect
  <2> HIDE DEF v
  <2>2. \A w \in Witnesses : s'.confirmed[w] <= s'.num /\ (s'.confirmed[w] > 0 => signers'[s'.confirmed[w]] = w)
    BY <1>1 DEF ProductionInv, SignersOK
  <2>3. A \subseteq Witnesses /\ s.lib \in Nat /\ s'.num \in Nat /\ \A w \in Witnesses : s'.confirmed[w] \in Nat
    BY <1>1, <2>1 DEF ProductionInv, StateOK
  <2>4. last = LastConfirmed(v) /\ last \in Nat \ {0} /\ Cardinality(below) <= Offset(v)
    <3>1. \A w \in v.active : v.confirmed[w] <= v.num
      BY <2>1, <2>2, <2>3
    <3>2. /\ LastConfirmed(v) \in Nat
          /\ Cardinality({w \in v.active : v.confirmed[w] < LastConfirmed(v)}) <= Offset(v)
      BY <2>1, <3>1, LastConfirmedIsNth
    <3>3. last = LastConfirmed(v)
      BY <1>1, <2>1, <2>3
    <3> QED BY <1>1, <2>1, <2>3, <3>2, <3>3
  <2>5. A \ below \subseteq backing
    <3> SUFFICES ASSUME NEW w \in A, ~(s'.confirmed[w] < last) PROVE w \in backing
      OBVIOUS
    <3>1. s'.confirmed[w] \in last .. s'.num /\ signers'[s'.confirmed[w]] = w
      BY <2>2, <2>3, <2>4
    <3> QED BY <3>1
  <2>6. /\ IsFiniteSet(A) /\ IsFiniteSet(backing) /\ IsFiniteSet(below)
        /\ below \in SUBSET A /\ backing \in SUBSET A
    BY <2>3, WitnessesFinite, FS_Subset
  <2> HIDE DEF A, below, backing, last
  <2>7. /\ Cardinality(A \ below) = Cardinality(A) - Cardinality(below)
        /\ Cardinality(A) \in Nat /\ Cardinality(below) \in Nat
    <3>1. A \cap below = below
      BY <2>6
    <3> QED BY <2>6, <3>1, FS_Difference, FS_CardinalityType
  <2>8. Cardinality(A \ below) <= Cardinality(backing) /\ Cardinality(backing) \in Nat
    BY <2>5, <2>6, CardinalityMonotone
  <2>9. /\ Offset(v) \in Nat
        /\ 100 * (Cardinality(A) - Offset(v)) >= Threshold * Cardinality(A)
    BY <2>1, OffsetBounds
  <2>10. PICK x \in Int : x = Threshold * Cardinality(A)
    BY <2>7, SettingsAssumption
  <2>11. 100 * Cardinality(backing) >= Threshold * Cardinality(A)
    BY <2>4, <2>7, <2>8, <2>9, <2>10
  <2> QED BY <2>11 DEF A, backing, last
<1>2. ProductionInv /\ ProductionInv' /\ [Next]_vars =>
        [s'.lib > s.lib =>
           LET backing == {w \in s.active : \E i \in s'.lib .. s'.num : signers'[i] = w}
           IN 100 * Cardinality(backing) >= Threshold * Cardinality(s.active)]_vars
  <2> SUFFICES ASSUME ProductionInv, ProductionInv', [Next]_vars, s'.lib > s.lib
               PROVE  LET backing == {w \in s.active : \E i \in s'.lib .. s'.num : signers'[i] = w}
                      IN 100 * Cardinality(backing) >= Threshold * Cardinality(s.active)
    OBVIOUS
  <2>1. s' # s
    <3>1. s.lib \in Nat
      BY DEF ProductionInv, StateOK
    <3> QED BY <3>1
  <2>2. \E n \in Nodes : Produce(n)
    BY <2>1 DEF Next, NextSecond, DoNotProduce, RestartNode, Fail, Recover, vars
  <2> QED BY <1>1, <2>2
<1> QED BY <1>2, ProductionInvCorrect, PTL DEF Spec, IrreversibleIsBacked
=============================================================================
