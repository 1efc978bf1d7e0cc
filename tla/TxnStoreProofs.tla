--------------------------- MODULE TxnStoreProofs ---------------------------
(***************************************************************************)
(* Proofs about TxnStore: its maps stay consistent (MapsConsistent), and   *)
(* its arrays of slots implement the atomic store (ImplementsAtomic), for  *)
(* any number of maps, slots, keys, values, transactions and operations.   *)
(*                                                                         *)
(* A commit is a loop over the staged operations, so both results rest on  *)
(* an induction over the operations applied so far (LoopInduction).        *)
(***************************************************************************)
EXTENDS TxnStore, LoopInduction, FiniteSetTheorems

-----------------------------------------------------------------------------
(* One map.                                                                *)

MapType == [valid : BOOLEAN, count : 0 .. MaxEntries,
            entries : [Slots -> Entry \cup {Unused}]]

OneSlotPerKey(m) ==
    \A i, j \in Used(m) : m.entries[i][1] = m.entries[j][1] => i = j

Sound(m) ==
    m.valid => OneSlotPerKey(m) /\ m.count = Cardinality(Used(m))

(* f is what the slots of m hold.                                          *)
Represents(m, f) ==
    /\ f \in [Keys -> Values \cup {Unused}]
    /\ \A i \in Used(m) : f[m.entries[i][1]] = m.entries[i][2]
    /\ \A k \in Keys : f[k] # Unused => SlotsOf(m, k) # {}

(* The map with entry e in slot i and the count c.                         *)
With(m, i, e, c) ==
    [valid |-> m.valid, count |-> c, entries |-> [m.entries EXCEPT ![i] = e]]

LEMMA FirstIn ==
    ASSUME NEW T \in SUBSET Nat, T # {}
    PROVE  First(T) \in T
<1>1. \E x \in T : \A y \in T : x <= y
    BY LeastElement
<1> QED  BY <1>1 DEF First

LEMMA SlotsAreNats == Slots \subseteq Nat /\ Handles \subseteq Nat /\ 1 \in Slots
    BY StoreAssumption DEF Slots, Handles

(* The slots of a map are finitely many; it is full when its count is the  *)
(* number of slots.                                                        *)
LEMMA UsedFinite ==
    ASSUME NEW m
    PROVE  /\ IsFiniteSet(Used(m))
           /\ Cardinality(Used(m)) \in 0 .. MaxEntries
           /\ Cardinality(Used(m)) = MaxEntries <=> Free(m) = {}
<1>1. IsFiniteSet(Slots) /\ Cardinality(Slots) = MaxEntries
    BY StoreAssumption, FS_Interval DEF Slots
<1>2. Used(m) \in SUBSET Slots
    BY DEF Used
<1>3. /\ IsFiniteSet(Used(m))
      /\ Cardinality(Used(m)) <= MaxEntries
      /\ Cardinality(Used(m)) = MaxEntries => Used(m) = Slots
    BY <1>1, <1>2, FS_Subset
<1>4. Cardinality(Used(m)) \in Nat
    BY <1>3, FS_CardinalityType
<1>5. Free(m) = {} => Used(m) = Slots
    BY <1>2 DEF Free
<1>6. Used(m) = Slots => Free(m) = {}
    BY DEF Free
<1> QED  BY <1>1, <1>3, <1>4, <1>5, <1>6, StoreAssumption

LEMMA EntryFacts ==
    ASSUME NEW m \in MapType
    PROVE  /\ \A i \in Used(m) : /\ m.entries[i] \in Entry
                                 /\ m.entries[i][1] \in Keys
                                 /\ m.entries[i][2] \in Values
                                 /\ m.entries[i][2] # Unused
           /\ \A e \in Entry : e # Unused
           /\ \A k \in Keys, v \in Values : <<k, v>> \in Entry /\ <<k, v>> # Unused
    BY StoreAssumption DEF MapType, Used, Entry

LEMMA FirstSlot ==
    ASSUME NEW m, NEW k
    PROVE  /\ SlotsOf(m, k) # {} => First(SlotsOf(m, k)) \in SlotsOf(m, k)
           /\ Free(m) # {} => First(Free(m)) \in Free(m)
<1>1. SlotsOf(m, k) \in SUBSET Nat /\ Free(m) \in SUBSET Nat
    BY SlotsAreNats DEF SlotsOf, Used, Free
<1> QED  BY <1>1, FirstIn

LEMMA WithType ==
    ASSUME NEW m \in MapType, NEW i \in Slots, NEW e \in Entry \cup {Unused},
           NEW c \in 0 .. MaxEntries, NEW n, n = With(m, i, e, c)
    PROVE  /\ n \in MapType /\ (n.valid <=> m.valid) /\ n.count = c
           /\ n.entries[i] = e
           /\ \A j \in Slots : j # i => n.entries[j] = m.entries[j]
           /\ e # Unused => Used(n) = Used(m) \cup {i}
           /\ e = Unused => Used(n) = Used(m) \ {i}
    BY DEF With, MapType, Used

(* A new key in a free slot.                                               *)
LEMMA PutNew ==
    ASSUME NEW m \in MapType, m.valid, Sound(m), NEW k \in Keys,
           NEW v \in Values, SlotsOf(m, k) = {}, NEW i \in Free(m),
           NEW f, Represents(m, f)
    PROVE  /\ With(m, i, <<k, v>>, m.count + 1) \in MapType
           /\ Sound(With(m, i, <<k, v>>, m.count + 1))
           /\ Represents(With(m, i, <<k, v>>, m.count + 1),
                         [f EXCEPT ![k] = v])
<1> DEFINE n == With(m, i, <<k, v>>, m.count + 1)
<1>1. i \in Slots /\ i \notin Used(m) /\ <<k, v>> \in Entry /\ <<k, v>> # Unused
    BY EntryFacts DEF Free
<1>2. /\ IsFiniteSet(Used(m)) /\ m.count = Cardinality(Used(m))
      /\ m.count + 1 \in 0 .. MaxEntries
    BY UsedFinite, StoreAssumption DEF Sound
<1>0. n = With(m, i, <<k, v>>, m.count + 1)
    OBVIOUS
<1> HIDE DEF n
<1>3. /\ n \in MapType /\ (n.valid <=> m.valid) /\ n.count = m.count + 1
      /\ n.entries[i] = <<k, v>>
      /\ \A j \in Slots : j # i => n.entries[j] = m.entries[j]
      /\ Used(n) = Used(m) \cup {i}
    BY <1>0, <1>1, <1>2, WithType
<1>4. \A j \in Used(m) : j \in Slots /\ j # i /\ m.entries[j][1] # k
    BY <1>1 DEF SlotsOf, Used
<1>5. Cardinality(Used(n)) = m.count + 1
  <2>1. Cardinality(Used(m) \cup {i}) = Cardinality(Used(m)) + 1
    BY <1>1, <1>2, FS_AddElement
  <2> QED  BY <1>2, <1>3, <2>1
<1>6. OneSlotPerKey(n)
    BY <1>1, <1>3, <1>4 DEF Sound, OneSlotPerKey
<1>7. Sound(n)
    BY <1>3, <1>5, <1>6 DEF Sound
<1>8. ASSUME NEW j \in Used(n)
      PROVE  [f EXCEPT ![k] = v][n.entries[j][1]] = n.entries[j][2]
    BY <1>1, <1>3, <1>4, <1>8, EntryFacts DEF Represents
<1>9. ASSUME NEW x \in Keys, [f EXCEPT ![k] = v][x] # Unused
      PROVE  SlotsOf(n, x) # {}
  <2>1. CASE x = k
    BY <1>1, <1>3, <2>1 DEF SlotsOf
  <2>2. CASE x # k
    <3>1. PICK j \in SlotsOf(m, x) : TRUE
      BY <1>9, <2>2 DEF Represents
    <3>2. j \in SlotsOf(n, x)
      BY <1>3, <1>4, <3>1 DEF SlotsOf
    <3> QED  BY <3>2
  <2> QED  BY <2>1, <2>2
<1>10. [f EXCEPT ![k] = v] \in [Keys -> Values \cup {Unused}]
    BY DEF Represents
<1> QED  BY <1>3, <1>7, <1>8, <1>9, <1>10 DEF Represents, n

(* A new value for a key in the slot it has.                               *)
LEMMA Overwrite ==
    ASSUME NEW m \in MapType, m.valid, Sound(m), NEW k \in Keys,
           NEW v \in Values, NEW i \in SlotsOf(m, k),
           NEW f, Represents(m, f)
    PROVE  /\ With(m, i, <<k, v>>, m.count) \in MapType
           /\ Sound(With(m, i, <<k, v>>, m.count))
           /\ Represents(With(m, i, <<k, v>>, m.count), [f EXCEPT ![k] = v])
<1> DEFINE n == With(m, i, <<k, v>>, m.count)
<1>1. /\ i \in Slots /\ i \in Used(m) /\ m.entries[i][1] = k
      /\ <<k, v>> \in Entry /\ <<k, v>> # Unused /\ m.count \in 0 .. MaxEntries
    BY EntryFacts DEF SlotsOf, Used, MapType
<1>0. n = With(m, i, <<k, v>>, m.count)
    OBVIOUS
<1> HIDE DEF n
<1>2. /\ n \in MapType /\ (n.valid <=> m.valid) /\ n.count = m.count
      /\ n.entries[i] = <<k, v>>
      /\ \A j \in Slots : j # i => n.entries[j] = m.entries[j]
      /\ Used(n) = Used(m)
  <2>1. Used(n) = Used(m) \cup {i}
    BY <1>0, <1>1, WithType
  <2>2. Used(n) = Used(m)
    BY <1>1, <2>1
  <2>3. /\ n \in MapType /\ (n.valid <=> m.valid) /\ n.count = m.count
        /\ n.entries[i] = <<k, v>>
        /\ \A j \in Slots : j # i => n.entries[j] = m.entries[j]
    BY <1>0, <1>1, WithType
  <2> QED  BY <2>2, <2>3
<1>3. \A j \in Used(m) : /\ j \in Slots /\ n.entries[j][1] = m.entries[j][1]
                         /\ j # i => n.entries[j] = m.entries[j]
                         /\ j # i => m.entries[j][1] # k
    BY <1>1, <1>2 DEF Sound, OneSlotPerKey, Used
<1>4. n.entries[i][2] = v
    BY <1>1, <1>2
<1>5. Sound(n)
    BY <1>2, <1>3 DEF Sound, OneSlotPerKey
<1>6. ASSUME NEW j \in Used(n)
      PROVE  [f EXCEPT ![k] = v][n.entries[j][1]] = n.entries[j][2]
    BY <1>1, <1>2, <1>3, <1>4, EntryFacts DEF Represents
<1>7. ASSUME NEW x \in Keys, [f EXCEPT ![k] = v][x] # Unused
      PROVE  SlotsOf(n, x) # {}
  <2>1. CASE x = k
    BY <1>1, <1>2, <1>3, <2>1 DEF SlotsOf
  <2>2. CASE x # k
    <3>1. PICK j \in SlotsOf(m, x) : TRUE
      BY <1>7, <2>2 DEF Represents
    <3>2. j \in SlotsOf(n, x)
      BY <1>2, <1>3, <3>1 DEF SlotsOf
    <3> QED  BY <3>2
  <2> QED  BY <2>1, <2>2
<1>8. [f EXCEPT ![k] = v] \in [Keys -> Values \cup {Unused}]
    BY DEF Represents
<1> QED  BY <1>2, <1>5, <1>6, <1>7, <1>8 DEF Represents, n

(* A key taken out of the slot it has.                                     *)
LEMMA Remove ==
    ASSUME NEW m \in MapType, m.valid, Sound(m), NEW k \in Keys,
           NEW i \in SlotsOf(m, k), NEW f, Represents(m, f)
    PROVE  /\ With(m, i, Unused, m.count - 1) \in MapType
           /\ Sound(With(m, i, Unused, m.count - 1))
           /\ Represents(With(m, i, Unused, m.count - 1),
                         [f EXCEPT ![k] = Unused])
<1> DEFINE n == With(m, i, Unused, m.count - 1)
<1>1. i \in Slots /\ i \in Used(m) /\ m.entries[i][1] = k
    BY DEF SlotsOf, Used
<1>2. /\ IsFiniteSet(Used(m)) /\ m.count = Cardinality(Used(m))
      /\ Cardinality(Used(m) \ {i}) = m.count - 1
    BY <1>1, UsedFinite, FS_RemoveElement DEF Sound
<1>3. m.count - 1 \in 0 .. MaxEntries
  <2>1. Cardinality(Used(m)) # 0
    BY <1>1, <1>2, FS_EmptySet
  <2> QED  BY <1>2, <2>1, UsedFinite, StoreAssumption
<1>0. n = With(m, i, Unused, m.count - 1)
    OBVIOUS
<1> HIDE DEF n
<1>4. /\ n \in MapType /\ (n.valid <=> m.valid) /\ n.count = m.count - 1
      /\ n.entries[i] = Unused
      /\ \A j \in Slots : j # i => n.entries[j] = m.entries[j]
      /\ Used(n) = Used(m) \ {i}
    BY <1>0, <1>1, <1>3, WithType
<1>5. \A j \in Used(n) : /\ j \in Slots /\ j \in Used(m)
                         /\ n.entries[j] = m.entries[j] /\ m.entries[j][1] # k
    BY <1>1, <1>4 DEF Sound, OneSlotPerKey, Used
<1>6. Sound(n)
    BY <1>2, <1>4, <1>5 DEF Sound, OneSlotPerKey
<1>7. ASSUME NEW j \in Used(n)
      PROVE  [f EXCEPT ![k] = Unused][n.entries[j][1]] = n.entries[j][2]
    BY <1>5, EntryFacts DEF Represents
<1>8. ASSUME NEW x \in Keys, [f EXCEPT ![k] = Unused][x] # Unused
      PROVE  SlotsOf(n, x) # {}
  <2>1. x # k /\ f[x] # Unused
    BY <1>8 DEF Represents
  <2>2. PICK j \in SlotsOf(m, x) : TRUE
    BY <2>1 DEF Represents
  <2>3. j \in Used(n) /\ n.entries[j][1] = x
    BY <1>1, <1>4, <1>5, <2>1, <2>2 DEF SlotsOf
  <2> QED  BY <2>3 DEF SlotsOf
<1>9. [f EXCEPT ![k] = Unused] \in [Keys -> Values \cup {Unused}]
    BY DEF Represents
<1> QED  BY <1>4, <1>6, <1>7, <1>8, <1>9 DEF Represents, n

(* The map emptied but for one pair.                                       *)
LEMMA ReplaceAll ==
    ASSUME NEW m \in MapType, m.valid, NEW k \in Keys, NEW v \in Values
    PROVE  /\ map_replace_all(m, k, v) \in MapType
           /\ map_replace_all(m, k, v).valid
           /\ Sound(map_replace_all(m, k, v))
           /\ Represents(map_replace_all(m, k, v),
                         [x \in Keys |-> IF x = k THEN v ELSE Unused])
<1> DEFINE n == map_replace_all(m, k, v)
           g == [x \in Keys |-> IF x = k THEN v ELSE Unused]
<1>1. <<k, v>> \in Entry /\ <<k, v>> # Unused /\ 1 \in Slots /\ 1 \in 0 .. MaxEntries
    BY EntryFacts, SlotsAreNats, StoreAssumption
<1>2. /\ n \in MapType /\ n.valid /\ n.count = 1
      /\ n.entries = [NoEntries EXCEPT ![1] = <<k, v>>]
    BY <1>1 DEF map_replace_all, MapType, NoEntries
<1> HIDE DEF n
<1>3. n.entries[1] = <<k, v>> /\ \A j \in Slots : j # 1 => n.entries[j] = Unused
    BY <1>1, <1>2 DEF NoEntries
<1>4. Used(n) = {1}
    BY <1>1, <1>3 DEF Used
<1>5. Sound(n)
    BY <1>2, <1>4, FS_Singleton DEF Sound, OneSlotPerKey
<1>6. \A j \in Used(n) : g[n.entries[j][1]] = n.entries[j][2]
    BY <1>3, <1>4
<1>7. \A x \in Keys : g[x] # Unused => SlotsOf(n, x) # {}
    BY <1>3, <1>4 DEF SlotsOf
<1>8. g \in [Keys -> Values \cup {Unused}]
    OBVIOUS
<1> QED  BY <1>2, <1>5, <1>6, <1>7, <1>8 DEF Represents, n

(* The slots of a map are as many as the keys it holds: the test of        *)
(* map_insert for a free slot is a test of the number of keys.             *)
LEMMA KeysInUse ==
    ASSUME NEW m \in MapType, OneSlotPerKey(m), NEW f, Represents(m, f)
    PROVE  /\ IsFiniteSet({k \in Keys : f[k] # Unused})
           /\ Cardinality({k \in Keys : f[k] # Unused}) = Cardinality(Used(m))
<1> DEFINE T == {k \in Keys : f[k] # Unused}
           key == [i \in Used(m) |-> m.entries[i][1]]
<1>1. key \in [Used(m) -> T]
    BY EntryFacts DEF Represents
<1>2. \A i, j \in Used(m) : key[i] = key[j] => i = j
    BY DEF OneSlotPerKey
<1>3. \A k \in T : \E i \in Used(m) : key[i] = k
    BY DEF Represents, SlotsOf
<1> HIDE DEF key
<1>4. key \in Bijection(Used(m), T)
    BY <1>1, <1>2, <1>3 DEF Bijection, Injection, Surjection, IsInjective
<1>5. ExistsBijection(Used(m), T)
    BY <1>4 DEF ExistsBijection
<1>6. IsFiniteSet(Used(m))
    BY UsedFinite
<1> HIDE DEF T
<1>7. IsFiniteSet(T) /\ Cardinality(T) = Cardinality(Used(m))
    BY <1>5, <1>6, FS_Bijection
<1> QED  BY <1>7 DEF T

(* A key is absent from what a map holds exactly if no slot has it.        *)
LEMMA AbsentKey ==
    ASSUME NEW m \in MapType, NEW f, Represents(m, f), NEW k \in Keys
    PROVE  f[k] = Unused <=> SlotsOf(m, k) = {}
    BY EntryFacts DEF Represents, SlotsOf
-----------------------------------------------------------------------------
(* One operation on one map.                                               *)

LEMMA OpFacts ==
    ASSUME NEW o \in Op
    PROVE  /\ o.map \in Handles /\ o.key \in Keys
           /\ o.op \in {"INSERT", "UPDATE", "UPSERT", "REPLACE_ALL"}
                  => o.value \in Values
    BY DEF Op, Valued

LEMMA MapOpCases ==
    ASSUME NEW m, NEW o
    PROVE  /\ o.op = "INSERT" => MapOp(m, o) = map_insert(m, o.key, o.value)
           /\ o.op = "UPDATE" => MapOp(m, o) = map_update(m, o.key, o.value)
           /\ o.op = "UPSERT" => MapOp(m, o) = map_upsert(m, o.key, o.value)
           /\ o.op = "DELETE" => MapOp(m, o) = map_delete(m, o.key)
           /\ o.op = "REPLACE_ALL" =>
                  MapOp(m, o) = Ret("0", map_replace_all(m, o.key, o.value))
           /\ o.op \notin Atomic!Known => MapOp(m, o) = Ret("EINVAL", m)
    BY DEF MapOp, Atomic!Known

LEMMA EffectCases ==
    ASSUME NEW f \in [Keys -> Values \cup {Unused}], NEW o \in Op
    PROVE  /\ o.op = "INSERT" => Atomic!Effect(f, o) =
                  IF f[o.key] = Unused THEN [f EXCEPT ![o.key] = o.value] ELSE f
           /\ o.op = "UPDATE" => Atomic!Effect(f, o) =
                  IF f[o.key] # Unused THEN [f EXCEPT ![o.key] = o.value] ELSE f
           /\ o.op = "UPSERT" =>
                  Atomic!Effect(f, o) = [f EXCEPT ![o.key] = o.value]
           /\ o.op = "DELETE" =>
                  Atomic!Effect(f, o) = [f EXCEPT ![o.key] = Unused]
           /\ o.op = "REPLACE_ALL" => Atomic!Effect(f, o) =
                  [k \in Keys |-> IF k = o.key THEN o.value ELSE Unused]
    BY DEF Atomic!Effect

LEMMA SizeIsCardinality ==
    ASSUME NEW f
    PROVE  Atomic!Size(f) = Cardinality({k \in Keys : f[k] # Unused})
<1>1. \A S : Atomic!Cardinality(S) = Cardinality(S)
    BY Zenon DEF Atomic!Cardinality, Cardinality
<1> QED  BY <1>1 DEF Atomic!Size

(* What an operation on a valid, sound map gives, in terms of what the map *)
(* holds: r is the result of store.c, f what the map held before.          *)
Correct(r, f, o) ==
    /\ r.map \in MapType /\ r.map.valid /\ Sound(r.map)
    /\ r.rc \in {"0", "EEXIST", "ENOENT", "ENOSPC", "EINVAL"}
    /\ r.rc = "0" => /\ o.op \in Atomic!Known
                     /\ Represents(r.map, Atomic!Effect(f, o))
    /\ r.rc \in {"EEXIST", "ENOENT"} => /\ o.op \in Atomic!Known
                                        /\ Atomic!Effect(f, o) = f
    /\ r.rc \notin {"0", "EEXIST", "ENOENT"} /\ o.op \in Atomic!Known =>
           Atomic!Size(Atomic!Effect(f, o)) = MaxEntries + 1

LEMMA CorrectChange ==
    ASSUME NEW n \in MapType, n.valid, Sound(n), NEW f, NEW o,
           o.op \in Atomic!Known, Represents(n, Atomic!Effect(f, o))
    PROVE  Correct(Ret("0", n), f, o)
    BY DEF Correct, Ret

LEMMA ExceptIsWith ==
    ASSUME NEW m \in MapType, NEW i, NEW e
    PROVE  /\ [m EXCEPT !.entries[i] = e] = With(m, i, e, m.count)
           /\ [m EXCEPT !.entries[i] = e, !.count = @ + 1]
                  = With(m, i, e, m.count + 1)
           /\ [m EXCEPT !.entries[i] = e, !.count = @ - 1]
                  = With(m, i, e, m.count - 1)
<1> DEFINE en == [m.entries EXCEPT ![i] = e]
           m1 == [m EXCEPT !.entries = en]
<1>1. m1 = [valid |-> m.valid, count |-> m.count, entries |-> en]
    BY DEF MapType
<1>2. [m EXCEPT !.entries[i] = e] = m1
    OBVIOUS
<1>3. [m EXCEPT !.entries[i] = e, !.count = @ + 1] = [m1 EXCEPT !.count = m.count + 1]
    OBVIOUS
<1>4. [m EXCEPT !.entries[i] = e, !.count = @ - 1] = [m1 EXCEPT !.count = m.count - 1]
    OBVIOUS
<1> HIDE DEF m1
<1>5. \A c : [m1 EXCEPT !.count = c] = [valid |-> m.valid, count |-> c, entries |-> en]
    BY <1>1
<1>6. /\ m1 = With(m, i, e, m.count)
      /\ [m1 EXCEPT !.count = m.count + 1] = With(m, i, e, m.count + 1)
      /\ [m1 EXCEPT !.count = m.count - 1] = With(m, i, e, m.count - 1)
    BY <1>1, <1>5 DEF With
<1>7. [m EXCEPT !.entries[i] = e, !.count = @ + 1] = With(m, i, e, m.count + 1)
    BY <1>3, <1>6
<1>8. [m EXCEPT !.entries[i] = e, !.count = @ - 1] = With(m, i, e, m.count - 1)
    BY <1>4, <1>6
<1> QED  BY <1>2, <1>6, <1>7, <1>8

(* An insertion of an absent key: it goes to the first free slot, or there *)
(* is none and the map would hold one key too many.                        *)
LEMMA InsertAbsent ==
    ASSUME NEW m \in MapType, m.valid, Sound(m), NEW o \in Op, NEW f,
           Represents(m, f), o.op \in {"INSERT", "UPSERT"},
           SlotsOf(m, o.key) = {}
    PROVE  Correct(map_insert(m, o.key, o.value), f, o)
<1> DEFINE k == o.key  v == o.value  g == [f EXCEPT ![k] = v]
<1>1. /\ k \in Keys /\ v \in Values /\ f \in [Keys -> Values \cup {Unused}]
      /\ f[k] = Unused /\ Atomic!Effect(f, o) = g /\ o.op \in Atomic!Known
      /\ v # Unused
    BY OpFacts, EffectCases, AbsentKey, StoreAssumption
       DEF Represents, Atomic!Known
<1>2. CASE Free(m) # {}
  <2>1. PICK i \in Free(m) : i = First(Free(m))
    BY <1>2, FirstSlot
  <2>2. map_insert(m, k, v) = Ret("0", With(m, i, <<k, v>>, m.count + 1))
    BY <1>2, <2>1, ExceptIsWith DEF map_insert
  <2>3. With(m, i, <<k, v>>, m.count + 1).valid
    BY DEF With
  <2> QED  BY <1>1, <2>1, <2>2, <2>3, PutNew, CorrectChange
<1>3. CASE Free(m) = {}
  <2>1. map_insert(m, k, v) = Ret("ENOSPC", m)
    BY <1>3 DEF map_insert
  <2> DEFINE T == {x \in Keys : f[x] # Unused}
  <2>2. IsFiniteSet(T) /\ Cardinality(T) = MaxEntries
    BY <1>3, KeysInUse, UsedFinite DEF Sound
  <2>3. {x \in Keys : g[x] # Unused} = T \cup {k} /\ k \notin T
    BY <1>1
  <2> HIDE DEF T
  <2>4. IsFiniteSet(T \cup {k}) /\ Cardinality(T \cup {k}) = MaxEntries + 1
    BY <2>2, <2>3, FS_AddElement
  <2>5. Atomic!Size(g) = MaxEntries + 1
    <3>1. PICK h : h = g
      OBVIOUS
    <3>2. Atomic!Size(h) = Cardinality({x \in Keys : h[x] # Unused})
      BY SizeIsCardinality
    <3>3. {x \in Keys : h[x] # Unused} = {x \in Keys : g[x] # Unused}
      BY <3>1
    <3> QED  BY <2>3, <2>4, <3>1, <3>2, <3>3
  <2> QED  BY <1>1, <2>1, <2>5 DEF Correct, Ret
<1> QED  BY <1>2, <1>3

(* An update of a key that is there.                                       *)
LEMMA UpdatePresent ==
    ASSUME NEW m \in MapType, m.valid, Sound(m), NEW o \in Op, NEW f,
           Represents(m, f), o.op \in {"UPDATE", "UPSERT"},
           SlotsOf(m, o.key) # {}
    PROVE  Correct(map_update(m, o.key, o.value), f, o)
<1> DEFINE k == o.key  v == o.value
<1>1. /\ k \in Keys /\ v \in Values /\ f \in [Keys -> Values \cup {Unused}]
      /\ f[k] # Unused /\ Atomic!Effect(f, o) = [f EXCEPT ![k] = v]
      /\ o.op \in Atomic!Known
    BY OpFacts, EffectCases, AbsentKey DEF Represents, Atomic!Known
<1>2. PICK i \in SlotsOf(m, k) : i = First(SlotsOf(m, k))
    BY FirstSlot
<1>3. map_update(m, k, v) = Ret("0", With(m, i, <<k, v>>, m.count))
    BY <1>2, ExceptIsWith DEF map_update
<1>4. With(m, i, <<k, v>>, m.count).valid
    BY DEF With
<1> QED  BY <1>1, <1>2, <1>3, <1>4, Overwrite, CorrectChange

LEMMA DeletePresent ==
    ASSUME NEW m \in MapType, m.valid, Sound(m), NEW o \in Op, NEW f,
           Represents(m, f), o.op = "DELETE", SlotsOf(m, o.key) # {}
    PROVE  Correct(map_delete(m, o.key), f, o)
<1> DEFINE k == o.key
<1>1. /\ k \in Keys /\ f \in [Keys -> Values \cup {Unused}]
      /\ Atomic!Effect(f, o) = [f EXCEPT ![k] = Unused]
      /\ o.op \in Atomic!Known
    BY OpFacts, EffectCases DEF Represents, Atomic!Known
<1>2. PICK i \in SlotsOf(m, k) : i = First(SlotsOf(m, k))
    BY FirstSlot
<1>3. map_delete(m, k) = Ret("0", With(m, i, Unused, m.count - 1))
    BY <1>2, ExceptIsWith DEF map_delete
<1>4. With(m, i, Unused, m.count - 1).valid
    BY DEF With
<1> QED  BY <1>1, <1>2, <1>3, <1>4, Remove, CorrectChange

(* A refusal of an operation that would change nothing.                    *)
LEMMA SoftError ==
    ASSUME NEW m \in MapType, m.valid, Sound(m), NEW o \in Op, NEW f,
           Represents(m, f), NEW rc \in {"EEXIST", "ENOENT"},
           o.op \in Atomic!Known, Atomic!Effect(f, o) = f
    PROVE  Correct(Ret(rc, m), f, o)
    BY DEF Correct, Ret

(* Every operation is correct on a valid, sound map.                       *)
LEMMA MapOpCorrect ==
    ASSUME NEW m \in MapType, m.valid, Sound(m), NEW o \in Op, NEW f,
           Represents(m, f)
    PROVE  Correct(MapOp(m, o), f, o)
<1>1. o.key \in Keys /\ f \in [Keys -> Values \cup {Unused}]
    BY OpFacts DEF Represents
<1>2. f[o.key] = Unused <=> SlotsOf(m, o.key) = {}
    BY <1>1, AbsentKey
<1>3. CASE o.op = "INSERT"
  <2>1. CASE SlotsOf(m, o.key) = {}
    BY <1>3, <2>1, MapOpCases, InsertAbsent
  <2>2. CASE SlotsOf(m, o.key) # {}
    <3>1. MapOp(m, o) = Ret("EEXIST", m)
      BY <1>3, <2>2, MapOpCases DEF map_insert
    <3>2. Atomic!Effect(f, o) = f /\ o.op \in Atomic!Known
      BY <1>1, <1>2, <1>3, <2>2, EffectCases DEF Atomic!Known
    <3> QED  BY <3>1, <3>2, SoftError
  <2> QED  BY <2>1, <2>2
<1>4. CASE o.op = "UPDATE"
  <2>1. CASE SlotsOf(m, o.key) # {}
    BY <1>4, <2>1, MapOpCases, UpdatePresent
  <2>2. CASE SlotsOf(m, o.key) = {}
    <3>1. MapOp(m, o) = Ret("ENOENT", m)
      BY <1>4, <2>2, MapOpCases DEF map_update
    <3>2. Atomic!Effect(f, o) = f /\ o.op \in Atomic!Known
      BY <1>1, <1>2, <1>4, <2>2, EffectCases DEF Atomic!Known
    <3> QED  BY <3>1, <3>2, SoftError
  <2> QED  BY <2>1, <2>2
<1>5. CASE o.op = "UPSERT"
    BY <1>5, MapOpCases, UpdatePresent, InsertAbsent DEF map_upsert
<1>6. CASE o.op = "DELETE"
  <2>1. CASE SlotsOf(m, o.key) # {}
    BY <1>6, <2>1, MapOpCases, DeletePresent
  <2>2. CASE SlotsOf(m, o.key) = {}
    <3>1. MapOp(m, o) = Ret("ENOENT", m)
      BY <1>6, <2>2, MapOpCases DEF map_delete
    <3>2. [f EXCEPT ![o.key] = Unused] = f
      BY <1>1, <1>2, <2>2
    <3>3. Atomic!Effect(f, o) = f /\ o.op \in Atomic!Known
      BY <1>1, <1>6, <3>2, EffectCases DEF Atomic!Known
    <3> QED  BY <3>1, <3>3, SoftError
  <2> QED  BY <2>1, <2>2
<1>7. CASE o.op = "REPLACE_ALL"
  <2>1. o.value \in Values
    BY <1>7, OpFacts
  <2>2. Atomic!Effect(f, o) = [k \in Keys |-> IF k = o.key THEN o.value ELSE Unused]
    BY <1>1, <1>7, EffectCases
  <2>3. MapOp(m, o) = Ret("0", map_replace_all(m, o.key, o.value))
    BY <1>7, MapOpCases
  <2>4. o.op \in Atomic!Known
    BY <1>7 DEF Atomic!Known
  <2> QED  BY <1>1, <2>1, <2>2, <2>3, <2>4, ReplaceAll DEF Correct, Ret
<1>8. CASE o.op \notin Atomic!Known
  <2>1. MapOp(m, o) = Ret("EINVAL", m)
    BY <1>8, MapOpCases
  <2> QED  BY <1>8, <2>1 DEF Correct, Ret
<1> QED  BY <1>3, <1>4, <1>5, <1>6, <1>7, <1>8 DEF Atomic!Known

(* What a lookup of every key finds is what the map holds, and the only    *)
(* such function.                                                          *)
LEMMA LookupRepresents ==
    ASSUME NEW m \in MapType, m.valid, OneSlotPerKey(m)
    PROVE  Represents(m, [k \in Keys |-> merlin_store_lookup(m, k)])
<1> DEFINE g == [k \in Keys |-> merlin_store_lookup(m, k)]
<1>1. ASSUME NEW k \in Keys, SlotsOf(m, k) = {}
      PROVE  g[k] = Unused
    BY <1>1 DEF merlin_store_lookup
<1>2. ASSUME NEW k \in Keys, NEW i \in SlotsOf(m, k)
      PROVE  g[k] = m.entries[i][2]
  <2>1. First(SlotsOf(m, k)) \in SlotsOf(m, k)
    BY FirstSlot
  <2>2. First(SlotsOf(m, k)) = i
    BY <2>1 DEF OneSlotPerKey, SlotsOf
  <2>3. SlotsOf(m, k) # {}
    OBVIOUS
  <2> QED  BY <2>2, <2>3 DEF merlin_store_lookup
<1> HIDE DEF g
<1>3. \A i \in Used(m) : i \in SlotsOf(m, m.entries[i][1])
    BY DEF SlotsOf
<1>4. \A i \in Used(m) : g[m.entries[i][1]] = m.entries[i][2]
    BY <1>2, <1>3, EntryFacts
<1>5. \A k \in Keys : g[k] \in Values \cup {Unused}
    BY <1>1, <1>2, EntryFacts DEF SlotsOf
<1>6. \A k \in Keys : g[k] # Unused => SlotsOf(m, k) # {}
    BY <1>1
<1>7. g \in [Keys -> Values \cup {Unused}]
    BY <1>5 DEF g
<1> QED  BY <1>4, <1>6, <1>7 DEF Represents, g

LEMMA RepresentsUnique ==
    ASSUME NEW m \in MapType, m.valid, OneSlotPerKey(m), NEW f, Represents(m, f)
    PROVE  [k \in Keys |-> merlin_store_lookup(m, k)] = f
<1> DEFINE g == [k \in Keys |-> merlin_store_lookup(m, k)]
<1>1. Represents(m, g)
    BY LookupRepresents
<1> HIDE DEF g
<1>2. ASSUME NEW k \in Keys PROVE g[k] = f[k]
  <2>1. CASE SlotsOf(m, k) = {}
    BY <1>1, <2>1, AbsentKey
  <2>2. CASE SlotsOf(m, k) # {}
    BY <1>1, <2>2 DEF Represents, SlotsOf
  <2> QED  BY <2>1, <2>2
<1>3. g = f
    BY <1>1, <1>2 DEF Represents
<1> QED  BY <1>3 DEF g

(* A map that holds f has room for the keys of f.                          *)
LEMMA RepresentedFits ==
    ASSUME NEW m \in MapType, OneSlotPerKey(m), NEW f, Represents(m, f)
    PROVE  Atomic!Size(f) <= MaxEntries
<1>1. Atomic!Size(f) = Cardinality(Used(m))
    BY KeysInUse, SizeIsCardinality
<1> QED  BY <1>1, UsedFinite, StoreAssumption
-----------------------------------------------------------------------------
(* One pass of the commit loop.                                            *)

StoreType == {ms \in [Handles -> MapType] : \A h \in Handles : Sound(ms[h])}

Progress == [rc : {"0", "EBADF", "ENOSPC", "EINVAL"}, maps : StoreType]

Contents(ms) ==
    [h \in Handles |-> [k \in Keys |-> merlin_store_lookup(ms[h], k)]]

Abstracted(acc) ==
    [ok |-> IF acc.rc = "0" THEN TRUE ELSE FALSE, store |-> Contents(acc.maps)]

SameMaps(ms) == \A h \in Handles : ms[h].valid <=> maps[h].valid

(* The four ways a pass ends.                                              *)
LEMMA PassCases ==
    ASSUME NEW acc \in Progress, NEW o \in Op
    PROVE  /\ acc.rc # "0" => ApplyOne(acc, o) = acc
           /\ acc.rc = "0" /\ ~acc.maps[o.map].valid =>
                  ApplyOne(acc, o) = [rc |-> "EBADF", maps |-> acc.maps]
           /\ acc.rc = "0" /\ acc.maps[o.map].valid =>
                LET r == MapOp(acc.maps[o.map], o)
                IN  /\ r.rc = "0" => ApplyOne(acc, o) =
                          [rc |-> "0",
                           maps |-> [acc.maps EXCEPT ![o.map] = r.map]]
                    /\ r.rc \in {"EEXIST", "ENOENT"} => ApplyOne(acc, o) = acc
                    /\ r.rc \notin {"0", "EEXIST", "ENOENT"} => ApplyOne(acc, o) =
                          [rc |-> r.rc, maps |-> acc.maps]
<1> DEFINE r == MapOp(acc.maps[o.map], o)
<1>1. acc.rc # "0" => ApplyOne(acc, o) = acc
    BY DEF ApplyOne
<1>2. acc.rc = "0" /\ ~acc.maps[o.map].valid =>
          ApplyOne(acc, o) = [rc |-> "EBADF", maps |-> acc.maps]
    BY DEF ApplyOne, Progress
<1>3. ASSUME acc.rc = "0", acc.maps[o.map].valid, r.rc = "0"
      PROVE  ApplyOne(acc, o) =
                 [rc |-> "0", maps |-> [acc.maps EXCEPT ![o.map] = r.map]]
    BY <1>3 DEF ApplyOne, Progress
<1>4. ASSUME acc.rc = "0", acc.maps[o.map].valid, r.rc \in {"EEXIST", "ENOENT"}
      PROVE  ApplyOne(acc, o) = acc
    BY <1>4 DEF ApplyOne
<1>5. ASSUME acc.rc = "0", acc.maps[o.map].valid,
             r.rc \notin {"0", "EEXIST", "ENOENT"}
      PROVE  ApplyOne(acc, o) = [rc |-> r.rc, maps |-> acc.maps]
    BY <1>5 DEF ApplyOne, Progress
<1> QED  BY <1>1, <1>2, <1>3, <1>4, <1>5

(* A pass keeps the maps sound and keeps the handles that are valid.       *)
LEMMA PassSound ==
    ASSUME NEW acc \in Progress, NEW o \in Op
    PROVE  /\ ApplyOne(acc, o) \in Progress
           /\ \A h \in Handles :
                  ApplyOne(acc, o).maps[h].valid <=> acc.maps[h].valid
<1> DEFINE m == acc.maps[o.map]  r == MapOp(m, o)
<1>1. /\ o.map \in Handles /\ acc.maps \in StoreType /\ m \in MapType /\ Sound(m)
      /\ acc.rc \in {"0", "EBADF", "ENOSPC", "EINVAL"}
    BY OpFacts DEF Progress, StoreType
<1>2. CASE acc.rc # "0"
    BY <1>2, PassCases
<1>3. CASE acc.rc = "0" /\ ~m.valid
    BY <1>1, <1>3, PassCases DEF Progress
<1>4. CASE acc.rc = "0" /\ m.valid
  <2>1. PICK f : Represents(m, f)
    BY <1>1, <1>4, LookupRepresents DEF Sound
  <2>2. Correct(r, f, o)
    BY <1>1, <1>4, <2>1, MapOpCorrect
  <2> HIDE DEF r
  <2>3. CASE r.rc = "0"
    <3> DEFINE ms == [acc.maps EXCEPT ![o.map] = r.map]
    <3>1. ApplyOne(acc, o) = [rc |-> "0", maps |-> ms]
      BY <1>4, <2>3, PassCases DEF r
    <3>2. r.map \in MapType /\ Sound(r.map) /\ r.map.valid
      BY <2>2 DEF Correct
    <3>3. \A h \in Handles : ms[h] = IF h = o.map THEN r.map ELSE acc.maps[h]
      BY <1>1 DEF StoreType
    <3>4. ms \in [Handles -> MapType]
      BY <1>1, <3>2 DEF StoreType
    <3> HIDE DEF ms
    <3>5. ms \in StoreType
      BY <1>1, <3>2, <3>3, <3>4 DEF StoreType
    <3>6. \A h \in Handles : ms[h].valid <=> acc.maps[h].valid
      BY <1>4, <3>2, <3>3
    <3> QED  BY <3>1, <3>5, <3>6 DEF Progress
  <2>4. CASE r.rc \in {"EEXIST", "ENOENT"}
    BY <1>4, <2>4, PassCases DEF r
  <2>5. CASE r.rc \notin {"0", "EEXIST", "ENOENT"}
    <3>1. ApplyOne(acc, o) = [rc |-> r.rc, maps |-> acc.maps]
      BY <1>4, <2>5, PassCases DEF r
    <3>2. r.rc \in {"ENOSPC", "EINVAL"}
      BY <2>2, <2>5 DEF Correct
    <3> QED  BY <1>1, <3>1, <3>2 DEF Progress
  <2> QED  BY <2>3, <2>4, <2>5
<1> QED  BY <1>2, <1>3, <1>4

LEMMA AbstractedRecord ==
    ASSUME NEW rc, NEW ms
    PROVE  Abstracted([rc |-> rc, maps |-> ms]) =
               IF rc = "0" THEN [ok |-> TRUE, store |-> Contents(ms)]
               ELSE [ok |-> FALSE, store |-> Contents(ms)]
    BY DEF Abstracted

(* A pass over the slots is a step of the atomic store over what they      *)
(* hold.                                                                   *)
LEMMA PassAbstracts ==
    ASSUME NEW acc \in Progress, NEW o \in Op, SameMaps(acc.maps)
    PROVE  Atomic!Step(Abstracted(acc), o) = Abstracted(ApplyOne(acc, o))
<1> DEFINE m == acc.maps[o.map]  r == MapOp(m, o)
           c == Contents(acc.maps)  f == c[o.map]
<1>1. /\ o.map \in Handles /\ acc.maps \in StoreType /\ m \in MapType /\ Sound(m)
    BY OpFacts DEF Progress, StoreType
<1>2. f = [k \in Keys |-> merlin_store_lookup(m, k)]
    BY <1>1 DEF Contents
<1>3. /\ Abstracted(acc).store = c
      /\ Abstracted(acc).ok <=> acc.rc = "0"
      /\ Abstracted(acc) = [ok |-> Abstracted(acc).ok, store |-> c]
    BY DEF Abstracted
<1>4. o.map \in {h \in Handles : maps[h].valid} <=> m.valid
    BY <1>1 DEF SameMaps
<1>5. Atomic!Applicable(c, o) <=>
          /\ m.valid /\ o.op \in Atomic!Known
          /\ Atomic!Size(Atomic!Effect(f, o)) <= MaxEntries
    BY <1>4 DEF Atomic!Applicable
<1>6. ~(acc.rc = "0" /\ Atomic!Applicable(c, o)) =>
          Atomic!Step(Abstracted(acc), o) = [ok |-> FALSE, store |-> c]
    BY <1>3 DEF Atomic!Step, Abstracted
<1>7. acc.rc = "0" /\ Atomic!Applicable(c, o) =>
          Atomic!Step(Abstracted(acc), o) =
              [ok |-> TRUE, store |-> [c EXCEPT ![o.map] = Atomic!Effect(f, o)]]
    BY <1>3 DEF Atomic!Step, Abstracted
<1> HIDE DEF c, f
<1>8. CASE acc.rc # "0"
  <2>1. Abstracted(ApplyOne(acc, o)) = [ok |-> FALSE, store |-> c]
    BY <1>8, PassCases DEF Abstracted, c
  <2> QED  BY <1>6, <1>8, <2>1
<1>9. CASE acc.rc = "0" /\ ~m.valid
  <2>1. Abstracted(ApplyOne(acc, o)) = [ok |-> FALSE, store |-> c]
    <3>1. ApplyOne(acc, o) = [rc |-> "EBADF", maps |-> acc.maps]
      BY <1>9, PassCases
    <3>2. Abstracted([rc |-> "EBADF", maps |-> acc.maps]) = [ok |-> FALSE, store |-> c]
      BY AbstractedRecord DEF c
    <3> QED  BY <3>1, <3>2
  <2> QED  BY <1>5, <1>6, <1>9, <2>1
<1>10. CASE acc.rc = "0" /\ m.valid
  <2>1. Represents(m, f) /\ OneSlotPerKey(m)
    BY <1>1, <1>2, <1>10, LookupRepresents DEF Sound
  <2>2. Correct(r, f, o)
    BY <1>1, <1>10, <2>1, MapOpCorrect
  <2>3. \A n \in MapType : n.valid /\ Sound(n) => OneSlotPerKey(n)
    BY DEF Sound
  <2> HIDE DEF r
  <2>4. CASE r.rc = "0"
    <3> DEFINE ms == [acc.maps EXCEPT ![o.map] = r.map]
               g == Atomic!Effect(f, o)
    <3>1. ApplyOne(acc, o) = [rc |-> "0", maps |-> ms]
      BY <1>10, <2>4, PassCases DEF r
    <3>2. /\ r.map \in MapType /\ r.map.valid /\ OneSlotPerKey(r.map)
          /\ Represents(r.map, g) /\ o.op \in Atomic!Known
      BY <2>2, <2>3, <2>4 DEF Correct
    <3>3. Atomic!Size(g) <= MaxEntries
      BY <3>2, RepresentedFits
    <3>4. Atomic!Applicable(c, o)
      BY <1>5, <1>10, <3>2, <3>3
    <3>5. [k \in Keys |-> merlin_store_lookup(r.map, k)] = g
      BY <3>2, RepresentsUnique
    <3>6. \A h \in Handles : ms[h] = IF h = o.map THEN r.map ELSE acc.maps[h]
      BY <1>1 DEF StoreType
    <3> HIDE DEF ms, g
    <3>7. ASSUME NEW h \in Handles
          PROVE  Contents(ms)[h] = [c EXCEPT ![o.map] = g][h]
      <4>1. CASE h = o.map
        BY <1>1, <3>5, <3>6, <4>1 DEF Contents, c
      <4>2. CASE h # o.map
        BY <1>1, <3>6, <4>2 DEF Contents, c
      <4> QED  BY <4>1, <4>2
    <3>8. Contents(ms) = [c EXCEPT ![o.map] = g]
      BY <3>7 DEF Contents, c
    <3>9. Abstracted(ApplyOne(acc, o)) =
              [ok |-> TRUE, store |-> [c EXCEPT ![o.map] = g]]
      BY <3>1, <3>8, AbstractedRecord
    <3> QED  BY <1>7, <1>10, <3>4, <3>9 DEF g
  <2>5. CASE r.rc \in {"EEXIST", "ENOENT"}
    <3>1. Atomic!Effect(f, o) = f /\ o.op \in Atomic!Known
      BY <2>2, <2>5 DEF Correct
    <3>2. Atomic!Applicable(c, o)
      BY <1>1, <1>5, <1>10, <2>1, <3>1, RepresentedFits
    <3>3. [c EXCEPT ![o.map] = f] = c
      BY DEF c, f, Contents
    <3>4. Abstracted(ApplyOne(acc, o)) = [ok |-> TRUE, store |-> c]
      BY <1>10, <2>5, PassCases DEF Abstracted, c, r
    <3> QED  BY <1>7, <1>10, <3>1, <3>2, <3>3, <3>4
  <2>6. CASE r.rc \notin {"0", "EEXIST", "ENOENT"}
    <3>1. ~Atomic!Applicable(c, o)
      BY <1>5, <2>2, <2>6, StoreAssumption DEF Correct
    <3>2. Abstracted(ApplyOne(acc, o)) = [ok |-> FALSE, store |-> c]
      <4>1. ApplyOne(acc, o) = [rc |-> r.rc, maps |-> acc.maps]
        BY <1>10, <2>6, PassCases DEF r
      <4> QED  BY <2>6, <4>1, AbstractedRecord DEF c
    <3> QED  BY <1>6, <3>1, <3>2
  <2> QED  BY <2>4, <2>5, <2>6
<1> QED  BY <1>8, <1>9, <1>10
-----------------------------------------------------------------------------
(* The commit loop.                                                        *)

(* The loop has a run, and ApplyOps is its last state.                     *)
LEMMA CommitRuns ==
    ASSUME NEW ms \in StoreType, NEW ops \in Seq(Op)
    PROVE  \E d \in [0 .. Len(ops) -> Progress] :
               /\ d[0] = [rc |-> "0", maps |-> ms]
               /\ \A n \in 1 .. Len(ops) : d[n] = ApplyOne(d[n - 1], ops[n])
               /\ ApplyOps(ms, ops) = d[Len(ops)]
<1> DEFINE N == Len(ops)
           s0 == [rc |-> "0", maps |-> ms]
           F(d) == [n \in 0 .. N |->
                      IF n = 0 THEN s0 ELSE ApplyOne(d[n - 1], ops[n])]
           G == [n \in 1 .. N |-> [s \in Progress |-> ApplyOne(s, ops[n])]]
           D == CHOOSE d : d = F(d)
<1>1. N \in Nat /\ \A n \in 1 .. N : ops[n] \in Op
    OBVIOUS
<1>2. s0 \in Progress
    BY DEF Progress
<1>3. G \in [1 .. N -> [Progress -> Progress]]
    BY <1>1, PassSound
<1>4. \A s \in Progress, n \in 1 .. N : G[n][s] = ApplyOne(s, ops[n])
    OBVIOUS
<1>5. ApplyOps(ms, ops) = D[N]
    BY DEF ApplyOps
<1> HIDE DEF N, s0, G
<1>6. PICK f \in [0 .. N -> Progress] :
          f[0] = s0 /\ \A n \in 1 .. N : f[n] = G[n][f[n - 1]]
  <2>1. N \in Nat
    BY <1>1
  <2>2. PICK f : IsRun(f, Progress, s0, N, G)
    BY <1>2, <1>3, <2>1, LoopRuns
  <2> QED  BY <2>2 DEF IsRun
<1>7. \A n \in 1 .. N : n - 1 \in 0 .. N /\ n \in 0 .. N
    BY <1>1
<1>8. \A n \in 1 .. N : f[n] = ApplyOne(f[n - 1], ops[n])
    BY <1>4, <1>6, <1>7
<1>9. \A n \in 0 .. N : f[n] = F(f)[n]
    BY <1>1, <1>6, <1>8
<1>10. f = F(f)
    BY <1>6, <1>9
<1>11. D = F(D)
    BY <1>10
<1> HIDE DEF D
<1>12. D[0] = s0 /\ \A n \in 1 .. N : D[n] = ApplyOne(D[n - 1], ops[n])
    BY <1>1, <1>7, <1>11
<1>13. 0 .. N \subseteq {n \in 0 .. N : D[n] \in Progress}
  <2> DEFINE P == {n \in 0 .. N : D[n] \in Progress}
  <2>1. 0 \in P
    BY <1>1, <1>2, <1>12
  <2>2. \A n \in 0 .. N : n # 0 /\ n - 1 \in P => n \in P
    BY <1>1, <1>12, PassSound
  <2> HIDE DEF P
  <2>3. 0 .. N \subseteq P
    BY <1>1, <2>1, <2>2, UpTo
  <2> QED  BY <2>3 DEF P
<1>14. D \in [0 .. N -> Progress]
    BY <1>11, <1>13
<1> QED  BY <1>5, <1>12, <1>14 DEF N, s0

(* A commit keeps the maps sound and the handles that are valid, whatever  *)
(* error ends it.                                                          *)
LEMMA CommitSound ==
    ASSUME NEW ms \in StoreType, NEW ops \in Seq(Op)
    PROVE  /\ ApplyOps(ms, ops).maps \in StoreType
           /\ ApplyOps(ms, ops).rc \in {"0", "EBADF", "ENOSPC", "EINVAL"}
           /\ \A h \in Handles :
                  ApplyOps(ms, ops).maps[h].valid <=> ms[h].valid
<1>1. PICK d \in [0 .. Len(ops) -> Progress] :
               /\ d[0] = [rc |-> "0", maps |-> ms]
               /\ \A n \in 1 .. Len(ops) : d[n] = ApplyOne(d[n - 1], ops[n])
               /\ ApplyOps(ms, ops) = d[Len(ops)]
    BY CommitRuns
<1> DEFINE P == {n \in 0 .. Len(ops) :
                    \A h \in Handles : d[n].maps[h].valid <=> ms[h].valid}
<1>2. Len(ops) \in Nat /\ \A n \in 1 .. Len(ops) : ops[n] \in Op
    OBVIOUS
<1>3. 0 \in P
    BY <1>1, <1>2
<1>4. ASSUME NEW n \in 0 .. Len(ops), n # 0, n - 1 \in P
      PROVE  n \in P
  <2>1. n \in 1 .. Len(ops) /\ n - 1 \in 0 .. Len(ops)
    BY <1>2, <1>4
  <2>2. d[n] = ApplyOne(d[n - 1], ops[n]) /\ d[n - 1] \in Progress /\ ops[n] \in Op
    BY <1>1, <1>2, <2>1
  <2>3. \A h \in Handles : d[n].maps[h].valid <=> d[n - 1].maps[h].valid
    BY <2>2, PassSound
  <2> QED  BY <1>4, <2>3
<1> HIDE DEF P
<1>5. Len(ops) \in P
  <2>1. 0 .. Len(ops) \subseteq P
    BY <1>2, <1>3, <1>4, UpTo
  <2> QED  BY <1>2, <2>1
<1>6. d[Len(ops)] \in Progress
    BY <1>1, <1>2
<1> QED  BY <1>1, <1>5, <1>6 DEF P, Progress

(* A commit of the slots is a commit of what they hold.                    *)
LEMMA CommitAbstracts ==
    ASSUME maps \in StoreType, NEW ops \in Seq(Op)
    PROVE  Atomic!ApplyAll(Contents(maps), ops) = Abstracted(ApplyOps(maps, ops))
<1> DEFINE N == Len(ops)
           a0 == [ok |-> TRUE, store |-> Contents(maps)]
           F(e) == [n \in 0 .. N |->
                      IF n = 0 THEN a0 ELSE Atomic!Step(e[n - 1], ops[n])]
           E == CHOOSE e : e = F(e)
<1>1. Atomic!ApplyAll(Contents(maps), ops) = E[N]
    BY DEF Atomic!ApplyAll
<1>2. N \in Nat /\ \A n \in 1 .. N : ops[n] \in Op
    OBVIOUS
<1>3. PICK d \in [0 .. N -> Progress] :
               /\ d[0] = [rc |-> "0", maps |-> maps]
               /\ \A n \in 1 .. N : d[n] = ApplyOne(d[n - 1], ops[n])
               /\ ApplyOps(maps, ops) = d[N]
    BY CommitRuns
<1> HIDE DEF N
<1>4. \A n \in 0 .. N : SameMaps(d[n].maps)
  <2> DEFINE P == {n \in 0 .. N : SameMaps(d[n].maps)}
  <2>1. 0 \in P
    BY <1>2, <1>3 DEF SameMaps
  <2>2. ASSUME NEW n \in 0 .. N, n # 0, n - 1 \in P
        PROVE  n \in P
    <3>1. n \in 1 .. N /\ n - 1 \in 0 .. N
      BY <1>2, <2>2
    <3>2. d[n] = ApplyOne(d[n - 1], ops[n]) /\ d[n - 1] \in Progress /\ ops[n] \in Op
      BY <1>2, <1>3, <3>1
    <3> QED  BY <2>2, <3>2, PassSound DEF SameMaps
  <2> HIDE DEF P
  <2>3. 0 .. N \subseteq P
    BY <1>2, <2>1, <2>2, UpTo
  <2> QED  BY <2>3 DEF P
<1> DEFINE g == [n \in 0 .. N |-> Abstracted(d[n])]
<1>5. g[0] = a0
  <2>1. g[0] = Abstracted(d[0])
    BY <1>2
  <2>2. Abstracted([rc |-> "0", maps |-> maps]) = a0
    BY AbstractedRecord
  <2> QED  BY <1>3, <2>1, <2>2
<1>6. \A n \in 1 .. N : g[n] = Atomic!Step(g[n - 1], ops[n])
  <2> TAKE n \in 1 .. N
  <2>1. n \in 0 .. N /\ n - 1 \in 0 .. N
    BY <1>2
  <2>2. d[n] = ApplyOne(d[n - 1], ops[n]) /\ d[n - 1] \in Progress /\ ops[n] \in Op
    BY <1>2, <1>3, <2>1
  <2>3. Atomic!Step(Abstracted(d[n - 1]), ops[n]) = Abstracted(d[n])
    BY <1>4, <2>1, <2>2, PassAbstracts
  <2> QED  BY <2>1, <2>3
<1> HIDE DEF a0
<1>7. \A n \in 0 .. N : g[n] = F(g)[n]
  <2> HIDE DEF g
  <2> QED  BY <1>2, <1>5, <1>6
<1>8. g = F(g)
  <2>1. g = [n \in 0 .. N |-> g[n]]
    OBVIOUS
  <2> HIDE DEF g
  <2> QED  BY <1>7, <2>1
<1>9. g[N] = Abstracted(ApplyOps(maps, ops))
    BY <1>2, <1>3
<1> HIDE DEF g
<1>10. E = F(E)
    BY <1>8
<1> HIDE DEF E
<1>11. E[0] = a0 /\ \A n \in 1 .. N : E[n] = Atomic!Step(E[n - 1], ops[n])
    BY <1>2, <1>10
<1>12. E[N] = g[N]
  <2> DEFINE P == {n \in 0 .. N : E[n] = g[n]}
  <2>1. 0 \in P
    BY <1>2, <1>5, <1>11
  <2>2. \A n \in 0 .. N : n # 0 /\ n - 1 \in P => n \in P
    BY <1>2, <1>6, <1>11
  <2> HIDE DEF P
  <2>3. 0 .. N \subseteq P
    BY <1>2, <2>1, <2>2, UpTo
  <2>4. N \in P
    BY <1>2, <2>3
  <2> QED  BY <2>4 DEF P
<1> QED  BY <1>1, <1>9, <1>12 DEF N
-----------------------------------------------------------------------------
(* The store stays consistent.                                             *)

TxnType == [state : {"new", "open", "committed", "aborted"},
            ops : Seq(Op), touched : SUBSET Handles]

(* The inductive invariant: MapsConsistent with the soundness of maps that *)
(* are not valid left out, so that a loop over any mixture of maps keeps   *)
(* it, and the transactions typed as records.                              *)
StoreInv ==
    /\ maps \in StoreType
    /\ locked = [h \in Handles |-> FALSE]
    /\ txn \in [Txns -> TxnType]
    /\ \A t \in Txns : Len(txn[t].ops) <= MaxOps

LEMMA RecordUpdates ==
    /\ \A m \in MapType : \A x :
           /\ [m EXCEPT !.valid = x] =
                 [valid |-> x, count |-> m.count, entries |-> m.entries]
           /\ [m EXCEPT !.count = x] =
                 [valid |-> m.valid, count |-> x, entries |-> m.entries]
    /\ \A q \in TxnType : \A x :
           /\ [q EXCEPT !.state = x] =
                 [state |-> x, ops |-> q.ops, touched |-> q.touched]
           /\ [q EXCEPT !.ops = x] =
                 [state |-> q.state, ops |-> x, touched |-> q.touched]
           /\ [q EXCEPT !.touched = x] =
                 [state |-> q.state, ops |-> q.ops, touched |-> x]
<1>1. ASSUME NEW m \in MapType, NEW x
      PROVE  [m EXCEPT !.valid = x] =
                 [valid |-> x, count |-> m.count, entries |-> m.entries]
    BY DEF MapType
<1>2. ASSUME NEW m \in MapType, NEW x
      PROVE  [m EXCEPT !.count = x] =
                 [valid |-> m.valid, count |-> x, entries |-> m.entries]
    BY DEF MapType
<1>3. ASSUME NEW q \in TxnType, NEW x
      PROVE  /\ [q EXCEPT !.state = x] =
                   [state |-> x, ops |-> q.ops, touched |-> q.touched]
             /\ [q EXCEPT !.ops = x] =
                   [state |-> q.state, ops |-> x, touched |-> q.touched]
             /\ [q EXCEPT !.touched = x] =
                   [state |-> q.state, ops |-> q.ops, touched |-> x]
    BY DEF TxnType
<1> QED  BY <1>1, <1>2, <1>3

(* A map without entries is sound and holds nothing.                       *)
LEMMA EmptyMapSound ==
    ASSUME NEW m \in MapType, m.count = 0, m.entries = NoEntries
    PROVE  Sound(m) /\ \A k : SlotsOf(m, k) = {}
<1>1. Used(m) = {}
    BY DEF Used, NoEntries
<1>2. Sound(m)
    BY <1>1, FS_EmptySet DEF Sound, OneSlotPerKey
<1> QED  BY <1>1, <1>2 DEF SlotsOf

LEMMA ClearedSound ==
    /\ Cleared \in MapType /\ ~Cleared.valid /\ Sound(Cleared)
    /\ [Cleared EXCEPT !.valid = TRUE] \in MapType
    /\ [Cleared EXCEPT !.valid = TRUE].valid
    /\ Sound([Cleared EXCEPT !.valid = TRUE])
    /\ \A k : SlotsOf([Cleared EXCEPT !.valid = TRUE], k) = {}
<1>1. 0 \in 0 .. MaxEntries /\ NoEntries \in [Slots -> Entry \cup {Unused}]
    BY StoreAssumption DEF NoEntries
<1>2. /\ Cleared \in MapType /\ ~Cleared.valid
      /\ Cleared.count = 0 /\ Cleared.entries = NoEntries
    BY <1>1 DEF Cleared, MapType
<1>3. PICK m : m = [Cleared EXCEPT !.valid = TRUE]
    OBVIOUS
<1>4. m = [valid |-> TRUE, count |-> Cleared.count, entries |-> Cleared.entries]
    BY <1>2, <1>3, RecordUpdates
<1>5. m \in MapType /\ m.valid /\ m.count = 0 /\ m.entries = NoEntries
    BY <1>1, <1>2, <1>4 DEF MapType
<1>6. Sound(Cleared) /\ Sound(m) /\ \A k : SlotsOf(m, k) = {}
    BY <1>2, <1>5, EmptyMapSound
<1> QED  BY <1>2, <1>3, <1>5, <1>6

LEMMA StoreTypeUpdate ==
    ASSUME NEW ms \in StoreType, NEW h \in Handles, NEW m \in MapType, Sound(m)
    PROVE  [ms EXCEPT ![h] = m] \in StoreType
    BY DEF StoreType

LEMMA InitSound == Init => StoreInv
<1> SUFFICES ASSUME Init PROVE StoreInv
    OBVIOUS
<1>1. Cleared \in MapType /\ Sound(Cleared)
    BY ClearedSound
<1>2. maps \in StoreType
    BY <1>1 DEF Init, StoreType
<1>3. NewTxn \in TxnType /\ Len(NewTxn.ops) = 0
    BY DEF NewTxn, TxnType
<1>4. txn \in [Txns -> TxnType] /\ \A t \in Txns : Len(txn[t].ops) <= MaxOps
    BY <1>3, StoreAssumption DEF Init
<1> QED  BY <1>2, <1>4 DEF Init, StoreInv

LEMMA CreateSound == StoreInv /\ merlin_store_map_create => StoreInv'
<1> SUFFICES ASSUME StoreInv, merlin_store_map_create PROVE StoreInv'
    OBVIOUS
<1> DEFINE invalid == {h \in Handles : ~maps[h].valid}
<1>1. invalid \in SUBSET Nat /\ invalid # {}
    BY SlotsAreNats DEF merlin_store_map_create
<1> HIDE DEF invalid
<1>2. First(invalid) \in invalid
    BY <1>1, FirstIn
<1>3. First(invalid) \in Handles
    BY <1>2 DEF invalid
<1>4. maps' = [maps EXCEPT ![First(invalid)] = [Cleared EXCEPT !.valid = TRUE]]
    BY DEF merlin_store_map_create, invalid
<1>5. maps' \in StoreType
    BY <1>3, <1>4, ClearedSound, StoreTypeUpdate DEF StoreInv
<1> QED  BY <1>5 DEF StoreInv, merlin_store_map_create

LEMMA DestroyedMap ==
    ASSUME NEW ms \in StoreType, NEW h \in Handles
    PROVE  /\ [ms EXCEPT ![h].valid = FALSE, ![h].count = 0] =
                  [ms EXCEPT ![h] = [valid |-> FALSE, count |-> 0,
                                     entries |-> ms[h].entries]]
           /\ [valid |-> FALSE, count |-> 0, entries |-> ms[h].entries] \in MapType
           /\ Sound([valid |-> FALSE, count |-> 0, entries |-> ms[h].entries])
<1> DEFINE m == ms[h]
           n == [valid |-> FALSE, count |-> 0, entries |-> m.entries]
           m1 == [m EXCEPT !.valid = FALSE]
           ms1 == [ms EXCEPT ![h] = m1]
<1>1. ms \in [Handles -> MapType] /\ m \in MapType
    BY DEF StoreType
<1>2. m1 = [valid |-> FALSE, count |-> m.count, entries |-> m.entries]
    BY <1>1, RecordUpdates
<1>3. [ms EXCEPT ![h].valid = FALSE, ![h].count = 0] =
          [ms1 EXCEPT ![h] = [ms1[h] EXCEPT !.count = 0]]
    OBVIOUS
<1> HIDE DEF m1
<1>4. [m1 EXCEPT !.count = 0] = n
  <2>1. m1 \in MapType /\ ~m1.valid /\ m1.entries = m.entries
    BY <1>1, <1>2 DEF MapType
  <2>2. [m1 EXCEPT !.count = 0] =
            [valid |-> m1.valid, count |-> 0, entries |-> m1.entries]
    BY <2>1, RecordUpdates
  <2>3. m1.valid = FALSE
    BY <1>2
  <2> QED  BY <2>1, <2>2, <2>3
<1>5. ms1[h] = m1
    BY <1>1
<1>6. \A x : [ms1 EXCEPT ![h] = x] = [ms EXCEPT ![h] = x]
    BY <1>1
<1>7. [ms1 EXCEPT ![h] = [ms1[h] EXCEPT !.count = 0]] = [ms EXCEPT ![h] = n]
  <2> HIDE DEF ms1
  <2> QED  BY <1>4, <1>5, <1>6
<1>8. 0 \in 0 .. MaxEntries
    BY StoreAssumption
<1>9. n \in MapType
    BY <1>1, <1>8 DEF MapType
<1> QED  BY <1>3, <1>7, <1>9 DEF Sound

LEMMA DestroySound ==
    ASSUME StoreInv, NEW h \in Handles, merlin_store_map_destroy(h)
    PROVE  StoreInv'
<1> DEFINE n == [valid |-> FALSE, count |-> 0, entries |-> maps[h].entries]
<1>0. maps \in StoreType
    BY DEF StoreInv
<1>1. maps' = [maps EXCEPT ![h].valid = FALSE, ![h].count = 0]
    BY DEF merlin_store_map_destroy
<1>2. n \in MapType /\ Sound(n)
    BY <1>0, DestroyedMap
<1>3. maps' = [maps EXCEPT ![h] = n]
    BY <1>0, <1>1, DestroyedMap
<1> HIDE DEF n
<1>4. maps' \in StoreType
    BY <1>0, <1>2, <1>3, StoreTypeUpdate
<1> QED  BY <1>4 DEF merlin_store_map_destroy, StoreInv

LEMMA ClosedTxn ==
    ASSUME StoreInv, NEW t \in Txns,
           NEW s \in {"new", "open", "committed", "aborted"}
    PROVE  /\ Closed(t, s) \in [Txns -> TxnType]
           /\ \A u \in Txns : Len(Closed(t, s)[u].ops) <= MaxOps
           /\ \A u \in Txns : Closed(t, s)[u].state =
                                  IF u = t THEN s ELSE txn[u].state
           /\ \A u \in Txns : Closed(t, s)[u].ops =
                                  IF u = t THEN <<>> ELSE txn[u].ops
<1> DEFINE x == [NewTxn EXCEPT !.state = s]
<1>2. <<>> \in Seq(Op) /\ Len(<<>>) = 0
    OBVIOUS
<1>1. x = [state |-> s, ops |-> <<>>, touched |-> {}]
  <2>1. NewTxn \in TxnType /\ NewTxn.ops = <<>> /\ NewTxn.touched = {}
    BY <1>2 DEF NewTxn, TxnType
  <2>2. x = [state |-> s, ops |-> NewTxn.ops, touched |-> NewTxn.touched]
    BY <2>1, RecordUpdates
  <2> QED  BY <2>1, <2>2
<1> HIDE DEF x
<1>3. x \in TxnType /\ x.state = s /\ x.ops = <<>> /\ Len(x.ops) <= MaxOps
    BY <1>1, <1>2, StoreAssumption DEF TxnType
<1>4. Closed(t, s) = [txn EXCEPT ![t] = x]
    BY DEF Closed, x
<1> QED  BY <1>3, <1>4 DEF StoreInv

LEMMA StageSound ==
    ASSUME StoreInv, NEW t \in Txns, NEW o \in Op, merlin_txn_stage(t, o)
    PROVE  /\ StoreInv'
           /\ \A u \in Txns : txn'[u].state = txn[u].state
           /\ \A u \in Txns : txn'[u].ops =
                                  IF u = t THEN Append(txn[t].ops, o) ELSE txn[u].ops
<1> DEFINE q == txn[t]
           q1 == [q EXCEPT !.ops = Append(q.ops, o)]
           txn1 == [txn EXCEPT ![t] = q1]
           x == [state |-> q.state, ops |-> Append(q.ops, o),
                 touched |-> q.touched \cup {o.map}]
<1>1. txn \in [Txns -> TxnType] /\ q \in TxnType /\ Len(q.ops) < MaxOps
    BY DEF StoreInv, merlin_txn_stage
<1>2. q1 = [state |-> q.state, ops |-> Append(q.ops, o), touched |-> q.touched]
    BY <1>1, RecordUpdates
<1>3. txn' = [txn1 EXCEPT ![t] = [txn1[t] EXCEPT !.touched = txn1[t].touched \cup {o.map}]]
    BY DEF merlin_txn_stage
<1> HIDE DEF q1
<1>4. [q1 EXCEPT !.touched = q1.touched \cup {o.map}] = x
  <2>1. q1 \in TxnType
    BY <1>1, <1>2 DEF TxnType
  <2>2. [q1 EXCEPT !.touched = q1.touched \cup {o.map}] =
            [state |-> q1.state, ops |-> q1.ops,
             touched |-> q1.touched \cup {o.map}]
    BY <2>1, RecordUpdates
  <2> QED  BY <1>2, <2>2
<1>5. txn1[t] = q1
    BY <1>1
<1>6. \A y : [txn1 EXCEPT ![t] = y] = [txn EXCEPT ![t] = y]
    BY <1>1
<1> HIDE DEF txn1
<1>7. txn' = [txn EXCEPT ![t] = x]
    BY <1>3, <1>4, <1>5, <1>6
<1>8. q.ops \in Seq(Op) /\ Len(q.ops) \in Nat
    BY <1>1 DEF TxnType
<1>9. Append(q.ops, o) \in Seq(Op) /\ Len(Append(q.ops, o)) = Len(q.ops) + 1
    BY <1>8
<1>10. x \in TxnType /\ Len(x.ops) <= MaxOps /\ x.state = q.state
    BY <1>1, <1>8, <1>9, OpFacts, StoreAssumption DEF TxnType
<1> HIDE DEF x
<1>11. txn' \in [Txns -> TxnType] /\ \A u \in Txns : Len(txn'[u].ops) <= MaxOps
    BY <1>1, <1>7, <1>10 DEF StoreInv
<1>12. \A u \in Txns : /\ txn'[u].state = txn[u].state
                       /\ txn'[u].ops = IF u = t THEN Append(txn[t].ops, o)
                                        ELSE txn[u].ops
    BY <1>1, <1>7, <1>10 DEF x
<1> QED  BY <1>11, <1>12 DEF StoreInv, merlin_txn_stage

LEMMA CommitKeeps ==
    ASSUME StoreInv, NEW t \in Txns, NEW fast \in BOOLEAN,
           merlin_txn_commit(t, fast)
    PROVE  StoreInv'
<1> DEFINE r == ApplyOps(maps, txn[t].ops)
<1>1. txn[t].ops \in Seq(Op) /\ maps \in StoreType
    BY DEF StoreInv, TxnType
<1>2. r.maps \in StoreType
    BY <1>1, CommitSound
<1>3. maps' = r.maps
    BY DEF merlin_txn_commit
<1>4. locked' = [h \in Handles |-> FALSE]
    BY DEF merlin_txn_commit, StoreInv
<1>5. txn' = Closed(t, "committed") \/ txn' = Closed(t, "aborted")
    BY DEF merlin_txn_commit
<1> HIDE DEF r
<1> QED  BY <1>2, <1>3, <1>4, <1>5, ClosedTxn DEF StoreInv

LEMMA NextSound == StoreInv /\ [Next]_vars => StoreInv'
<1> SUFFICES ASSUME StoreInv, [Next]_vars PROVE StoreInv'
    OBVIOUS
<1>1. CASE merlin_store_map_create
    BY <1>1, CreateSound
<1>2. ASSUME NEW h \in Handles, merlin_store_map_destroy(h) PROVE StoreInv'
    BY <1>2, DestroySound
<1>3. ASSUME NEW t \in Txns, merlin_txn_begin(t) PROVE StoreInv'
  <2>1. txn' = Closed(t, "open")
    BY <1>3 DEF merlin_txn_begin, Closed
  <2>2. /\ Closed(t, "open") \in [Txns -> TxnType]
        /\ \A u \in Txns : Len(Closed(t, "open")[u].ops) <= MaxOps
    BY ClosedTxn
  <2> QED  BY <1>3, <2>1, <2>2 DEF merlin_txn_begin, StoreInv
<1>4. ASSUME NEW t \in Txns, merlin_txn_abort(t) PROVE StoreInv'
    BY <1>4, ClosedTxn DEF merlin_txn_abort, StoreInv
<1>5. ASSUME NEW t \in Txns, NEW o \in Op, merlin_txn_stage(t, o) PROVE StoreInv'
    BY <1>5, StageSound
<1>6. ASSUME NEW t \in Txns, NEW fast \in BOOLEAN, merlin_txn_commit(t, fast)
      PROVE  StoreInv'
    BY <1>6, CommitKeeps
<1>7. CASE UNCHANGED vars
    BY <1>7 DEF vars, StoreInv
<1> QED  BY <1>1, <1>2, <1>3, <1>4, <1>5, <1>6, <1>7 DEF Next

LEMMA SoundConsistent == StoreInv => MapsConsistent
<1> SUFFICES ASSUME StoreInv PROVE MapsConsistent
    OBVIOUS
<1>1. ASSUME NEW h \in Handles, maps[h].valid, NEW k \in Keys
      PROVE  Cardinality(SlotsOf(maps[h], k)) <= 1
  <2> DEFINE T == SlotsOf(maps[h], k)
  <2>1. OneSlotPerKey(maps[h])
    BY <1>1 DEF StoreInv, StoreType, Sound
  <2>2. \A i, j \in T : i = j
    BY <2>1 DEF OneSlotPerKey, SlotsOf
  <2> HIDE DEF T
  <2>3. T = {} \/ \E x : T = {x}
    BY <2>2
  <2>4. Cardinality(T) = 0 \/ Cardinality(T) = 1
    BY <2>3, FS_EmptySet, FS_Singleton
  <2> QED  BY <2>4 DEF T
<1>2. \A h \in Handles : maps[h].valid => maps[h].count = Cardinality(Used(maps[h]))
    BY DEF StoreInv, StoreType, Sound
<1>3. TypeOK
  <2>1. maps \in [Handles -> MapType] /\ locked \in [Handles -> BOOLEAN]
    BY DEF StoreInv, StoreType
  <2>2. \A t \in Txns : txn[t] \in TxnType /\ Len(txn[t].ops) <= MaxOps
    BY DEF StoreInv
  <2> QED  BY <2>1, <2>2 DEF TypeOK, MapType, TxnType
<1>4. \A h \in Handles : ~locked[h]
    BY DEF StoreInv
<1> QED  BY <1>1, <1>2, <1>3, <1>4 DEF MapsConsistent

(* MapsConsistent holds in every reachable state of the store: in a valid  *)
(* map no key has two slots and count is the number of used slots, no map  *)
(* stays locked, and no transaction holds more than MaxOps operations,     *)
(* whatever operations the commits apply and whatever error ends them.     *)
THEOREM MapsStayConsistent == Spec => []MapsConsistent
<1>1. Spec => []StoreInv
    BY InitSound, NextSound, PTL DEF Spec
<1> QED  BY <1>1, SoundConsistent, PTL
-----------------------------------------------------------------------------
(* The store implements the atomic store.                                  *)

Holds(m)     == [k \in Keys |-> merlin_store_lookup(m, k)]
Put(ms, h, m) == [ms EXCEPT ![h] = m]
Existing(ms) == {h \in Handles : ms[h].valid}
States(tx)   == [t \in Txns |-> tx[t].state]
Staged(tx)   == [t \in Txns |-> tx[t].ops]

(* A map that does not exist holds nothing.                                *)
LEMMA InvalidEmpty ==
    ASSUME NEW m, ~m.valid \/ \A k : SlotsOf(m, k) = {}
    PROVE  Holds(m) = [k \in Keys |-> Unused]
    BY DEF Holds, merlin_store_lookup

LEMMA ContentsUpdate ==
    ASSUME NEW ms \in [Handles -> MapType], NEW h \in Handles, NEW m,
           NEW n, n = Put(ms, h, m)
    PROVE  /\ Contents(n) = Put(Contents(ms), h, Holds(m))
           /\ m.valid => Existing(n) = Existing(ms) \cup {h}
           /\ ~m.valid => Existing(n) = Existing(ms) \ {h}
<1>1. \A g \in Handles : n[g] = IF g = h THEN m ELSE ms[g]
    BY DEF Put
<1>2. ASSUME NEW g \in Handles
      PROVE  Contents(n)[g] = [Contents(ms) EXCEPT ![h] = Holds(m)][g]
  <2>1. CASE g = h
    BY <1>1, <2>1 DEF Contents, Holds
  <2>2. CASE g # h
    BY <1>1, <2>2 DEF Contents
  <2> QED  BY <2>1, <2>2
<1>3. Contents(n) = Put(Contents(ms), h, Holds(m))
    BY <1>2 DEF Contents, Put
<1>4. m.valid => Existing(n) = Existing(ms) \cup {h}
    BY <1>1 DEF Existing
<1>5. ~m.valid => Existing(n) = Existing(ms) \ {h}
    BY <1>1 DEF Existing
<1> QED  BY <1>3, <1>4, <1>5

LEMMA InitAbstracts == Init => Atomic!AtomicInit
<1> SUFFICES ASSUME Init PROVE Atomic!AtomicInit
    OBVIOUS
<1>1. \A h \in Handles : maps[h] = Cleared /\ ~maps[h].valid
    BY ClearedSound DEF Init
<1>2. {h \in Handles : maps[h].valid} = {}
    BY <1>1
<1>3. [h \in Handles |-> [k \in Keys |-> merlin_store_lookup(maps[h], k)]]
          = [h \in Handles |-> [k \in Keys |-> Unused]]
    BY <1>1, InvalidEmpty DEF Holds
<1>4. \A t \in Txns : txn[t] = NewTxn /\ NewTxn.state = "new" /\ NewTxn.ops = <<>>
    BY DEF Init, NewTxn
<1>5. /\ [t \in Txns |-> txn[t].state] = [t \in Txns |-> "new"]
      /\ [t \in Txns |-> txn[t].ops] = [t \in Txns |-> <<>>]
    BY <1>4
<1> QED  BY <1>2, <1>3, <1>5 DEF Atomic!AtomicInit, Atomic!Empty

LEMMA CreateAbstracts ==
    ASSUME StoreInv, merlin_store_map_create
    PROVE  \E h \in Handles : Atomic!CreateMap(h)
<1> DEFINE invalid == {h \in Handles : ~maps[h].valid}
           h == First(invalid)
           m == [Cleared EXCEPT !.valid = TRUE]
           f == [k \in Keys |-> Unused]
<1>1. invalid \in SUBSET Nat /\ invalid # {}
    BY SlotsAreNats DEF merlin_store_map_create
<1> HIDE DEF invalid
<1>2. h \in invalid
    BY <1>1, FirstIn
<1>3. h \in Handles /\ ~maps[h].valid
    BY <1>2 DEF invalid
<1>4. maps' = [maps EXCEPT ![h] = m] /\ UNCHANGED txn
    BY DEF merlin_store_map_create, invalid
<1>5. maps \in [Handles -> MapType]
    BY DEF StoreInv, StoreType
<1>6. m.valid /\ Holds(m) = f
    BY ClearedSound, InvalidEmpty
<1> HIDE DEF h, m, f
<1>7. /\ Contents(maps') = [Contents(maps) EXCEPT ![h] = f]
      /\ Existing(maps') = Existing(maps) \cup {h}
  <2>1. maps' = Put(maps, h, m)
    BY <1>4 DEF Put
  <2>2. /\ Contents(maps') = Put(Contents(maps), h, Holds(m))
        /\ Existing(maps') = Existing(maps) \cup {h}
    BY <1>3, <1>5, <1>6, <2>1, ContentsUpdate
  <2> QED  BY <1>6, <2>2 DEF Put
<1>8. Contents(maps)[h] = f
    BY <1>3, InvalidEmpty DEF Contents, Holds, f
<1>9. Contents(maps') = Contents(maps)
  <2>1. Contents(maps) = [g \in Handles |-> Contents(maps)[g]]
    BY DEF Contents
  <2> QED  BY <1>7, <1>8, <2>1
<1>10. h \notin Existing(maps)
    BY <1>3 DEF Existing
<1> QED  BY <1>3, <1>4, <1>7, <1>9, <1>10
         DEF Atomic!CreateMap, Existing, Contents

LEMMA DestroyAbstracts ==
    ASSUME StoreInv, NEW h \in Handles, merlin_store_map_destroy(h)
    PROVE  Atomic!DestroyMap(h)
<1> DEFINE m == [valid |-> FALSE, count |-> 0, entries |-> maps[h].entries]
           f == [k \in Keys |-> Unused]
<1>1. maps \in StoreType /\ maps \in [Handles -> MapType]
    BY DEF StoreInv, StoreType
<1>2. maps' = [maps EXCEPT ![h] = m]
    BY <1>1, DestroyedMap DEF merlin_store_map_destroy
<1>3. ~m.valid /\ Holds(m) = f
    BY InvalidEmpty
<1> HIDE DEF m, f
<1>4. /\ Contents(maps') = [Contents(maps) EXCEPT ![h] = f]
      /\ Existing(maps') = Existing(maps) \ {h}
  <2>1. maps' = Put(maps, h, m)
    BY <1>2 DEF Put
  <2>2. /\ Contents(maps') = Put(Contents(maps), h, Holds(m))
        /\ Existing(maps') = Existing(maps) \ {h}
    BY <1>1, <1>3, <2>1, ContentsUpdate
  <2> QED  BY <1>3, <2>2 DEF Put
<1>5. h \in Existing(maps) /\ UNCHANGED txn
    BY DEF Existing, merlin_store_map_destroy
<1> QED  BY <1>4, <1>5
         DEF Atomic!DestroyMap, Atomic!Empty, Existing, Contents, f

(* A transaction that is closed or opened: its state and its operations.   *)
LEMMA CloseAbstracts ==
    ASSUME StoreInv, NEW t \in Txns,
           NEW s \in {"new", "open", "committed", "aborted"},
           txn' = Closed(t, s)
    PROVE  /\ States(txn') = [States(txn) EXCEPT ![t] = s]
           /\ Staged(txn') = [Staged(txn) EXCEPT ![t] = <<>>]
<1>1. \A u \in Txns : /\ txn'[u].state = IF u = t THEN s ELSE txn[u].state
                      /\ txn'[u].ops = IF u = t THEN <<>> ELSE txn[u].ops
    BY ClosedTxn
<1> QED  BY <1>1 DEF States, Staged

LEMMA BeginAbstracts ==
    ASSUME StoreInv, NEW t \in Txns, merlin_txn_begin(t)
    PROVE  Atomic!BeginTxn(t)
<1>1. txn' = Closed(t, "open") /\ txn[t].state # "open" /\ UNCHANGED maps
    BY DEF merlin_txn_begin, Closed
<1>2. /\ States(txn') = [States(txn) EXCEPT ![t] = "open"]
      /\ Staged(txn') = [Staged(txn) EXCEPT ![t] = <<>>]
    BY <1>1, CloseAbstracts
<1> QED  BY <1>1, <1>2 DEF Atomic!BeginTxn, States, Staged

LEMMA AbortAbstracts ==
    ASSUME StoreInv, NEW t \in Txns, merlin_txn_abort(t)
    PROVE  Atomic!AbortTxn(t)
<1>1. txn' = Closed(t, "aborted") /\ txn[t].state = "open" /\ UNCHANGED maps
    BY DEF merlin_txn_abort
<1>2. /\ States(txn') = [States(txn) EXCEPT ![t] = "aborted"]
      /\ Staged(txn') = [Staged(txn) EXCEPT ![t] = <<>>]
    BY <1>1, CloseAbstracts
<1> QED  BY <1>1, <1>2 DEF Atomic!AbortTxn, Atomic!Close, States, Staged

LEMMA StageAbstracts ==
    ASSUME StoreInv, NEW t \in Txns, NEW o \in Op, merlin_txn_stage(t, o)
    PROVE  o \in Atomic!Ops /\ Atomic!StageOp(t, o)
<1>1. /\ UNCHANGED maps /\ txn[t].state = "open" /\ o.map \in Existing(maps)
    BY OpFacts DEF merlin_txn_stage, Existing
<1>2. \A u \in Txns : /\ txn'[u].state = txn[u].state
                      /\ txn'[u].ops = IF u = t THEN Append(txn[t].ops, o)
                                       ELSE txn[u].ops
    BY StageSound
<1>3. States(txn') = States(txn)
    BY <1>2 DEF States
<1>4. Staged(txn') = [Staged(txn) EXCEPT ![t] = Append(txn[t].ops, o)]
    BY <1>2 DEF Staged
<1>5. Staged(txn)[t] = txn[t].ops /\ States(txn)[t] = "open"
    BY <1>1 DEF Staged, States
<1>6. o \in Atomic!Ops
    BY DEF Op, Atomic!Ops
<1> QED  BY <1>1, <1>3, <1>4, <1>5, <1>6
         DEF Atomic!StageOp, States, Staged, Existing

LEMMA CommitAbstractsStep ==
    ASSUME StoreInv, NEW t \in Txns, NEW fast \in BOOLEAN,
           merlin_txn_commit(t, fast)
    PROVE  Atomic!CommitTxn(t)
<1> DEFINE ops == txn[t].ops
           r == ApplyOps(maps, ops)
           a == Atomic!ApplyAll(Contents(maps), ops)
           s == IF r.rc = "0" THEN "committed" ELSE "aborted"
<1>1. ops \in Seq(Op) /\ maps \in StoreType
    BY DEF StoreInv, TxnType
<1>2. a = Abstracted(r)
    BY <1>1, CommitAbstracts
<1>3. txn[t].state = "open" /\ maps' = r.maps /\ txn' = Closed(t, s)
    BY DEF merlin_txn_commit
<1>4. \A h \in Handles : maps'[h].valid <=> maps[h].valid
    BY <1>1, <1>3, CommitSound
<1> HIDE DEF r, a
<1>5. Existing(maps') = Existing(maps)
    BY <1>4 DEF Existing
<1>6. s \in {"committed", "aborted"}
    OBVIOUS
<1>7. s = IF a.ok THEN "committed" ELSE "aborted"
    BY <1>2 DEF Abstracted
<1>8. Contents(maps') = a.store
    BY <1>2, <1>3 DEF Abstracted
<1> HIDE DEF s
<1>9. /\ States(txn') = [States(txn) EXCEPT ![t] = s]
      /\ Staged(txn') = [Staged(txn) EXCEPT ![t] = <<>>]
    BY <1>3, <1>6, CloseAbstracts
<1>10. Staged(txn)[t] = ops /\ States(txn)[t] = "open"
    BY <1>3 DEF Staged, States
<1>11. Atomic!Close(t, s)
    BY <1>5, <1>9, <1>10 DEF Atomic!Close, States, Staged, Existing
<1>12. Staged(txn) = [u \in Txns |-> txn[u].ops]
    BY DEF Staged
<1>13. Contents(maps) =
           [h \in Handles |-> [k \in Keys |-> merlin_store_lookup(maps[h], k)]]
    BY DEF Contents
<1>14. a = Atomic!ApplyAll(
               [h \in Handles |-> [k \in Keys |-> merlin_store_lookup(maps[h], k)]],
               [u \in Txns |-> txn[u].ops][t])
    BY <1>10, <1>12, <1>13 DEF a
<1>15. [h \in Handles |-> [k \in Keys |-> merlin_store_lookup(maps[h], k)]]' = a.store
    BY <1>8 DEF Contents
<1>16. Atomic!Close(t, IF a.ok THEN "committed" ELSE "aborted")
    BY <1>7, <1>11 DEF Atomic!Close
<1> QED  BY <1>14, <1>15, <1>16 DEF Atomic!CommitTxn, Atomic!Close

LEMMA NextAbstracts ==
    StoreInv /\ [Next]_vars => [Atomic!AtomicNext]_(Atomic!absVars)
<1> SUFFICES ASSUME StoreInv, [Next]_vars
             PROVE  [Atomic!AtomicNext]_(Atomic!absVars)
    OBVIOUS
<1>1. CASE merlin_store_map_create
    BY <1>1, CreateAbstracts DEF Atomic!AtomicNext
<1>2. ASSUME NEW h \in Handles, merlin_store_map_destroy(h)
      PROVE  Atomic!AtomicNext
    BY <1>2, DestroyAbstracts DEF Atomic!AtomicNext
<1>3. ASSUME NEW t \in Txns, merlin_txn_begin(t) PROVE Atomic!AtomicNext
    BY <1>3, BeginAbstracts DEF Atomic!AtomicNext
<1>4. ASSUME NEW t \in Txns, merlin_txn_abort(t) PROVE Atomic!AtomicNext
    BY <1>4, AbortAbstracts DEF Atomic!AtomicNext
<1>5. ASSUME NEW t \in Txns, NEW o \in Op, merlin_txn_stage(t, o)
      PROVE  Atomic!AtomicNext
    BY <1>5, StageAbstracts DEF Atomic!AtomicNext
<1>6. ASSUME NEW t \in Txns, NEW fast \in BOOLEAN, merlin_txn_commit(t, fast)
      PROVE  Atomic!AtomicNext
    BY <1>6, CommitAbstractsStep DEF Atomic!AtomicNext
<1>7. CASE UNCHANGED vars
    BY <1>7 DEF vars, Atomic!absVars
<1> QED  BY <1>1, <1>2, <1>3, <1>4, <1>5, <1>6, <1>7 DEF Next

(* The store of slots implements the atomic store (ImplementsAtomic): to a *)
(* client of merlin_store_lookup every commit is one step that does what   *)
(* its operations say, in order, up to the first for which there is no     *)
(* room or no map, and nothing staged or aborted shows.                    *)
THEOREM StoreImplementsAtomic == Spec => ImplementsAtomic
<1>1. Spec => []StoreInv
    BY InitSound, NextSound, PTL DEF Spec
<1>2. Spec => Atomic!AtomicSpec
    BY <1>1, InitAbstracts, NextAbstracts, PTL DEF Spec, Atomic!AtomicSpec
<1> QED  BY <1>2 DEF ImplementsAtomic
=============================================================================
