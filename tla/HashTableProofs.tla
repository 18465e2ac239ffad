-------------------------- MODULE HashTableProofs ---------------------------
(***************************************************************************)
(* The hash table keeps its invariant and implements a dictionary, for     *)
(* every set of keys and values, every hash function and every capacity.   *)
(***************************************************************************)
EXTENDS HashTable, FiniteSetTheorems, WellFoundedInduction, TLAPS

USE SMTT(60)

\* Distances along a probe: within the array, and different for different slots.
LEMMA Distances ==
  ASSUME capacity \in Nat, NEW h \in 0 .. capacity - 1,
         NEW s \in 0 .. capacity - 1, NEW t \in 0 .. capacity - 1
  PROVE  /\ Distance(h, s) \in 0 .. capacity - 1
         /\ Distance(h, s) = Distance(h, t) => s = t
BY DEF Distance

\* A key's home is a slot.
LEMMA Homes ==
  ASSUME capacity \in Nat, capacity >= 2, NEW k \in Keys
  PROVE  Home(k) \in 0 .. capacity - 1
<1>1. hash[k] \in Nat  BY TableConfig
<1> QED  BY <1>1 DEF Home

\* Every non-empty set of numbers has a least one.
LEMMA LeastNumber ==
  ASSUME NEW S \in SUBSET Nat, S # {}
  PROVE  \E x \in S : \A y \in S : x <= y
<1> DEFINE R == {ss \in Nat \X Nat : ss[1] < ss[2]}
<1>1. OpToRel(<, Nat) = R  BY Zenon DEF OpToRel
<1>2. IsWellFoundedOn(R, Nat)  BY ZenonT(60), <1>1, NatLessThanWellFounded
<1>3. \E x \in S : \A y \in S : ~(<<y, x>> \in R)  BY ZenonT(60), <1>2, WFMin
<1>4. PICK x \in S : \A y \in S : ~(<<y, x>> \in R)  BY <1>3
<1>5. ASSUME NEW y \in S PROVE x <= y
  <2>1. <<y, x>> \notin R /\ <<y, x>> \in Nat \X Nat  BY <1>4
  <2>2. ~(<<y, x>>[1] < <<y, x>>[2])  BY <2>1
  <2> QED  BY <2>2
<1> QED  BY <1>5

\* First finds the slot it is defined to find.
LEMMA FirstIsFirst ==
  ASSUME capacity \in Nat, NEW h \in 0 .. capacity - 1,
         NEW S \in SUBSET (0 .. capacity - 1), S # {}
  PROVE  /\ First(h, S) \in S
         /\ \A t \in S : Distance(h, First(h, S)) <= Distance(h, t)
<1> DEFINE D == {Distance(h, s) : s \in S}
<1>1. \A s \in S : Distance(h, s) \in Nat  BY Distances
<1>2. PICK d \in D : \A e \in D : d <= e
  <2>1. D \in SUBSET Nat /\ D # {}  BY ZenonT(60), <1>1
  <2> QED  BY ZenonT(60), <2>1, LeastNumber
<1>3. PICK s \in S : d = Distance(h, s)  OBVIOUS
<1>4. \A t \in S : Distance(h, s) <= Distance(h, t)  BY <1>2, <1>3
<1> QED  BY <1>3, <1>4 DEF First

\* A probe finds the slot of a key if there is one: nothing before it ends the
\* probe, and no other slot holds the key.
LEMMA ProbeFinds ==
  ASSUME TypeOK, capacity >= 2, Unique, Reachable, NEW k \in Keys,
         NEW s \in 0 .. capacity - 1, Holds(s, k)
  PROVE  Stops(k) # {} /\ First(Home(k), Stops(k)) = s
<1> DEFINE h == Home(k)  f == First(h, Stops(k))
<1>1. capacity \in Nat /\ h \in 0 .. capacity - 1  BY Homes DEF TypeOK
<1>2. s \in Stops(k) /\ Stops(k) \in SUBSET (0 .. capacity - 1)  BY DEF Stops
<1> HIDE DEF h
<1>3. f \in Stops(k) /\ Distance(h, f) <= Distance(h, s)  BY <1>1, <1>2, FirstIsFirst
<1> HIDE DEF f
<1>4. f \in 0 .. capacity - 1  BY <1>2, <1>3
<1>5. CASE f = s  BY <1>2, <1>5 DEF f, h
<1>6. CASE f # s
  <2>1. Distance(h, f) < Distance(h, s)  BY <1>1, <1>3, <1>4, <1>6, Distances
  <2>2. s \in Used /\ slots[s].key = k  BY DEF Used, Holds
  <2>3. slots[f].state # "EMPTY"  BY <1>4, <2>1, <2>2 DEF Reachable, h
  <2>4. Holds(f, k)  BY <1>3, <2>3 DEF Stops
  <2>5. f = s  BY <1>4, <2>2, <2>4 DEF Unique, Used, Holds
  <2> QED  BY <1>6, <2>5
<1> QED  BY <1>5, <1>6

\* So find_key is what it should be.
LEMMA FindKey ==
  ASSUME TypeOK, capacity >= 2, Unique, Reachable, NEW k \in Keys
  PROVE  find_key(k) = {s \in 0 .. capacity - 1 : Holds(s, k)}
<1>1. CASE \E s \in 0 .. capacity - 1 : Holds(s, k)
  <2>1. PICK s \in 0 .. capacity - 1 : Holds(s, k)  BY <1>1
  <2>2. find_key(k) = {s}  BY <2>1, ProbeFinds DEF find_key
  <2>3. \A t \in 0 .. capacity - 1 : Holds(t, k) => t = s
    BY <2>1 DEF Unique, Used, Holds
  <2> QED  BY <2>1, <2>2, <2>3
<1>2. CASE ~\E s \in 0 .. capacity - 1 : Holds(s, k)
  <2>1. Stops(k) # {} => First(Home(k), Stops(k)) \in Stops(k)
    <3>1. capacity \in Nat /\ Home(k) \in 0 .. capacity - 1  BY Homes DEF TypeOK
    <3>2. Stops(k) \in SUBSET (0 .. capacity - 1)  BY DEF Stops
    <3> QED  BY <3>1, <3>2, FirstIsFirst
  <2>2. Stops(k) \subseteq 0 .. capacity - 1  BY DEF Stops
  <2> QED  BY <1>2, <2>1, <2>2 DEF find_key
<1> QED  BY <1>1, <1>2

\* An array whose used and deleted slots are fewer than its slots has an empty
\* one.
LEMMA EmptyExists ==
  ASSUME TypeOK, Cardinality(Used) + Cardinality(Deleted) < capacity
  PROVE  \E s \in 0 .. capacity - 1 : slots[s].state = "EMPTY"
<1> SUFFICES ASSUME \A s \in 0 .. capacity - 1 : slots[s].state # "EMPTY" PROVE FALSE
  OBVIOUS
<1>1. 0 .. capacity - 1 = Used \cup Deleted
  BY DEF TypeOK, Slot, EmptySlot, Tombstone, Entry, Used, Deleted
<1>2. /\ IsFiniteSet(0 .. capacity - 1)
      /\ Cardinality(0 .. capacity - 1) = IF 0 > capacity - 1 THEN 0 ELSE capacity
  <2>1. capacity - 1 \in Int /\ capacity \in Nat  BY DEF TypeOK
  <2> QED  BY <2>1, FS_Interval
<1>3. IsFiniteSet(Used) /\ IsFiniteSet(Deleted)  BY ZenonT(60), <1>2, FS_Subset DEF Used, Deleted
<1>4. Cardinality(Used \cup Deleted) <= Cardinality(Used) + Cardinality(Deleted)
  <2>1. /\ Cardinality(Used \cup Deleted)
             = Cardinality(Used) + Cardinality(Deleted) - Cardinality(Used \cap Deleted)
    BY <1>3, FS_Union
  <2>2. IsFiniteSet(Used \cap Deleted)  BY <1>3, FS_Subset
  <2> QED  BY <1>3, <2>1, <2>2, FS_CardinalityType
<1>5. Cardinality(Used) \in Nat /\ Cardinality(Deleted) \in Nat  BY <1>3, FS_CardinalityType
<1>6. capacity \in Nat  BY DEF TypeOK
<1>7. Cardinality(0 .. capacity - 1) = Cardinality(Used \cup Deleted)  BY Zenon, <1>1
<1>8. Cardinality(Used \cup Deleted) = capacity  BY <1>2, <1>6, <1>7
<1> QED  BY <1>4, <1>5, <1>6, <1>8

\* What insert_no_resize does when there is an empty slot: it writes the entry
\* into the slot of the key, or into one that was not used, that the probe for
\* the key reaches, and the key was in no other.
LEMMA InsertEffect ==
  ASSUME TypeOK, capacity >= 2, Unique, Reachable,
         \E s \in 0 .. capacity - 1 : slots[s].state = "EMPTY",
         NEW k \in Keys, NEW v \in Values, insert_no_resize(k, v)
  PROVE  /\ Stops(k) # {}
         /\ \E p \in 0 .. capacity - 1 :
              /\ slots' = [slots EXCEPT ![p] = Entry(k, v)]
              /\ \A t \in 0 .. capacity - 1 :
                   Distance(Home(k), t) < Distance(Home(k), p) => slots[t].state # "EMPTY"
              /\ \A t \in 0 .. capacity - 1 : Holds(t, k) => t = p
              /\ IF Holds(p, k) THEN count' = count
                 ELSE p \notin Used /\ count' = count + 1
<1> DEFINE h == Home(k)  S == Stops(k)  s == First(h, S)
<1>1. capacity \in Nat /\ h \in 0 .. capacity - 1  BY Homes DEF TypeOK
<1>2. S # {} /\ S \in SUBSET (0 .. capacity - 1)  BY DEF Stops
<1> HIDE DEF h
<1>3. s \in S /\ \A t \in S : Distance(h, s) <= Distance(h, t)
  <2> HIDE DEF S
  <2> QED  BY <1>1, <1>2, FirstIsFirst
<1>4. s \in 0 .. capacity - 1 /\ (slots[s].state = "EMPTY" \/ Holds(s, k))
  BY <1>3 DEF Stops
<1>5. \A t \in 0 .. capacity - 1 : Distance(h, t) \in Nat  BY <1>1, Distances
<1>6. \A t \in 0 .. capacity - 1 :
        Distance(h, t) < Distance(h, s) => slots[t].state # "EMPTY"
  <2> SUFFICES ASSUME NEW t \in 0 .. capacity - 1, Distance(h, t) < Distance(h, s),
                      slots[t].state = "EMPTY"
               PROVE  FALSE
    OBVIOUS
  <2>1. t \in S  BY DEF Stops
  <2>2. Distance(h, s) <= Distance(h, t)  BY <1>3, <2>1
  <2> HIDE DEF s
  <2> QED  BY <1>4, <1>5, <2>2
<1>7. insert_no_resize(k, v) <=>
        \/ S = {} /\ UNCHANGED <<slots, count>>
        \/ S # {} /\ Holds(s, k) /\ slots' = [slots EXCEPT ![s] = Entry(k, v)]
           /\ UNCHANGED count
        \/ S # {} /\ ~Holds(s, k)
           /\ slots' = [slots EXCEPT ![Reuse(k, s)] = Entry(k, v)] /\ count' = count + 1
  BY DEF insert_no_resize, h
<1> HIDE DEF s, S
<1>8. CASE Holds(s, k)
  <2>1. slots' = [slots EXCEPT ![s] = Entry(k, v)] /\ count' = count  BY ZenonT(60), <1>2, <1>7, <1>8
  <2>2. \A t \in 0 .. capacity - 1 : Holds(t, k) => t = s
    BY <1>4, <1>8 DEF Unique, Used, Holds
  <2> QED  BY ZenonT(60), <1>2, <1>4, <1>6, <1>8, <2>1, <2>2 DEF h, S
<1>9. CASE ~Holds(s, k)
  <2> DEFINE T == {t \in 0 .. capacity - 1 : /\ slots[t].state = "TOMBSTONE"
                                             /\ Distance(h, t) < Distance(h, s)}
             p == Reuse(k, s)
  <2>1. slots' = [slots EXCEPT ![p] = Entry(k, v)] /\ count' = count + 1  BY ZenonT(60), <1>2, <1>7, <1>9
  <2>2. \A t \in 0 .. capacity - 1 : ~Holds(t, k)
    <3> SUFFICES ASSUME NEW t \in 0 .. capacity - 1, Holds(t, k) PROVE FALSE
      OBVIOUS
    <3>1. s = t  BY ProbeFinds DEF s, h, S
    <3> QED  BY <1>9, <3>1
  <2>3. CASE T = {}
    <3>1. p = s  BY <2>3 DEF Reuse, h
    <3>2. slots[s].state = "EMPTY"  BY <1>4, <1>9
    <3>3. p \notin Used  BY <3>1, <3>2 DEF Used
    <3> QED  BY ZenonT(60), <1>2, <1>4, <1>6, <1>9, <2>1, <2>2, <3>1, <3>3 DEF h, S
  <2>4. CASE T # {}
    <3>1. p = First(h, T)  BY <2>4 DEF Reuse, h
    <3>2. T \in SUBSET (0 .. capacity - 1)  OBVIOUS
    <3>3. p \in T
      <4> HIDE DEF T
      <4> QED  BY <1>1, <2>4, <3>1, <3>2, FirstIsFirst
    <3>4. p \in 0 .. capacity - 1 /\ p \notin Used  BY <3>3 DEF Used
    <3>5. Distance(h, p) < Distance(h, s)  BY <3>3
    <3> HIDE DEF p, T
    <3>6. \A t \in 0 .. capacity - 1 :
            Distance(h, t) < Distance(h, p) => slots[t].state # "EMPTY"
      BY <1>4, <1>5, <1>6, <3>4, <3>5
    <3> QED  BY ZenonT(60), <1>2, <2>1, <2>2, <3>4, <3>6 DEF h, S
  <2> QED  BY <2>3, <2>4
<1> QED  BY <1>8, <1>9

\* After an insertion the table is as well-formed as before, with one more slot
\* used or as many, and no more of them deleted.
LEMMA InsertKeeps ==
  ASSUME TypeOK, capacity >= 2, Unique, Reachable, count = Cardinality(Used),
         \E s \in 0 .. capacity - 1 : slots[s].state = "EMPTY",
         NEW k \in Keys, NEW v \in Values, insert_no_resize(k, v), UNCHANGED capacity
  PROVE  /\ slots' \in [0 .. capacity - 1 -> Slot]
         /\ Unique' /\ Reachable'
         /\ count' \in Nat /\ count' = Cardinality(Used)' /\ count' <= count + 1
         /\ Deleted' \subseteq Deleted
         /\ \E s \in Used' : slots'[s] = Entry(k, v)
         /\ \A s \in Used' : slots'[s] = Entry(k, v) \/ (s \in Used /\ slots[s] = slots'[s])
         /\ \A s \in Used : slots[s].key # k => s \in Used' /\ slots'[s] = slots[s]
<1>1. PICK p \in 0 .. capacity - 1 :
        /\ slots' = [slots EXCEPT ![p] = Entry(k, v)]
        /\ \A t \in 0 .. capacity - 1 :
             Distance(Home(k), t) < Distance(Home(k), p) => slots[t].state # "EMPTY"
        /\ \A t \in 0 .. capacity - 1 : Holds(t, k) => t = p
        /\ IF Holds(p, k) THEN count' = count ELSE p \notin Used /\ count' = count + 1
  BY InsertEffect
<1>2. slots \in [0 .. capacity - 1 -> Slot] /\ count \in Nat /\ capacity \in Nat  BY DEF TypeOK
<1>3. /\ Entry(k, v) \in Slot /\ Entry(k, v).state = "USED" /\ Entry(k, v).key = k
      /\ Entry(k, v).state # "TOMBSTONE" /\ Entry(k, v).state # "EMPTY"
  BY DEF Slot, Entry
<1>4. slots' \in [0 .. capacity - 1 -> Slot] /\ slots'[p] = Entry(k, v)
  BY <1>1, <1>2, <1>3
<1>5. \A s \in 0 .. capacity - 1 : s # p => slots'[s] = slots[s]  BY <1>1, <1>2
<1>6. Used' = Used \cup {p}  BY <1>3, <1>4, <1>5 DEF Used
<1>7. Deleted' \subseteq Deleted  BY <1>3, <1>4, <1>5 DEF Deleted
<1>8. Unique'
  BY <1>1, <1>3, <1>4, <1>5, <1>6 DEF Unique, Used, Holds
<1>9. Reachable'
  <2>1. \A t \in 0 .. capacity - 1 : slots[t].state # "EMPTY" => slots'[t].state # "EMPTY"
    BY <1>3, <1>4, <1>5
  <2>2. \A q : Home(q)' = Home(q)  BY DEF Home
  <2>3. \A a, b : Distance(a, b)' = Distance(a, b)  BY DEF Distance
  <2> SUFFICES ASSUME NEW s \in Used', NEW t \in 0 .. capacity - 1,
                      Distance(Home(slots'[s].key), t) < Distance(Home(slots'[s].key), s)
               PROVE  slots'[t].state # "EMPTY"
    BY ZenonT(60), <2>2, <2>3 DEF Reachable
  <2>4. CASE s = p
    BY <1>1, <1>3, <1>4, <2>1, <2>4
  <2>5. CASE s # p
    <3>1. s \in Used /\ slots'[s] = slots[s]  BY <1>5, <1>6, <2>5 DEF Used
    <3> QED  BY <2>1, <3>1 DEF Reachable
  <2> QED  BY <2>4, <2>5
<1>10. count' \in Nat /\ count' = Cardinality(Used)' /\ count' <= count + 1
  <2>1. IsFiniteSet(Used)
    <3>1. IsFiniteSet(0 .. capacity - 1)  BY <1>2, FS_Interval
    <3> QED  BY Zenon, <3>1, FS_Subset DEF Used
  <2>2. Cardinality(Used \cup {p}) = IF p \in Used THEN Cardinality(Used) ELSE Cardinality(Used) + 1
    BY ZenonT(60), <2>1, FS_AddElement
  <2>3. Cardinality(Used)' = Cardinality(Used \cup {p})  BY Zenon, <1>6
  <2>4. Holds(p, k) => p \in Used  BY DEF Holds, Used
  <2> QED  BY <1>1, <1>2, <2>2, <2>3, <2>4
<1>11. \E s \in Used' : slots'[s] = Entry(k, v)  BY <1>4, <1>6
<1>12. \A s \in Used' : slots'[s] = Entry(k, v) \/ (s \in Used /\ slots[s] = slots'[s])
  BY <1>4, <1>5, <1>6 DEF Used
<1>13. ASSUME NEW s \in Used, slots[s].key # k PROVE s \in Used' /\ slots'[s] = slots[s]
  <2>1. s # p  BY <1>1, <1>13 DEF Used, Holds
  <2> QED  BY <1>5, <1>6, <2>1 DEF Used
<1> QED  BY ZenonT(60), <1>4, <1>7, <1>8, <1>9, <1>10, <1>11, <1>12, <1>13

-----------------------------------------------------------------------------
(* The invariant.                                                          *)

\* A fresh array is well-formed.
LEMMA FreshArray ==
  ASSUME NEW n \in Nat, capacity = n, slots = calloc(n)
  PROVE  /\ slots \in [0 .. n - 1 -> Slot]
         /\ Used = {} /\ Deleted = {} /\ Unique /\ Reachable
         /\ Cardinality(Used) = 0 /\ Cardinality(Deleted) = 0
<1>1. slots \in [0 .. n - 1 -> Slot]  BY DEF calloc, Slot
<1>2. Used = {} /\ Deleted = {}  BY DEF calloc, EmptySlot, Used, Deleted
<1>3. Unique /\ Reachable  BY <1>2 DEF Unique, Reachable
<1> QED  BY <1>1, <1>2, <1>3, FS_EmptySet

\* The table that ht_init makes satisfies the invariant.
LEMMA InitInv == Init => TableInv
<1> SUFFICES ASSUME Init PROVE TableInv  OBVIOUS
<1> USE TableConfig
<1>1. /\ slots \in [0 .. capacity - 1 -> Slot] /\ Unique /\ Reachable
      /\ Cardinality(Used) = 0 /\ Cardinality(Deleted) = 0
  BY FreshArray DEF Init
<1>2. old_slots \in [0 .. old_capacity - 1 -> Slot]  BY DEF Init, calloc, Slot
<1>3. TypeOK  BY <1>1, <1>2 DEF Init, TypeOK
<1>4. Counted  BY <1>1 DEF Init, Counted, HT_MAX_LOAD_NUMER, HT_MAX_LOAD_DENOM
<1>5. Rehashed  BY DEF Init, Rehashed
<1> QED  BY <1>1, <1>3, <1>4, <1>5 DEF TableInv

\* The sets the counters count are finite.
LEMMA FiniteParts ==
  ASSUME TypeOK
  PROVE  /\ IsFiniteSet(Used) /\ IsFiniteSet(Deleted) /\ IsFiniteSet(OldUsed)
         /\ Cardinality(Used) \in Nat /\ Cardinality(Deleted) \in Nat
         /\ Cardinality(OldUsed) \in Nat
<1>1. IsFiniteSet(0 .. capacity - 1) /\ IsFiniteSet(0 .. old_capacity - 1)
  BY FS_Interval DEF TypeOK
<1>2. IsFiniteSet(Used) /\ IsFiniteSet(Deleted) /\ IsFiniteSet(OldUsed)
  BY ZenonT(60), <1>1, FS_Subset DEF Used, Deleted, OldUsed
<1> QED  BY <1>2, FS_CardinalityType

\* There is an empty slot for every insertion: when the load is below the
\* threshold, and throughout a resize.
LEMMA InsertFits ==
  ASSUME TableInv, \/ pc = "idle" /\ ~Overloaded
                   \/ pc = "rehash"
  PROVE  /\ \E s \in 0 .. capacity - 1 : slots[s].state = "EMPTY"
         /\ (count + tombstones + 1) * HT_MAX_LOAD_DENOM <= capacity * HT_MAX_LOAD_NUMER
<1> USE DEF HT_MAX_LOAD_NUMER, HT_MAX_LOAD_DENOM
<1>1. /\ capacity \in Nat /\ capacity >= 2 /\ count \in Nat /\ tombstones \in Nat
      /\ TypeOK
  BY DEF TableInv, TypeOK
<1>2. (count + tombstones + 1) * 10 <= capacity * 7
  <2>1. CASE pc = "idle" /\ ~Overloaded  BY <1>1, <2>1 DEF Overloaded
  <2>2. CASE pc = "rehash"
    <3>1. /\ tombstones = 0 /\ count <= Cardinality({s \in OldUsed : s < i})
          /\ (Cardinality(OldUsed) + 1) * 10 <= capacity * 7
      BY <2>2 DEF TableInv, Rehashed
    <3>2. /\ Cardinality({s \in OldUsed : s < i}) <= Cardinality(OldUsed)
          /\ Cardinality({s \in OldUsed : s < i}) \in Nat
      <4>1. IsFiniteSet(OldUsed)  BY <1>1, FiniteParts
      <4>2. {s \in OldUsed : s < i} \in SUBSET OldUsed  OBVIOUS
      <4> QED  BY <4>1, <4>2, FS_Subset, FS_CardinalityType
    <3> QED  BY <1>1, <3>1, <3>2, FiniteParts
  <2> QED  BY <2>1, <2>2
<1>3. Cardinality(Used) + Cardinality(Deleted) < capacity
  BY <1>1, <1>2, FiniteParts DEF TableInv, Counted
<1> QED  BY <1>1, <1>2, <1>3, EmptyExists

\* A load that leaves room for one more entry is not exceeded by it.
LEMMA LoadAfter ==
  ASSUME NEW c \in Nat, NEW d \in Nat, NEW t \in Nat, NEW n \in Nat,
         (c + t + 1) * 10 <= n * 7, d <= c + 1
  PROVE  (d + t) * 10 <= n * 7
OBVIOUS

\* An insertion outside a resize.
LEMMA InsertInv ==
  ASSUME TableInv, NEW k \in Keys, NEW v \in Values, Insert(k, v)
  PROVE  TableInv'
<1>1. /\ TypeOK /\ capacity \in Nat /\ capacity >= 2 /\ Unique /\ Reachable
      /\ count = Cardinality(Used) /\ pc = "idle" /\ ~Overloaded /\ insert_no_resize(k, v)
      /\ UNCHANGED <<capacity, tombstones, old, pc, arg>> /\ ret' \in BOOLEAN
  BY DEF TableInv, TypeOK, Counted, Insert
<1>2. /\ \E s \in 0 .. capacity - 1 : slots[s].state = "EMPTY"
      /\ (count + tombstones + 1) * HT_MAX_LOAD_DENOM <= capacity * HT_MAX_LOAD_NUMER
  BY <1>1, InsertFits
<1>3. /\ slots' \in [0 .. capacity - 1 -> Slot]
      /\ Unique' /\ Reachable'
      /\ count' \in Nat /\ count' = Cardinality(Used)' /\ count' <= count + 1
      /\ Deleted' \subseteq Deleted
  BY <1>1, <1>2, InsertKeeps
<1>4. TypeOK'  BY <1>1, <1>3 DEF TypeOK, old
<1>5. Cardinality(Deleted)' <= tombstones
  <2>1. Cardinality(Deleted') <= Cardinality(Deleted) /\ Cardinality(Deleted') \in Nat
    BY <1>1, <1>3, FiniteParts, FS_Subset, FS_CardinalityType
  <2> QED  BY <1>1, <2>1, FiniteParts DEF TableInv, Counted, TypeOK
<1>6. Counted'
  <2>1. count \in Nat /\ tombstones \in Nat  BY <1>1 DEF TypeOK
  <2>2. (count + tombstones + 1) * 10 <= capacity * 7
    BY <1>2 DEF HT_MAX_LOAD_NUMER, HT_MAX_LOAD_DENOM
  <2>3. capacity \in Nat /\ count' \in Nat /\ count' <= count + 1  BY <1>1, <1>3
  <2>4. (count' + tombstones) * 10 <= capacity * 7  BY ZenonT(60), <2>1, <2>2, <2>3, LoadAfter
  <2>5. (count' + tombstones) * HT_MAX_LOAD_DENOM <= capacity * HT_MAX_LOAD_NUMER
    BY <2>4 DEF HT_MAX_LOAD_NUMER, HT_MAX_LOAD_DENOM
  <2> QED  BY <1>1, <1>3, <1>5, <2>5 DEF Counted
<1>7. Rehashed'  BY <1>1 DEF TableInv, Rehashed, old
<1> QED  BY <1>3, <1>4, <1>6, <1>7 DEF TableInv

\* resize starts with an empty array of twice the size.
LEMMA ResizeInv ==
  ASSUME TableInv, NEW k \in Keys, NEW v \in Values, Resize(k, v)
  PROVE  TableInv'
<1> USE DEF HT_MAX_LOAD_NUMER, HT_MAX_LOAD_DENOM
<1>1. /\ TypeOK /\ capacity \in Nat /\ capacity >= 2 /\ pc = "idle" /\ pc' = "rehash"
      /\ count \in Nat /\ tombstones \in Nat /\ slots \in [0 .. capacity - 1 -> Slot]
      /\ Unique /\ count = Cardinality(Used) /\ (count + tombstones) * 10 <= capacity * 7
      /\ old_capacity' = capacity /\ old_slots' = slots /\ i' = 0
      /\ capacity' = capacity * 2 /\ slots' = calloc(capacity * 2)
      /\ count' = 0 /\ tombstones' = 0 /\ arg' = <<k, v>> /\ ret' = ret
  BY DEF TableInv, TypeOK, Counted, Resize
<1>2. capacity' \in Nat /\ slots' = calloc(capacity')  BY <1>1
<1>3. /\ slots' \in [0 .. capacity' - 1 -> Slot]
      /\ Used' = {} /\ Deleted' = {} /\ Unique' /\ Reachable'
      /\ Cardinality(Used)' = 0 /\ Cardinality(Deleted)' = 0
  <2>1. slots' \in [0 .. capacity' - 1 -> Slot]  BY <1>2 DEF calloc, Slot
  <2>2. Used' = {} /\ Deleted' = {}  BY <1>2 DEF calloc, EmptySlot, Used, Deleted
  <2>3. Unique' /\ Reachable'  BY <2>2 DEF Unique, Reachable
  <2> QED  BY <2>1, <2>2, <2>3, FS_EmptySet
<1>4. TypeOK'  BY <1>1, <1>2, <1>3 DEF TypeOK
<1>5. Counted'  BY <1>1, <1>3 DEF Counted
<1>6. OldUsed' = Used  BY <1>1 DEF OldUsed, Used
<1>7. Cardinality(OldUsed)' = count  BY Zenon, <1>1, <1>6
<1>8. {s \in OldUsed' : s < 0} = {}  BY <1>1 DEF OldUsed
<1>9. Cardinality({s \in OldUsed : s < i})' = 0
  <2>1. {s \in OldUsed : s < i}' = {}  BY <1>1, <1>8
  <2> QED  BY <2>1, FS_EmptySet
<1>10. \A s, t \in OldUsed' : old_slots'[s].key = old_slots'[t].key => s = t
  BY <1>1, <1>6 DEF Unique
<1>11. Rehashed'
  <2>1. (Cardinality(OldUsed)' + 1) * 10 <= capacity' * 7  BY <1>1, <1>7
  <2>2. \A t \in OldUsed' : ~(t < i')  BY <1>1, <1>8
  <2> QED  BY <1>1, <1>3, <1>9, <1>10, <2>1, <2>2 DEF Rehashed
<1> QED  BY <1>3, <1>4, <1>5, <1>11 DEF TableInv

\* One old slot is moved.
LEMMA RehashInv ==
  ASSUME TableInv, Rehash
  PROVE  TableInv'
<1> DEFINE Moved == {s \in OldUsed : s < i}
<1>1. /\ TypeOK /\ capacity \in Nat /\ capacity >= 2 /\ Unique /\ Reachable
      /\ count \in Nat /\ count = Cardinality(Used) /\ pc = "rehash" /\ i \in Nat
      /\ i \in 0 .. old_capacity - 1 /\ i' = i + 1 /\ old_capacity \in Nat
      /\ old_slots \in [0 .. old_capacity - 1 -> Slot]
      /\ UNCHANGED <<capacity, tombstones, old_capacity, old_slots, pc, arg, ret>>
      /\ Counted /\ Rehashed
  BY DEF TableInv, TypeOK, Counted, Rehash
<1>2. /\ tombstones = 0 /\ Deleted = {} /\ count <= Cardinality(Moved)
      /\ \A s, t \in OldUsed : old_slots[s].key = old_slots[t].key => s = t
      /\ \A s \in Used : \E t \in OldUsed : t < i /\ slots[s] = old_slots[t]
      /\ \A t \in OldUsed : t < i => \E s \in Used : slots[s] = old_slots[t]
  BY <1>1 DEF Rehashed
<1>3. OldUsed' = OldUsed  BY <1>1 DEF OldUsed
<1>4. \A t \in OldUsed : t \in Nat  BY DEF OldUsed
<1>5. IsFiniteSet(Moved) /\ Cardinality(Moved) \in Nat
  <2>1. Moved \in SUBSET OldUsed  OBVIOUS
  <2> QED  BY <1>1, <2>1, FiniteParts, FS_Subset, FS_CardinalityType
<1>6. CASE old_slots[i].state = "USED"
  <2> DEFINE k == old_slots[i].key  v == old_slots[i].value
  <2>1. k \in Keys /\ v \in Values /\ old_slots[i] = Entry(k, v) /\ i \in OldUsed
    BY <1>1, <1>6 DEF Slot, EmptySlot, Tombstone, Entry, OldUsed
  <2>2. insert_no_resize(k, v)  BY <1>6 DEF Rehash
  <2>3. \E s \in 0 .. capacity - 1 : slots[s].state = "EMPTY"  BY <1>1, InsertFits
  <2> HIDE DEF k, v
  <2>4. /\ slots' \in [0 .. capacity - 1 -> Slot]
        /\ Unique' /\ Reachable'
        /\ count' \in Nat /\ count' = Cardinality(Used)' /\ count' <= count + 1
        /\ Deleted' \subseteq Deleted
        /\ \E s \in Used' : slots'[s] = Entry(k, v)
        /\ \A s \in Used' : slots'[s] = Entry(k, v) \/ (s \in Used /\ slots[s] = slots'[s])
        /\ \A s \in Used : slots[s].key # k => s \in Used' /\ slots'[s] = slots[s]
    BY <1>1, <2>1, <2>2, <2>3, InsertKeeps
  <2>5. Deleted' = {}  BY <1>2, <2>4
  <2>6. TypeOK'  BY <1>1, <2>4 DEF TypeOK
  <2>7. Counted'
    <3>1. Cardinality(Deleted)' = 0  BY <2>5, FS_EmptySet
    <3> QED  BY <1>1, <1>2, <2>4, <3>1 DEF Counted
  <2>8. count' <= Cardinality({s \in OldUsed : s < i})'
    <3>1. {s \in OldUsed : s < i}' = Moved \cup {i}
      <4>1. \A s \in OldUsed : s < i + 1 <=> s < i \/ s = i  BY <1>1, <1>4
      <4>2. {s \in OldUsed : s < i + 1} = Moved \cup {i}  BY ZenonT(60), <1>1, <2>1, <4>1
      <4> QED  BY <1>1, <1>3, <4>2
    <3>2. Cardinality({s \in OldUsed : s < i})' = Cardinality(Moved \cup {i})  BY Zenon, <3>1
    <3>3. i \notin Moved  BY <1>1
    <3>4. Cardinality(Moved \cup {i}) = Cardinality(Moved) + 1  BY <1>5, <3>3, FS_AddElement
    <3> HIDE DEF Moved
    <3> QED  BY <1>1, <1>2, <1>5, <2>4, <3>2, <3>4
  <2>9. \A s \in Used' : \E t \in OldUsed : t < i + 1 /\ slots'[s] = old_slots[t]
    BY <1>1, <1>2, <1>4, <2>1, <2>4
  <2>10. ASSUME NEW t \in OldUsed, t < i + 1 PROVE \E s \in Used' : slots'[s] = old_slots[t]
    <3>1. CASE t = i  BY <2>1, <2>4, <3>1
    <3>2. CASE t # i
      <4>1. PICK s \in Used : slots[s] = old_slots[t]  BY <1>1, <1>2, <1>4, <2>10, <3>2
      <4>2. slots[s].key # k  BY <1>2, <2>1, <3>2, <4>1 DEF k
      <4> QED  BY <2>4, <4>1, <4>2
    <3> QED  BY <3>1, <3>2
  <2>11. Rehashed'
    BY <1>1, <1>2, <1>3, <2>5, <2>8, <2>9, <2>10 DEF Rehashed
  <2> QED  BY <2>4, <2>6, <2>7, <2>11 DEF TableInv
<1>7. CASE old_slots[i].state # "USED"
  <2>1. UNCHANGED <<slots, count>>  BY <1>7 DEF Rehash
  <2>2. Used' = Used /\ Deleted' = Deleted /\ Unique' /\ Reachable'
    <3>1. Used' = Used /\ Deleted' = Deleted  BY <1>1, <2>1 DEF Used, Deleted
    <3>2. Unique'  BY <1>1, <2>1, <3>1 DEF Unique
    <3>3. Reachable'  BY <1>1, <2>1, <3>1 DEF Reachable, Home, Distance
    <3> QED  BY <3>1, <3>2, <3>3
  <2>3. TypeOK'  BY <1>1, <2>1 DEF TypeOK
  <2>4. Counted'  BY <1>1, <2>1, <2>2 DEF Counted
  <2>5. i \notin OldUsed  BY <1>7 DEF OldUsed
  <2>6. {s \in OldUsed : s < i}' = Moved  BY <1>1, <1>3, <1>4, <2>5
  <2>7. \A t \in OldUsed : t < i + 1 => t < i  BY <1>1, <1>4, <2>5
  <2>8. count' <= Cardinality({s \in OldUsed : s < i})'  BY Zenon, <1>2, <2>1, <2>6
  <2>9. Rehashed'
    <3>1. \A s \in Used' : \E t \in OldUsed : t < i + 1 /\ slots'[s] = old_slots[t]
      BY <1>1, <1>2, <1>4, <2>1, <2>2
    <3>2. \A t \in OldUsed : t < i + 1 => \E s \in Used' : slots'[s] = old_slots[t]
      BY <1>2, <2>1, <2>2, <2>7
    <3> QED  BY <1>1, <1>2, <1>3, <2>2, <2>8, <3>1, <3>2 DEF Rehashed
  <2> QED  BY <2>2, <2>3, <2>4, <2>9 DEF TableInv
<1> QED  BY <1>6, <1>7

\* resize is done, and the new key is inserted.
LEMMA InsertResizedInv ==
  ASSUME TableInv, InsertResized
  PROVE  TableInv'
<1>1. /\ TypeOK /\ capacity \in Nat /\ capacity >= 2 /\ Unique /\ Reachable
      /\ count \in Nat /\ count = Cardinality(Used) /\ tombstones \in Nat
      /\ pc = "rehash" /\ pc' = "idle" /\ arg[1] \in Keys /\ arg[2] \in Values
      /\ insert_no_resize(arg[1], arg[2]) /\ UNCHANGED <<capacity, tombstones>>
      /\ old_capacity' = 0 /\ old_slots' = calloc(0) /\ i' = 0
      /\ arg' = <<NULL, NULL>> /\ ret' \in BOOLEAN
  BY DEF TableInv, TypeOK, Counted, InsertResized
<1>2. /\ \E s \in 0 .. capacity - 1 : slots[s].state = "EMPTY"
      /\ (count + tombstones + 1) * HT_MAX_LOAD_DENOM <= capacity * HT_MAX_LOAD_NUMER
  BY <1>1, InsertFits
<1>3. /\ slots' \in [0 .. capacity - 1 -> Slot]
      /\ Unique' /\ Reachable'
      /\ count' \in Nat /\ count' = Cardinality(Used)' /\ count' <= count + 1
      /\ Deleted' \subseteq Deleted
  BY <1>1, <1>2, InsertKeeps
<1>4. TypeOK'
  <2>1. old_slots' \in [0 .. old_capacity' - 1 -> Slot]  BY <1>1 DEF calloc, Slot
  <2> QED  BY <1>1, <1>3, <2>1 DEF TypeOK
<1>5. Counted'
  <2>1. Cardinality(Deleted)' <= tombstones
    <3>1. Deleted = {}  BY <1>1 DEF TableInv, Rehashed
    <3>2. Deleted' = {}  BY <1>3, <3>1
    <3> QED  BY <1>1, <3>2, FS_EmptySet
  <2>2. (count + tombstones + 1) * 10 <= capacity * 7
    BY <1>2 DEF HT_MAX_LOAD_NUMER, HT_MAX_LOAD_DENOM
  <2>3. (count' + tombstones) * 10 <= capacity * 7  BY <1>1, <1>3, <2>2, LoadAfter
  <2>4. (count' + tombstones) * HT_MAX_LOAD_DENOM <= capacity * HT_MAX_LOAD_NUMER
    BY <2>3 DEF HT_MAX_LOAD_NUMER, HT_MAX_LOAD_DENOM
  <2> QED  BY <1>1, <1>3, <2>1, <2>4 DEF Counted
<1>6. Rehashed'  BY <1>1 DEF Rehashed
<1> QED  BY <1>3, <1>4, <1>5, <1>6 DEF TableInv

\* Calls that leave the table as it is.
LEMMA UnchangedInv ==
  ASSUME TableInv, UNCHANGED <<table, old, pc, arg>>, ret' \in BOOLEAN \cup Values \cup {NULL}
  PROVE  TableInv'
<1>1. TypeOK'  BY DEF TableInv, TypeOK, table, old
<1>2. Used' = Used /\ Deleted' = Deleted /\ OldUsed' = OldUsed
  BY DEF Used, Deleted, OldUsed, table, old
<1>3. Unique'  BY <1>2 DEF TableInv, Unique, table
<1>4. Reachable'  BY <1>2 DEF TableInv, Reachable, Home, Distance, table
<1>5. Counted'  BY <1>2 DEF TableInv, Counted, table
<1>6. Rehashed'  BY <1>2 DEF TableInv, Rehashed, table, old
<1> QED  BY <1>1, <1>3, <1>4, <1>5, <1>6 DEF TableInv

\* A slot becomes a tombstone: the probes that pass it go on.
LEMMA RemoveInv ==
  ASSUME TableInv, NEW k \in Keys, ht_remove(k)
  PROVE  TableInv'
<1>1. /\ TypeOK /\ capacity \in Nat /\ capacity >= 2 /\ Unique /\ Reachable
      /\ slots \in [0 .. capacity - 1 -> Slot]
      /\ count \in Nat /\ count = Cardinality(Used) /\ tombstones \in Nat
      /\ Cardinality(Deleted) <= tombstones
      /\ pc = "idle" /\ UNCHANGED <<capacity, old, pc, arg>> /\ ret' \in BOOLEAN
  BY Zenon DEF TableInv, TypeOK, Counted, ht_remove
<1>2. CASE UNCHANGED <<slots, count, tombstones>>
  BY <1>1, <1>2, UnchangedInv DEF table
<1>3. ASSUME NEW s \in find_key(k), slots' = [slots EXCEPT ![s] = Tombstone],
             count' = count - 1, tombstones' = tombstones + 1
      PROVE  TableInv'
  <2>1. s \in 0 .. capacity - 1 /\ s \in Used  BY <1>1, FindKey DEF Holds, Used
  <2>2. /\ Tombstone \in Slot /\ Tombstone.state = "TOMBSTONE"
        /\ Tombstone.state # "USED" /\ Tombstone.state # "EMPTY"
    BY DEF Slot, Tombstone
  <2>3. /\ slots' \in [0 .. capacity - 1 -> Slot] /\ slots'[s] = Tombstone
        /\ \A t \in 0 .. capacity - 1 : t # s => slots'[t] = slots[t]
    BY <1>1, <1>3, <2>1, <2>2
  <2>4. Used' = Used \ {s} /\ Deleted' = Deleted \cup {s}
    BY <1>1, <2>1, <2>2, <2>3 DEF Used, Deleted
  <2>5. /\ Cardinality(Used)' = Cardinality(Used \ {s})
        /\ Cardinality(Deleted)' = Cardinality(Deleted \cup {s})
    BY Zenon, <2>4
  <2>6. /\ Cardinality(Used)' = count - 1 /\ count - 1 \in Nat
        /\ Cardinality(Deleted)' <= tombstones + 1
    <3>1. /\ Cardinality(Used \ {s}) = Cardinality(Used) - 1 /\ Cardinality(Used \ {s}) \in Nat
      BY <1>1, <2>1, FiniteParts, FS_RemoveElement, FS_CardinalityType
    <3>2. s \notin Deleted  BY <2>1 DEF Used, Deleted
    <3>3. /\ Cardinality(Deleted \cup {s}) = Cardinality(Deleted) + 1
          /\ Cardinality(Deleted) \in Nat
      BY <1>1, <3>2, FiniteParts, FS_AddElement, FS_CardinalityType
    <3> QED  BY <1>1, <2>5, <3>1, <3>2, <3>3
  <2>7. TypeOK'  BY <1>1, <1>3, <2>3, <2>6 DEF TypeOK, old
  <2>8. Unique'  BY <1>1, <2>3, <2>4 DEF Unique, Used
  <2>9. Reachable'
    <3>1. \A q : Home(q)' = Home(q)  BY <1>1 DEF Home
    <3>2. \A a, b : Distance(a, b)' = Distance(a, b)  BY <1>1 DEF Distance
    <3>3. \A t \in 0 .. capacity - 1 : slots[t].state # "EMPTY" => slots'[t].state # "EMPTY"
      BY <2>2, <2>3
    <3>4. \A t \in Used' : t \in Used /\ slots'[t] = slots[t]  BY <2>3, <2>4 DEF Used
    <3> QED  BY <1>1, <3>1, <3>2, <3>3, <3>4 DEF Reachable
  <2>10. Counted'
    <3>1. (count + tombstones) * 10 <= capacity * 7
      BY <1>1 DEF TableInv, Counted, HT_MAX_LOAD_NUMER, HT_MAX_LOAD_DENOM
    <3>2. count' + tombstones' = count + tombstones  BY <1>1, <1>3
    <3>3. (count' + tombstones') * HT_MAX_LOAD_DENOM <= capacity * HT_MAX_LOAD_NUMER
      BY <3>1, <3>2 DEF HT_MAX_LOAD_NUMER, HT_MAX_LOAD_DENOM
    <3> QED  BY <1>1, <1>3, <2>6, <3>3 DEF Counted
  <2>11. Rehashed'  BY <1>1 DEF TableInv, Rehashed, old
  <2> QED  BY <2>7, <2>8, <2>9, <2>10, <2>11 DEF TableInv
<1> QED  BY <1>2, <1>3 DEF ht_remove

\* ht_destroy leaves a table without slots, of which the invariant holds.
LEMMA DestroyInv ==
  ASSUME TableInv, ht_destroy
  PROVE  TableInv'
<1>1. /\ pc = "idle" /\ pc' = "destroyed" /\ capacity' = 0 /\ slots' = calloc(0)
      /\ count' = 0 /\ tombstones' = 0 /\ UNCHANGED <<old, arg, ret>> /\ TypeOK /\ Rehashed
  BY DEF ht_destroy, TableInv
<1>2. /\ slots' \in [0 .. capacity' - 1 -> Slot]
      /\ Used' = {} /\ Deleted' = {}
  BY <1>1 DEF calloc, EmptySlot, Slot, Used, Deleted
<1>3. Unique' /\ Reachable'  BY <1>2 DEF Unique, Reachable
<1>4. TypeOK'  BY <1>1, <1>2 DEF TypeOK, old
<1>5. Counted'
  <2>1. Cardinality(Used)' = 0 /\ Cardinality(Deleted)' = 0  BY <1>2, FS_EmptySet
  <2> QED  BY <1>1, <2>1 DEF Counted
<1>6. Rehashed'  BY <1>1 DEF Rehashed, old
<1> QED  BY <1>3, <1>4, <1>5, <1>6 DEF TableInv

\* ht_init establishes the table's invariant and every call keeps it, whatever
\* the keys, the hash function and the capacity: keys are unique and reachable,
\* the counters are right, and there is always room where an insertion needs it.
THEOREM TableInvariant == Spec => []TableInv
<1>1. Init => TableInv  BY InitInv
<1>2. TableInv /\ [Next]_vars => TableInv'
  <2> SUFFICES ASSUME TableInv, [Next]_vars PROVE TableInv'
    OBVIOUS
  <2>1. ASSUME NEW k \in Keys, ht_lookup(k) PROVE TableInv'
    <3>1. ret' \in Values \cup {NULL}
      <4>1. CASE find_key(k) = {} /\ ret' = NULL  BY <4>1
      <4>2. ASSUME NEW s \in find_key(k), ret' = slots[s].value PROVE ret' \in Values
        <5>1. TypeOK /\ capacity >= 2 /\ Unique /\ Reachable
          BY <2>1 DEF TableInv, TypeOK, ht_lookup
        <5>2. s \in 0 .. capacity - 1 /\ slots[s].state = "USED"
          BY <5>1, FindKey DEF Holds
        <5> QED  BY <4>2, <5>1, <5>2 DEF TypeOK, Slot, EmptySlot, Tombstone, Entry
      <4> QED  BY <2>1, <4>1, <4>2 DEF ht_lookup
    <3> QED  BY <2>1, <3>1, UnchangedInv DEF ht_lookup
  <2>2. CASE ResizeFails  BY Zenon, <2>2, UnchangedInv DEF ResizeFails
  <2>3. CASE UNCHANGED vars
    <3>1. ret' \in BOOLEAN \cup Values \cup {NULL}  BY <2>3 DEF TableInv, TypeOK, vars
    <3> QED  BY <2>3, <3>1, UnchangedInv DEF vars
  <2>4. CASE Terminated  BY <2>3, <2>4 DEF Terminated
  <2>5. ASSUME NEW k \in Keys, ht_contains(k) PROVE TableInv'
    BY ZenonT(60), <2>5, UnchangedInv DEF ht_contains
  <2> QED  BY <2>1, <2>2, <2>3, <2>4, <2>5, InsertInv, ResizeInv, RehashInv, InsertResizedInv,
              RemoveInv, DestroyInv DEF Next
<1> QED  BY <1>1, <1>2, PTL DEF Spec

\* No probe for a key that is there ends early (find_key).
THEOREM TableReachable == Spec => []Reachable
<1>1. TableInv => Reachable  BY DEF TableInv
<1> QED  BY <1>1, TableInvariant, PTL

\* What ht_size returns is right, and the growth threshold counts every slot that
\* is not empty.
THEOREM TableCounted == Spec => []Counted
<1>1. TableInv => Counted  BY DEF TableInv
<1> QED  BY <1>1, TableInvariant, PTL

-----------------------------------------------------------------------------
(* The refinement of Dictionary.                                           *)

\* Slot s of the array a holds an entry for k.
InSlot(a, s, k) == a[s].state = "USED" /\ a[s].key = k

\* What Contents says of a key that has one slot, and of one that has none.
LEMMA ContentsOf ==
  ASSUME NEW n, NEW a, NEW k \in Keys
  PROVE  /\ \A s \in 0 .. n - 1 :
              InSlot(a, s, k) /\ (\A t \in 0 .. n - 1 : InSlot(a, t, k) => t = s)
                => Contents(n, a)[k] = a[s].value
         /\ (\A t \in 0 .. n - 1 : ~InSlot(a, t, k)) => Contents(n, a)[k] = Absent
<1>1. Contents(n, a)[k] =
        IF \E s \in 0 .. n - 1 : InSlot(a, s, k)
        THEN a[CHOOSE s \in 0 .. n - 1 : InSlot(a, s, k)].value ELSE Absent
  BY DEF Contents, InSlot
<1>2. ASSUME NEW s \in 0 .. n - 1, InSlot(a, s, k),
             \A t \in 0 .. n - 1 : InSlot(a, t, k) => t = s
      PROVE  Contents(n, a)[k] = a[s].value
  <2>1. (CHOOSE t \in 0 .. n - 1 : InSlot(a, t, k)) = s  BY <1>2
  <2> QED  BY <1>1, <1>2, <2>1
<1>3. ASSUME \A t \in 0 .. n - 1 : ~InSlot(a, t, k) PROVE Contents(n, a)[k] = Absent
  BY <1>1, <1>3
<1> QED  BY <1>2, <1>3

\* Two maps over the keys are equal when they agree on every key.
LEMMA SameMap ==
  ASSUME NEW n, NEW a, NEW f, f = [k \in Keys |-> f[k]],
         \A k \in Keys : Contents(n, a)[k] = f[k]
  PROVE  Contents(n, a) = f
<1>1. Contents(n, a) = [k \in Keys |-> Contents(n, a)[k]]  BY DEF Contents
<1> QED  BY <1>1

\* What an array of slots stands for is a function on the keys.
LEMMA IsMap == ASSUME NEW n, NEW a
               PROVE  /\ Contents(n, a) = [k \in Keys |-> Contents(n, a)[k]]
                      /\ DOMAIN Contents(n, a) = Keys
BY DEF Contents

\* In a table whose keys are unique a used slot tells the value of its key.
LEMMA UsedSlot ==
  ASSUME TypeOK, Unique, NEW s \in Used
  PROVE  slots[s].key \in Keys /\ slots[s].value \in Values
         /\ Contents(capacity, slots)[slots[s].key] = slots[s].value
<1>1. s \in 0 .. capacity - 1 /\ slots[s].state = "USED"  BY DEF Used
<1>2. slots[s].key \in Keys /\ slots[s].value \in Values
  BY <1>1 DEF TypeOK, Slot, EmptySlot, Tombstone, Entry
<1>3. /\ InSlot(slots, s, slots[s].key)
      /\ \A t \in 0 .. capacity - 1 : InSlot(slots, t, slots[s].key) => t = s
  BY <1>1 DEF InSlot, Unique, Used
<1> QED  BY <1>1, <1>2, <1>3, ContentsOf

\* And a key in no slot has none.
LEMMA NoSlot ==
  ASSUME NEW k \in Keys, \A s \in Used : slots[s].key # k
  PROVE  Contents(capacity, slots)[k] = Absent
<1>1. \A t \in 0 .. capacity - 1 : ~InSlot(slots, t, k)  BY DEF InSlot, Used
<1> QED  BY <1>1, ContentsOf

\* insert_no_resize changes the map at its key.
LEMMA InsertMap ==
  ASSUME TypeOK, capacity >= 2, Unique, Reachable, count = Cardinality(Used),
         \E s \in 0 .. capacity - 1 : slots[s].state = "EMPTY",
         NEW k \in Keys, NEW v \in Values, insert_no_resize(k, v), UNCHANGED capacity
  PROVE  /\ Contents(capacity, slots)' = [Contents(capacity, slots) EXCEPT ![k] = v]
         /\ Stops(k) # {}
<1> DEFINE f == Contents(capacity, slots)  g == [f EXCEPT ![k] = v]
<1>1. /\ slots' \in [0 .. capacity - 1 -> Slot] /\ Unique'
      /\ \E s \in Used' : slots'[s] = Entry(k, v)
      /\ \A s \in Used' : slots'[s] = Entry(k, v) \/ (s \in Used /\ slots[s] = slots'[s])
      /\ \A s \in Used : slots[s].key # k => s \in Used' /\ slots'[s] = slots[s]
  BY InsertKeeps
<1>2. Entry(k, v).key = k /\ Entry(k, v).value = v /\ Entry(k, v).state = "USED"  BY DEF Entry
<1>3. f = [q \in Keys |-> f[q]] /\ DOMAIN f = Keys  BY IsMap
<1>4. \A s \in 0 .. capacity - 1 : s \in Used' <=> slots'[s].state = "USED"  BY DEF Used
<1>5. \A s \in Used' : s \in 0 .. capacity - 1  BY DEF Used
<1>6. Contents(capacity', slots')[k] = v
  <2>1. PICK s \in Used' : slots'[s] = Entry(k, v)  BY <1>1
  <2>2. /\ s \in 0 .. capacity - 1 /\ InSlot(slots', s, k)
        /\ \A t \in 0 .. capacity - 1 : InSlot(slots', t, k) => t = s
    BY <1>1, <1>2, <1>4, <1>5, <2>1 DEF InSlot, Unique
  <2> QED  BY <1>2, <2>1, <2>2, ContentsOf
<1>7. ASSUME NEW q \in Keys, q # k PROVE Contents(capacity', slots')[q] = f[q]
  <2>1. CASE \E s \in Used : slots[s].key = q
    <3>1. PICK s \in Used : slots[s].key = q  BY <2>1
    <3>2. s \in Used' /\ slots'[s] = slots[s]  BY <1>1, <1>7, <3>1
    <3>3. /\ s \in 0 .. capacity - 1 /\ InSlot(slots', s, q)
          /\ \A t \in 0 .. capacity - 1 : InSlot(slots', t, q) => t = s
      BY <1>1, <1>4, <1>5, <3>1, <3>2 DEF InSlot, Unique
    <3>4. Contents(capacity', slots')[q] = slots[s].value  BY <3>2, <3>3, ContentsOf
    <3> QED  BY <3>1, <3>4, UsedSlot
  <2>2. CASE \A s \in Used : slots[s].key # q
    <3>1. \A t \in 0 .. capacity - 1 : ~InSlot(slots', t, q)
      BY <1>1, <1>2, <1>4, <1>7, <2>2 DEF InSlot
    <3> QED  BY <2>2, <3>1, NoSlot, ContentsOf
  <2> QED  BY <2>1, <2>2
<1>8. Contents(capacity', slots') = g
  <2>1. g = [q \in Keys |-> g[q]]  BY <1>3
  <2>2. \A q \in Keys : Contents(capacity', slots')[q] = g[q]  BY <1>3, <1>6, <1>7
  <2> HIDE DEF g
  <2> QED  BY <2>1, <2>2, SameMap
<1> QED  BY <1>8, InsertEffect

\* ht_remove changes the map at its key.
LEMMA RemoveMap ==
  ASSUME TypeOK, capacity >= 2, Unique, Reachable, NEW k \in Keys,
         NEW s \in find_key(k), UNCHANGED capacity, slots'[s] = Tombstone,
         \A t \in 0 .. capacity - 1 : t # s => slots'[t] = slots[t]
  PROVE  /\ Contents(capacity, slots)' = [Contents(capacity, slots) EXCEPT ![k] = Absent]
         /\ Contents(capacity, slots)[k] = slots[s].value /\ slots[s].value \in Values
<1> DEFINE f == Contents(capacity, slots)  g == [f EXCEPT ![k] = Absent]
<1>1. s \in Used /\ slots[s].key = k /\ s \in 0 .. capacity - 1  BY FindKey DEF Holds, Used
<1>3. Tombstone.state # "USED"  BY DEF Tombstone
<1>4. f = [q \in Keys |-> f[q]] /\ DOMAIN f = Keys  BY IsMap
<1>5. Contents(capacity', slots')[k] = Absent
  <2>1. \A t \in 0 .. capacity - 1 : ~InSlot(slots', t, k)
    BY <1>1, <1>3 DEF InSlot, Unique, Used
  <2> QED  BY <2>1, ContentsOf
<1>6. ASSUME NEW q \in Keys, q # k PROVE Contents(capacity', slots')[q] = f[q]
  <2>1. \A t \in 0 .. capacity - 1 : InSlot(slots', t, q) <=> InSlot(slots, t, q)
    BY <1>1, <1>3, <1>6 DEF InSlot
  <2>2. CASE \E t \in Used : slots[t].key = q
    <3>1. PICK t \in Used : slots[t].key = q  BY <2>2
    <3>2. t \in 0 .. capacity - 1 /\ slots'[t] = slots[t]  BY <1>1, <1>6, <3>1 DEF Used
    <3>3. /\ InSlot(slots', t, q)
          /\ \A u \in 0 .. capacity - 1 : InSlot(slots', u, q) => u = t
      BY <2>1, <3>1, <3>2 DEF InSlot, Unique, Used
    <3>4. Contents(capacity', slots')[q] = slots[t].value  BY <3>2, <3>3, ContentsOf
    <3> QED  BY <3>1, <3>4, UsedSlot
  <2>3. CASE \A t \in Used : slots[t].key # q
    <3>1. \A t \in 0 .. capacity - 1 : ~InSlot(slots', t, q)  BY <2>1, <2>3 DEF InSlot, Used
    <3> QED  BY <2>3, <3>1, NoSlot, ContentsOf
  <2> QED  BY <2>2, <2>3
<1>7. Contents(capacity', slots') = g
  <2>1. g = [q \in Keys |-> g[q]]  BY <1>4
  <2>2. \A q \in Keys : Contents(capacity', slots')[q] = g[q]  BY <1>4, <1>5, <1>6
  <2> HIDE DEF g
  <2> QED  BY <2>1, <2>2, SameMap
<1> QED  BY <1>1, <1>7, UsedSlot

\* When resize has moved every slot, the new array stands for the old map.
LEMMA RehashedMap ==
  ASSUME TableInv, pc = "rehash", i = old_capacity
  PROVE  Contents(capacity, slots) = Contents(old_capacity, old_slots)
<1> DEFINE f == Contents(old_capacity, old_slots)
<1>1. /\ TypeOK /\ Unique
      /\ \A s, t \in OldUsed : old_slots[s].key = old_slots[t].key => s = t
      /\ \A s \in Used : \E t \in OldUsed : slots[s] = old_slots[t]
      /\ \A t \in OldUsed : t < i => \E s \in Used : slots[s] = old_slots[t]
  BY DEF TableInv, Rehashed
<1>2. \A t \in OldUsed : t < i /\ t \in 0 .. old_capacity - 1 /\ old_slots[t].state = "USED"
  BY <1>1 DEF OldUsed, TypeOK
<1>3. ASSUME NEW k \in Keys PROVE Contents(capacity, slots)[k] = f[k]
  <2>1. CASE \E t \in OldUsed : old_slots[t].key = k
    <3>1. PICK t \in OldUsed : old_slots[t].key = k  BY <2>1
    <3>2. PICK s \in Used : slots[s] = old_slots[t]  BY <1>1, <1>2, <3>1
    <3>3. Contents(capacity, slots)[k] = old_slots[t].value
      BY <1>1, <3>1, <3>2, UsedSlot
    <3>4. /\ InSlot(old_slots, t, k)
          /\ \A u \in 0 .. old_capacity - 1 : InSlot(old_slots, u, k) => u = t
      BY <1>1, <1>2, <3>1 DEF InSlot, OldUsed
    <3>5. f[k] = old_slots[t].value  BY <1>2, <3>1, <3>4, ContentsOf
    <3> QED  BY <3>3, <3>5
  <2>2. CASE \A t \in OldUsed : old_slots[t].key # k
    <3>1. \A s \in Used : slots[s].key # k  BY <1>1, <2>2
    <3>2. \A t \in 0 .. old_capacity - 1 : ~InSlot(old_slots, t, k)
      BY <2>2 DEF InSlot, OldUsed
    <3> QED  BY <3>1, <3>2, NoSlot, ContentsOf
  <2> QED  BY <2>1, <2>2
<1>4. f = [k \in Keys |-> f[k]]  BY IsMap
<1> HIDE DEF f
<1>5. Contents(capacity, slots) = f  BY <1>3, <1>4, SameMap
<1> QED  BY <1>5 DEF f

\* A fresh array stands for the empty map.
LEMMA FreshMap ==
  ASSUME NEW n
  PROVE  Contents(n, calloc(n)) = [k \in Keys |-> Absent]
<1>1. \A k \in Keys, t \in 0 .. n - 1 : ~InSlot(calloc(n), t, k)
  BY DEF InSlot, calloc, EmptySlot
<1>2. \A k \in Keys : Contents(n, calloc(n))[k] = Absent  BY <1>1, ContentsOf
<1> QED  BY <1>2, IsMap

\* hash_table.h: the table is a map.  With all its probing, deleting and moving
\* each call changes the entry of its key alone and returns what the map says.
THEOREM TableImplementsDictionary == Spec => ImplementsDictionary
<1>1. Init => Abstract!Init
  <2> SUFFICES ASSUME Init PROVE Abstract!Init  OBVIOUS
  <2>1. Map = Contents(InitialCapacity, calloc(InitialCapacity))  BY DEF Map, Init
  <2> QED  BY <2>1, FreshMap DEF Init, Abstract!Init
<1>2. TableInv /\ TableInv' /\ [Next]_vars => [Abstract!Next]_Abstract!vars
  <2> SUFFICES ASSUME TableInv, TableInv', [Next]_vars
               PROVE  [Abstract!Next]_Abstract!vars
    OBVIOUS
  <2> USE DEF Abstract!vars
  <2>1. /\ TypeOK /\ Unique /\ Reachable /\ count = Cardinality(Used)
        /\ pc # "destroyed" => capacity >= 2
        /\ Absent \notin Values
    BY SMTT(60), TableConfig DEF TableInv, TypeOK, Counted
  <2>2. ASSUME NEW k \in Keys, ht_lookup(k) PROVE Abstract!Next
    <3>1. pc = "idle" /\ Map = Contents(capacity, slots) /\ UNCHANGED Map /\ capacity >= 2
      BY <2>1, <2>2 DEF ht_lookup, Map, table, old
    <3>2. ret' = IF Map[k] = Absent THEN NULL ELSE Map[k]
      <4>1. CASE find_key(k) = {} /\ ret' = NULL
        <5>1. \A s \in Used : slots[s].key # k
          BY <2>1, <3>1, <4>1, FindKey DEF Holds, Used
        <5> QED  BY <3>1, <4>1, <5>1, NoSlot
      <4>2. ASSUME NEW s \in find_key(k), ret' = slots[s].value
            PROVE  ret' = Map[k] /\ Map[k] # Absent
        <5>1. s \in Used /\ slots[s].key = k  BY <2>1, <3>1, FindKey DEF Holds, Used
        <5>2. slots[s].value \in Values  BY <2>1, <5>1, UsedSlot
        <5> QED  BY <2>1, <3>1, <4>2, <5>1, <5>2, UsedSlot
      <4> QED  BY <2>2, <4>1, <4>2 DEF ht_lookup
    <3>3. Abstract!Lookup(k)  BY <3>1, <3>2 DEF Abstract!Lookup
    <3> QED  BY <3>3 DEF Abstract!Next
  <2>3. ASSUME NEW k \in Keys, ht_remove(k) PROVE Abstract!Next
    <3>1. /\ pc = "idle" /\ Map = Contents(capacity, slots) /\ capacity >= 2
          /\ UNCHANGED capacity /\ Map' = Contents(capacity, slots)'
      BY <2>1, <2>3 DEF ht_remove, Map
    <3>2. CASE find_key(k) = {} /\ ret' = FALSE /\ UNCHANGED <<slots, count, tombstones>>
      <4>1. \A s \in Used : slots[s].key # k
        BY <2>1, <3>1, <3>2, FindKey DEF Holds, Used
      <4>2. Map[k] = Absent  BY <3>1, <4>1, NoSlot
      <4>3. Map' = Map  BY <3>1, <3>2
      <4>4. Map = [Map EXCEPT ![k] = Absent]  BY <3>1, <4>2, IsMap
      <4>5. Abstract!Remove(k)  BY ZenonT(60), <3>2, <4>2, <4>3, <4>4 DEF Abstract!Remove
      <4> QED  BY <4>5 DEF Abstract!Next
    <3>3. ASSUME NEW s \in find_key(k), slots' = [slots EXCEPT ![s] = Tombstone], ret' = TRUE
          PROVE  Abstract!Next
      <4>0. /\ slots'[s] = Tombstone
            /\ \A t \in 0 .. capacity - 1 : t # s => slots'[t] = slots[t]
        BY <2>1, <3>1, <3>3, FindKey DEF TypeOK
      <4>1. Map' = [Map EXCEPT ![k] = Absent] /\ Map[k] \in Values
        BY <2>1, <3>1, <4>0, RemoveMap
      <4>2. Abstract!Remove(k)  BY ZenonT(60), <2>1, <3>3, <4>1 DEF Abstract!Remove
      <4> QED  BY <4>2 DEF Abstract!Next
    <3> QED  BY ZenonT(60), <2>3, <3>2, <3>3 DEF ht_remove
  <2>4. ASSUME NEW k \in Keys, NEW v \in Values, Insert(k, v) PROVE Abstract!Next
    <3>1. /\ pc = "idle" /\ Map = Contents(capacity, slots) /\ capacity >= 2 /\ ~Overloaded
          /\ UNCHANGED capacity /\ Map' = Contents(capacity, slots)'
          /\ insert_no_resize(k, v) /\ ret' = (Stops(k) # {})
      BY <2>1, <2>4 DEF Insert, Map
    <3>2. \E s \in 0 .. capacity - 1 : slots[s].state = "EMPTY"  BY <3>1, InsertFits
    <3>3. Map' = [Map EXCEPT ![k] = v] /\ Stops(k) # {}  BY <2>1, <3>1, <3>2, InsertMap
    <3>4. Abstract!Insert(k, v)  BY ZenonT(60), <3>1, <3>3 DEF Abstract!Insert
    <3> QED  BY <3>4 DEF Abstract!Next
  <2>5. ASSUME NEW k \in Keys, NEW v \in Values, Resize(k, v) PROVE UNCHANGED Abstract!vars
    BY <2>5 DEF Resize, Map
  <2>6. CASE ResizeFails
    <3>1. Abstract!InsertFails
      BY <2>6 DEF ResizeFails, Abstract!InsertFails, Map, table, old
    <3> QED  BY <3>1 DEF Abstract!Next
  <2>7. CASE Rehash  BY <2>7 DEF Rehash, Map
  <2>8. CASE InsertResized
    <3>1. /\ pc = "rehash" /\ pc' = "idle" /\ i = old_capacity /\ capacity >= 2
          /\ Map = Contents(old_capacity, old_slots)
          /\ UNCHANGED capacity /\ Map' = Contents(capacity, slots)'
          /\ insert_no_resize(arg[1], arg[2]) /\ ret' = (Stops(arg[1]) # {})
          /\ arg[1] \in Keys /\ arg[2] \in Values
      BY <2>1, <2>8 DEF InsertResized, Map, TypeOK
    <3>2. \E s \in 0 .. capacity - 1 : slots[s].state = "EMPTY"  BY <3>1, InsertFits
    <3>3. Map = Contents(capacity, slots)  BY <3>1, RehashedMap
    <3>4. Map' = [Map EXCEPT ![arg[1]] = arg[2]] /\ Stops(arg[1]) # {}
      BY <2>1, <3>1, <3>2, <3>3, InsertMap
    <3>5. Abstract!Insert(arg[1], arg[2])  BY ZenonT(60), <3>1, <3>4 DEF Abstract!Insert
    <3> QED  BY <3>1, <3>5 DEF Abstract!Next
  <2>9. CASE ht_destroy
    <3>1. Map' = Contents(0, calloc(0)) /\ UNCHANGED ret  BY <2>9 DEF ht_destroy, Map
    <3>2. Abstract!Destroy  BY <3>1, FreshMap DEF Abstract!Destroy
    <3> QED  BY <3>2 DEF Abstract!Next
  <2>10. CASE Terminated  BY <2>10 DEF Terminated, vars, Map, table, old
  <2>11. CASE UNCHANGED vars  BY <2>11 DEF vars, Map, table, old
  <2>12. ASSUME NEW k \in Keys, ht_contains(k) PROVE Abstract!Next
    <3>1. /\ pc = "idle" /\ Map = Contents(capacity, slots) /\ UNCHANGED Map /\ capacity >= 2
          /\ ret' = (find_key(k) # {})
      BY <2>1, <2>12 DEF ht_contains, Map, table, old
    <3>2. find_key(k) # {} <=> Map[k] # Absent
      <4>1. CASE find_key(k) = {}
        <5>1. \A s \in Used : slots[s].key # k
          BY <2>1, <3>1, <4>1, FindKey DEF Holds, Used
        <5> QED  BY <3>1, <4>1, <5>1, NoSlot
      <4>2. ASSUME NEW s \in find_key(k) PROVE Map[k] # Absent
        <5>1. s \in Used /\ slots[s].key = k  BY <2>1, <3>1, FindKey DEF Holds, Used
        <5>2. slots[s].value \in Values  BY <2>1, <5>1, UsedSlot
        <5> QED  BY <2>1, <3>1, <5>1, <5>2, UsedSlot
      <4> QED  BY <4>1, <4>2
    <3>3. Abstract!Contains(k)  BY ZenonT(60), <3>1, <3>2 DEF Abstract!Contains
    <3> QED  BY <3>3 DEF Abstract!Next
  <2> QED  BY <2>2, <2>3, <2>4, <2>5, <2>6, <2>7, <2>8, <2>9, <2>10, <2>11, <2>12 DEF Next
<1> QED  BY <1>1, <1>2, TableInvariant, PTL DEF Spec, ImplementsDictionary, Abstract!Spec
=============================================================================
