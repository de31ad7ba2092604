--------------------------- MODULE MatchUnitProofs ---------------------------
(***************************************************************************)
(* Proofs about MatchUnit, for every size, key set and version width, and  *)
(* about the AgeingMonitor that works on it.                               *)
(***************************************************************************)
EXTENDS AgeingMonitor, FiniteSetTheorems, WellFoundedInduction, TLAPS

-----------------------------------------------------------------------------
\* Numbers.

(***************************************************************************)
(* A non-empty set of naturals has a least element.                        *)
(***************************************************************************)
LEMMA NatMin ==
    ASSUME NEW T, T \subseteq Nat, T # {}
    PROVE  \E x \in T : \A y \in T : x <= y
<1> DEFINE R == OpToRel(<, Nat)
<1>1. IsWellFoundedOn(R, Nat)
    BY NatLessThanWellFounded
<1> HIDE DEF R
<1>2. PICK x \in T : \A y \in T : ~(<<y, x>> \in R)
    BY <1>1, WFMin
<1>3. \A y \in T : ~(y < x)
    BY <1>2 DEF R, OpToRel
<1> QED
    BY <1>3

(***************************************************************************)
(* HandleMgr::get_handle finds a handle: of the first n + 1 naturals one   *)
(* is not in a set of n, and so there is a first one.                      *)
(***************************************************************************)
LEMMA FirstFreeExists ==
    ASSUME NEW used, IsFiniteSet(used), used \subseteq Nat
    PROVE  \E h \in 0 .. Cardinality(used) :
               h \notin used /\ \A g \in 0 .. h - 1 : g \in used
<1> DEFINE n == Cardinality(used)
<1>1. n \in Nat
    BY FS_CardinalityType
<1>2. ~((0 .. n) \subseteq used)
    <2> SUFFICES ASSUME (0 .. n) \subseteq used PROVE FALSE
        OBVIOUS
    <2>1. Cardinality(0 .. n) <= n
        BY FS_Subset
    <2>2. Cardinality(0 .. n) = n + 1
        BY <1>1, FS_Interval
    <2> QED
        BY <1>1, <2>1, <2>2
<1> DEFINE free == {h \in 0 .. n : h \notin used}
<1>3. PICK x \in free : \A y \in free : x <= y
    <2>1. free \subseteq Nat /\ free # {}
        BY <1>1, <1>2
    <2> HIDE DEF free
    <2> QED
        BY <2>1, NatMin
<1>4. x \in 0 .. n /\ x \notin used /\ \A g \in 0 .. x - 1 : g \in used
    BY <1>1, <1>3
<1> QED
    BY <1>4


-----------------------------------------------------------------------------
\* The handle manager.

(***************************************************************************)
(* HandleMgr::get_handle on a table that is not full returns a slot inside *)
(* the vectors that is not in use, although nothing bounds the search.     *)
(***************************************************************************)
LEMMA FirstEmptyIsFree ==
    ASSUME NEW used, used \subseteq Slots, Cardinality(used) < Size
    PROVE  FirstEmpty(used) \in Slots \ used
<1> DEFINE n == Cardinality(used)
<1>1. IsFiniteSet(used) /\ n \in Nat
    <2>1. IsFiniteSet(Slots)
        BY FS_Interval, SizeAssumption DEF Slots
    <2> QED
        BY <2>1, FS_Subset, FS_CardinalityType
<1>2. \E s \in 0 .. n : s \notin used /\ \A t \in 0 .. s - 1 : t \in used
    <2>1. used \subseteq Nat
        BY SizeAssumption DEF Slots
    <2> QED
        BY <1>1, <2>1, FirstFreeExists
<1>3. /\ FirstEmpty(used) \in 0 .. n
      /\ FirstEmpty(used) \notin used
    BY <1>2 DEF FirstEmpty
<1> QED
    BY <1>1, <1>3, SizeAssumption DEF Slots

-----------------------------------------------------------------------------
\* The inductive invariant.

\* The constructor of MatchUnitAbstract_ leaves an empty table that satisfies the
\* inductive invariant: no handle is out, no key leads anywhere.
LEMMA InitIInv == Init => IInv
<1> SUFFICES ASSUME Init PROVE IInv
    OBVIOUS
<1> USE SizeAssumption, VersionAssumption, ClockAssumption
<1>1. EmptyEntry \in EntryType /\ EmptyMeta \in MetaType
    BY DEF EmptyEntry, EntryType, EmptyMeta, MetaType, Versions, Ages
<1>2. TypeOK
    BY <1>1 DEF Init, TypeOK, None
<1>3. LookupConsistent
    BY FS_EmptySet DEF Init, LookupConsistent, entry_exists
<1>4. VersionsCount /\ HandlesAccounted
    BY DEF Init, VersionsCount, HandlesAccounted, EmptyEntry
<1> QED
    BY <1>2, <1>3, <1>4 DEF IInv

\* A call that fails, or one that only touches the metadata, preserves it.
LEMMA MetadataIInv ==
    ASSUME IInv, entry_meta' \in [Slots -> MetaType],
           UNCHANGED <<handles, num_entries, entries, lookup_structure, history>>
    PROVE  IInv'
<1>1. TypeOK'
    BY DEF IInv, TypeOK, history
<1>2. LookupConsistent'
    BY DEF IInv, LookupConsistent, entry_exists
<1>3. VersionsCount' /\ HandlesAccounted'
    BY DEF IInv, VersionsCount, HandlesAccounted, history
<1> QED
    BY <1>1, <1>2, <1>3 DEF IInv

\* A call that returns an error code early (a bad key, a full table, a duplicate,
\* an invalid or expired handle) changes nothing of the invariant.
LEMMA RefuseIInv ==
    ASSUME IInv, NEW op, NEW code, Refuse(op, code)
    PROVE  IInv'
BY MetadataIInv DEF Refuse, storage, IInv, TypeOK

\* The slots in use are finitely many, so that num_entries can count them.
LEMMA HandlesFinite ==
    ASSUME handles \subseteq Slots
    PROVE  IsFiniteSet(handles)
<1>1. IsFiniteSet(Slots)
    BY FS_Interval, SizeAssumption DEF Slots
<1> QED
    BY <1>1, FS_Subset

\* add_entry_ preserves the invariant: the slot it is given is free and inside the
\* vectors, and no handle issued before has that slot's present version.
LEMMA AddIInv ==
    ASSUME IInv, NEW uk \in UserKeys, NEW v \in Values, AddEntrySucceeds(uk, v)
    PROVE  IInv'
<1> DEFINE k == Canonical[uk]
           slot == FirstEmpty(handles)
           version == entries[slot].version
           h == [version |-> version, slot |-> slot]
           new == [handle |-> h, key |-> k, birth |-> generation[slot]]
<1> USE SizeAssumption, VersionAssumption
<1>1. k \in Keys
    BY KeyAssumption DEF AddEntrySucceeds
<1>2. slot \in Slots /\ slot \notin handles
    <2>1. handles \subseteq Slots /\ Cardinality(handles) < Size
        BY DEF IInv, TypeOK, LookupConsistent, AddEntrySucceeds
    <2> QED
        BY <2>1, FirstEmptyIsFree
<1>3. /\ handles' = handles \cup {slot}
      /\ num_entries' = num_entries + 1
      /\ entries' = [entries EXCEPT ![slot] =
                         [key |-> k, version |-> version, value |-> v]]
      /\ entry_meta' = [entry_meta EXCEPT ![slot] = MetaReset(@, version)]
      /\ lookup_structure' = [lookup_structure EXCEPT ![k] = slot]
      /\ issued' = issued \cup {new}
      /\ generation' = generation
      /\ num_entries < Size
      /\ lookup_structure[k] = None
    BY DEF AddEntrySucceeds, entry_exists
<1>4. version \in Versions /\ generation[slot] \in Nat
    BY <1>2 DEF IInv, TypeOK, EntryType
<1> HIDE DEF slot, k, version
<1>5. TypeOK'
    <2>1. handles' \subseteq Slots /\ num_entries' \in 0 .. Size
        BY <1>2, <1>3 DEF IInv, TypeOK
    <2>2. entries' \in [Slots -> EntryType]
        BY <1>1, <1>2, <1>3, <1>4 DEF IInv, TypeOK, EntryType
    <2>3. entry_meta' \in [Slots -> MetaType]
        <3>1. MetaReset(entry_meta[slot], version) \in MetaType
            BY <1>2, <1>4, ClockAssumption DEF IInv, TypeOK, MetaType, MetaReset, Ages
        <3> QED
            BY <1>2, <1>3, <3>1 DEF IInv, TypeOK
    <2>4. lookup_structure' \in [Keys -> Slots \cup {None}]
        BY <1>1, <1>2, <1>3 DEF IInv, TypeOK
    <2>5. issued' \subseteq IssuedType /\ generation' \in [Slots -> Nat]
        BY <1>1, <1>2, <1>3, <1>4 DEF IInv, TypeOK, IssuedType
    <2> QED
        BY <2>1, <2>2, <2>3, <2>4, <2>5 DEF TypeOK
<1>6. LookupConsistent'
    <2>1. num_entries' = Cardinality(handles')
        <3>1. IsFiniteSet(handles)
            BY HandlesFinite DEF IInv, TypeOK
        <3>2. Cardinality(handles \cup {slot}) = Cardinality(handles) + 1
            BY <1>2, <3>1, FS_AddElement
        <3> QED
            BY <1>3, <3>2 DEF IInv, LookupConsistent
    <2>2. ASSUME NEW s \in handles'
          PROVE  entries'[s].key \in Keys /\ lookup_structure'[entries'[s].key] = s
        <3>1. CASE s = slot
            BY <1>1, <1>2, <1>3, <3>1 DEF IInv, TypeOK
        <3>2. CASE s # slot
            <4>1. s \in handles /\ s \in Slots
                BY <1>3, <3>2 DEF IInv, TypeOK
            <4>2. entries[s].key \in Keys /\ lookup_structure[entries[s].key] = s
                BY <4>1 DEF IInv, LookupConsistent
            <4>3. entries[s].key # k
                BY <1>3, <4>1, <4>2, SMT DEF None, Slots
            <4> QED
                BY <1>1, <1>2, <1>3, <3>2, <4>1, <4>2, <4>3 DEF IInv, TypeOK
        <3> QED
            BY <3>1, <3>2
    <2>3. ASSUME NEW x \in Keys, lookup_structure'[x] # None
          PROVE  /\ lookup_structure'[x] \in handles'
                 /\ entries'[lookup_structure'[x]].key = x
        <3>1. CASE x = k
            BY <1>1, <1>2, <1>3, <3>1 DEF IInv, TypeOK
        <3>2. CASE x # k
            <4>1. lookup_structure'[x] = lookup_structure[x]
                BY <1>1, <1>3, <3>2 DEF IInv, TypeOK
            <4>2. /\ lookup_structure[x] \in handles
                  /\ entries[lookup_structure[x]].key = x
                BY <2>3, <4>1 DEF IInv, LookupConsistent, entry_exists
            <4> QED
                BY <1>2, <1>3, <4>1, <4>2 DEF IInv, TypeOK
        <3> QED
            BY <3>1, <3>2
    <2> QED
        BY <2>1, <2>2, <2>3 DEF LookupConsistent, entry_exists
<1>7. VersionsCount'
    BY <1>2, <1>3, <1>4 DEF IInv, TypeOK, VersionsCount, version
<1>8. HandlesAccounted'
    <2> SUFFICES ASSUME NEW i \in issued'
                 PROVE  /\ i.birth <= generation[i.handle.slot]
                        /\ i.birth < VersionMod => i.handle.version = i.birth
                        /\ i.birth = generation[i.handle.slot] =>
                              /\ i.handle.slot \in handles'
                              /\ entries'[i.handle.slot].key = i.key
        BY <1>3 DEF HandlesAccounted
    <2>1. CASE i = new
        <3>1. i.birth = generation[slot] /\ i.handle.slot = slot
              /\ i.handle.version = version /\ i.key = k
            BY <2>1
        <3>2. generation[slot] < VersionMod => version = generation[slot]
            BY <1>2 DEF IInv, VersionsCount, version
        <3> QED
            BY <1>2, <1>3, <1>4, <3>1, <3>2 DEF IInv, TypeOK
    <2>2. CASE i \in issued
        <3>1. i.birth = generation[i.handle.slot] => i.handle.slot # slot
            BY <1>2, <2>2 DEF IInv, HandlesAccounted
        <3>2. i.handle.slot \in Slots
            BY <2>2 DEF IInv, TypeOK, IssuedType
        <3> QED
            BY <1>2, <1>3, <2>2, <3>1, <3>2 DEF IInv, HandlesAccounted, TypeOK
    <2> QED
        BY <1>3, <2>1, <2>2
<1> QED
    BY <1>5, <1>6, <1>7, <1>8 DEF IInv

\* delete_entry_ preserves the invariant: the key is forgotten together with the
\* slot, and the new version makes every handle issued for the slot a stale one.
LEMMA DeleteIInv ==
    ASSUME IInv, NEW h \in ClientHandles, DeleteEntry(h)
    PROVE  IInv'
<1> USE SizeAssumption, VersionAssumption
<1>1. CASE handle_status(h) # "SUCCESS"
    BY <1>1, RefuseIInv DEF DeleteEntry
<1>2. CASE handle_status(h) = "SUCCESS"
    <2> DEFINE slot == h.slot
               key == entries[slot].key
    <2>1. slot \in handles /\ slot \in Slots /\ key \in Keys
          /\ lookup_structure[key] = slot
        BY <1>2 DEF handle_status, valid_handle, IInv, TypeOK, LookupConsistent
    <2>2. /\ entries' = [entries EXCEPT ![slot].version = Bump(@)]
          /\ lookup_structure' = [lookup_structure EXCEPT ![key] = None]
          /\ handles' = handles \ {slot}
          /\ num_entries' = num_entries - 1
          /\ generation' = [generation EXCEPT ![slot] = @ + 1]
          /\ entry_meta' = entry_meta
          /\ issued' = issued
        BY <1>2 DEF DeleteEntry, forget, Refuse
    <2> HIDE DEF slot, key
    <2>3. /\ Bump(entries[slot].version) \in Versions
          /\ entries[slot] \in EntryType
          /\ generation[slot] \in Nat
        BY <2>1 DEF Bump, Versions, IInv, TypeOK, EntryType
    <2>4. num_entries' = Cardinality(handles') /\ num_entries' \in 0 .. Size
        <3>1. IsFiniteSet(handles)
            BY HandlesFinite DEF IInv, TypeOK
        <3>2. Cardinality(handles \ {slot}) = Cardinality(handles) - 1
            BY <2>1, <3>1, FS_RemoveElement
        <3>3. Cardinality(handles \ {slot}) \in Nat
            BY <3>1, FS_RemoveElement, FS_CardinalityType
        <3> QED
            BY <2>2, <3>2, <3>3 DEF IInv, LookupConsistent, TypeOK
    <2>5. TypeOK'
        <3>1. entries' \in [Slots -> EntryType]
            BY <2>1, <2>2, <2>3 DEF IInv, TypeOK, EntryType
        <3>2. lookup_structure' \in [Keys -> Slots \cup {None}]
            BY <2>1, <2>2 DEF IInv, TypeOK
        <3>3. generation' \in [Slots -> Nat]
            BY <2>1, <2>2, <2>3 DEF IInv, TypeOK
        <3> QED
            BY <2>2, <2>4, <3>1, <3>2, <3>3 DEF IInv, TypeOK
    <2>6. \A s \in Slots : entries'[s].key = entries[s].key
        BY <2>1, <2>2, <2>3 DEF IInv, TypeOK, EntryType
    <2>7. LookupConsistent'
        <3>1. ASSUME NEW s \in handles'
              PROVE  entries'[s].key \in Keys /\ lookup_structure'[entries'[s].key] = s
            <4>1. s \in handles /\ s # slot /\ s \in Slots
                BY <2>2 DEF IInv, TypeOK
            <4>2. entries[s].key \in Keys /\ lookup_structure[entries[s].key] = s
                BY <4>1 DEF IInv, LookupConsistent
            <4>3. entries[s].key # key
                BY <2>1, <4>1, <4>2
            <4> QED
                BY <2>1, <2>2, <2>6, <4>1, <4>2, <4>3 DEF IInv, TypeOK
        <3>2. ASSUME NEW x \in Keys, lookup_structure'[x] # None
              PROVE  /\ lookup_structure'[x] \in handles'
                     /\ entries'[lookup_structure'[x]].key = x
            <4>1. x # key /\ lookup_structure'[x] = lookup_structure[x]
                BY <2>1, <2>2, <3>2 DEF IInv, TypeOK
            <4>2. /\ lookup_structure[x] \in handles
                  /\ entries[lookup_structure[x]].key = x
                BY <3>2, <4>1 DEF IInv, LookupConsistent, entry_exists
            <4>3. lookup_structure[x] # slot /\ lookup_structure[x] \in Slots
                BY <4>1, <4>2 DEF key, IInv, TypeOK
            <4> QED
                BY <2>2, <2>6, <4>1, <4>2, <4>3
        <3> QED
            BY <2>4, <3>1, <3>2 DEF LookupConsistent, entry_exists
    <2>8. VersionsCount'
        <3> SUFFICES ASSUME NEW s \in Slots, generation'[s] < VersionMod
                     PROVE  entries'[s].version = generation'[s]
            BY DEF VersionsCount
        <3>1. CASE s = slot
            <4>1. generation'[s] = generation[s] + 1
                BY <2>1, <2>2, <3>1 DEF IInv, TypeOK
            <4>2. entries'[s].version = Bump(entries[s].version)
                BY <2>1, <2>2, <2>3, <3>1 DEF IInv, TypeOK, EntryType
            <4>3. entries[s].version = generation[s]
                BY <2>3, <3>1, <4>1 DEF IInv, VersionsCount
            <4> QED
                BY <2>3, <3>1, <4>1, <4>2, <4>3 DEF Bump
        <3>2. CASE s # slot
            BY <2>1, <2>2, <3>2 DEF IInv, TypeOK, VersionsCount
        <3> QED
            BY <3>1, <3>2
    <2>9. HandlesAccounted'
        <3> SUFFICES ASSUME NEW i \in issued
                     PROVE  /\ i.birth <= generation'[i.handle.slot]
                            /\ i.birth < VersionMod => i.handle.version = i.birth
                            /\ i.birth = generation'[i.handle.slot] =>
                                  /\ i.handle.slot \in handles'
                                  /\ entries'[i.handle.slot].key = i.key
            BY <2>2 DEF HandlesAccounted
        <3>1. i.handle.slot \in Slots /\ i.birth \in Nat
              /\ generation[i.handle.slot] \in Nat
            BY DEF IInv, TypeOK, IssuedType
        <3>2. CASE i.handle.slot = slot
            BY <2>1, <2>2, <2>3, <3>1, <3>2 DEF IInv, TypeOK, HandlesAccounted
        <3>3. CASE i.handle.slot # slot
            <4>1. generation'[i.handle.slot] = generation[i.handle.slot]
                BY <2>2, <3>1, <3>3 DEF IInv, TypeOK
            <4> QED
                BY <2>2, <2>6, <3>1, <3>3, <4>1 DEF IInv, HandlesAccounted
        <3> QED
            BY <3>2, <3>3
    <2> QED
        BY <2>5, <2>7, <2>8, <2>9 DEF IInv
<1> QED
    BY <1>1, <1>2

\* modify_entry_ preserves the invariant: it replaces the value, and neither the
\* key nor the version of the slot.
LEMMA ModifyIInv ==
    ASSUME IInv, NEW h \in ClientHandles, NEW v \in Values, ModifyEntry(h, v)
    PROVE  IInv'
<1>1. CASE handle_status(h) # "SUCCESS"
    BY <1>1, RefuseIInv DEF ModifyEntry
<1>2. CASE handle_status(h) = "SUCCESS"
    <2>1. h.slot \in Slots
        BY <1>2 DEF handle_status, valid_handle, IInv, TypeOK
    <2>2. /\ entries' = [entries EXCEPT ![h.slot].value = v]
          /\ UNCHANGED <<handles, num_entries, entry_meta, lookup_structure>>
          /\ UNCHANGED <<generation, issued>>
        BY <1>2 DEF ModifyEntry, Refuse, history
    <2>3. /\ entries' \in [Slots -> EntryType]
          /\ \A s \in Slots : /\ entries'[s].key = entries[s].key
                              /\ entries'[s].version = entries[s].version
        BY <2>1, <2>2 DEF IInv, TypeOK, EntryType
    <2>4. TypeOK'
        BY <2>2, <2>3 DEF IInv, TypeOK
    <2>5. LookupConsistent'
        BY <2>2, <2>3 DEF IInv, TypeOK, LookupConsistent, entry_exists
    <2>6. VersionsCount'
        BY <2>2, <2>3 DEF IInv, VersionsCount
    <2>7. HandlesAccounted'
        BY <2>2, <2>3 DEF IInv, TypeOK, IssuedType, HandlesAccounted
    <2> QED
        BY <2>4, <2>5, <2>6, <2>7 DEF IInv
<1> QED
    BY <1>1, <1>2

\* Every operation of the match unit, and every move of the clock, preserves the
\* inductive invariant.
LEMMA NextIInv == IInv /\ [Next]_vars => IInv'
<1> SUFFICES ASSUME IInv, [Next]_vars PROVE IInv'
    OBVIOUS
<1> USE SizeAssumption, VersionAssumption, ClockAssumption
<1>0. entry_meta \in [Slots -> MetaType]
    BY DEF IInv, TypeOK
<1>1. ASSUME NEW uk \in UserKeys, NEW v \in Values, AddEntry(uk, v) PROVE IInv'
    BY <1>1, AddIInv, RefuseIInv DEF AddEntry, AddEntryFails
<1>2. ASSUME NEW h \in ClientHandles, GetEntry(h) PROVE IInv'
    BY <1>0, <1>2, RefuseIInv, MetadataIInv DEF GetEntry, storage
<1>3. ASSUME NEW h \in ClientHandles, NEW ttl \in Ttls, SetEntryTtl(h, ttl) PROVE IInv'
    <2>1. CASE ~valid_handle(h.slot)
        BY <1>3, <2>1, RefuseIInv DEF SetEntryTtl
    <2>2. CASE valid_handle(h.slot)
        <3>1. entry_meta' \in [Slots -> MetaType]
            BY <1>0, <1>3, <2>2 DEF SetEntryTtl, MetaType
        <3> QED
            BY <1>3, <2>2, <3>1, MetadataIInv DEF SetEntryTtl
    <2> QED
        BY <2>1, <2>2
<1>4. ASSUME NEW h \in ClientHandles, NEW n \in 0 .. MaxHits, WriteCounters(h, n)
      PROVE  IInv'
    <2>1. CASE ~valid_handle(h.slot)
        BY <1>4, <2>1, RefuseIInv DEF WriteCounters
    <2>2. CASE valid_handle(h.slot)
        <3>1. entry_meta' \in [Slots -> MetaType]
            BY <1>0, <1>4, <2>2 DEF WriteCounters, MetaType
        <3> QED
            BY <1>4, <2>2, <3>1, MetadataIInv DEF WriteCounters
    <2> QED
        BY <2>1, <2>2
<1>5. ASSUME NEW p \in Packets, NEW lag \in 0 .. MaxAge, Lookup(p, lag) PROVE IInv'
    <2>1. CASE lookup(p) = None
        BY <1>5, <2>1, RefuseIInv DEF Lookup
    <2>2. CASE lookup(p) # None
        <3>1. \A s \in Slots : MetaHit(entry_meta[s], lag) \in MetaType
            BY <1>0 DEF MetaHit, MetaType, Ages
        <3>2. entry_meta' = [entry_meta EXCEPT
                  ![lookup(p)] = MetaHit(entry_meta[lookup(p)], lag)]
            BY <1>5, <2>2 DEF Lookup
        <3>3. entry_meta' \in [Slots -> MetaType]
            BY <1>0, <3>1, <3>2
        <3> QED
            BY <1>5, <2>2, <3>3, MetadataIInv DEF Lookup
    <2> QED
        BY <2>1, <2>2
<1>6. CASE ResetCounters
    <2>1. entry_meta' \in [Slots -> MetaType]
        BY <1>0, <1>6 DEF ResetCounters, MetaType
    <2> QED
        BY <1>6, <2>1, MetadataIInv DEF ResetCounters
<1>7. CASE ResetState
    <2>1. EmptyEntry \in EntryType /\ EmptyMeta \in MetaType
        BY DEF EmptyEntry, EntryType, EmptyMeta, MetaType, Versions, Ages
    <2>2. TypeOK'
        BY <1>7, <2>1 DEF ResetState, TypeOK, None
    <2>3. LookupConsistent'
        BY <1>7, FS_EmptySet DEF ResetState, LookupConsistent, entry_exists
    <2>4. VersionsCount' /\ HandlesAccounted'
        BY <1>7 DEF ResetState, VersionsCount, HandlesAccounted, EmptyEntry
    <2> QED
        BY <2>2, <2>3, <2>4 DEF IInv
<1>8. ASSUME NEW ticks \in {-1, 1}, ClockMoves(ticks)
      PROVE  IInv'
    <2>1. \A s \in Slots, age \in Ages : Moved(entry_meta[s], age) \in MetaType
        BY <1>0 DEF Moved, MetaType
    <2>3. handles \subseteq Slots /\ MaxAge \in Ages
        BY DEF IInv, TypeOK, Ages
    <2>2. entry_meta' \in [Slots -> MetaType]
        BY <1>8, <2>1, <2>3 DEF ClockMoves
    <2> QED
        BY <1>8, <2>2, MetadataIInv DEF ClockMoves
<1>9. CASE UNCHANGED vars
    BY <1>0, <1>9, MetadataIInv DEF vars, storage
<1> QED
    BY <1>1, <1>2, <1>3, <1>4, <1>5, <1>6, <1>7, <1>8, <1>9, DeleteIInv, ModifyIInv
    DEF Next, TableStep, Tick, SetBack

-----------------------------------------------------------------------------
\* The theorems.

(***************************************************************************)
(* Every slot that add_entry_ writes lies inside the vectors, and the      *)
(* handle manager, the entry count, the slots and the lookup structure     *)
(* agree at all times, whatever clients and packets do.                    *)
(***************************************************************************)
THEOREM InductiveInvariant == Spec => []IInv
BY InitIInv, NextIInv, PTL DEF Spec

\* Whatever clients and packets do, get_and_set_handle never hands out a slot past
\* the vectors entries and entry_meta, and num_entries never exceeds the size.
THEOREM TypeCorrect == Spec => []TypeOK
<1>1. IInv => TypeOK
    BY DEF IInv
<1> QED
    BY <1>1, InductiveInvariant, PTL

\* A packet never matches a freed slot and every entry can be matched: the lookup
\* structure, the slots, the handle manager and num_entries agree at all times.
THEOREM TableConsistent == Spec => []LookupConsistent
<1>1. IInv => LookupConsistent
    BY DEF IInv
<1> QED
    BY <1>1, InductiveInvariant, PTL

(***************************************************************************)
(* A client's handle to a deleted entry is refused by delete_entry_,       *)
(* modify_entry_ and get_entry_ even after its slot was reused, until the  *)
(* slot has been deleted from VersionMod times.                            *)
(***************************************************************************)
THEOREM StaleHandlesAreRefused == Spec => []StaleHandlesRefused
<1>1. IInv => StaleHandlesRefused
    <2> SUFFICES ASSUME IInv, NEW i \in issued,
                        generation[i.handle.slot] < VersionMod,
                        handle_status(i.handle) = "SUCCESS"
                 PROVE  /\ i.birth = generation[i.handle.slot]
                        /\ entries[i.handle.slot].key = i.key
        BY DEF StaleHandlesRefused
    <2>1. /\ i.handle.slot \in Slots
          /\ i.birth \in Nat
          /\ generation[i.handle.slot] \in Nat
        BY DEF IInv, TypeOK, IssuedType
    <2>2. i.handle.version = entries[i.handle.slot].version
        BY DEF handle_status
    <2>3. i.birth = generation[i.handle.slot]
        BY <2>1, <2>2, VersionAssumption DEF IInv, VersionsCount, HandlesAccounted
    <2> QED
        BY <2>3 DEF IInv, HandlesAccounted
<1> QED
    BY <1>1, InductiveInvariant, PTL

-----------------------------------------------------------------------------
\* The metadata that the ageing sweep reads.

\* The metadata of a slot in use has the version of its entry.
MetaVersions == \A s \in handles : entry_meta[s].version = entries[s].version

\* Deletions are counted up to the bound of the model.
GenerationsBounded == \A s \in Slots : generation[s] <= MaxGeneration

\* A metadata update that keeps the versions.
LEMMA KeepsMetaVersions ==
    ASSUME IInv, MetaVersions, UNCHANGED <<handles, entries>>,
           \A s \in Slots : entry_meta'[s].version = entry_meta[s].version
    PROVE  MetaVersions'
BY DEF MetaVersions, IInv, TypeOK

LEMMA NextMetaVersions ==
    ASSUME IInv, MetaVersions, [Next]_vars
    PROVE  MetaVersions'
<1>0. /\ entry_meta \in [Slots -> MetaType] /\ entries \in [Slots -> EntryType]
      /\ handles \subseteq Slots
    BY DEF IInv, TypeOK
<1>1. CASE UNCHANGED <<handles, entries, entry_meta>>
    BY <1>1 DEF MetaVersions
<1>2. ASSUME NEW uk \in UserKeys, NEW v \in Values, AddEntrySucceeds(uk, v)
      PROVE  MetaVersions'
    <2> DEFINE slot == FirstEmpty(handles)
               version == entries[slot].version
    <2>1. slot \in Slots
        <3>1. handles \subseteq Slots /\ Cardinality(handles) < Size
            BY <1>2 DEF IInv, TypeOK, LookupConsistent, AddEntrySucceeds
        <3> QED
            BY <3>1, FirstEmptyIsFree
    <2>2. /\ handles' = handles \cup {slot}
          /\ entries' = [entries EXCEPT ![slot] =
                             [key |-> Canonical[uk], version |-> version, value |-> v]]
          /\ entry_meta' = [entry_meta EXCEPT ![slot] = MetaReset(@, version)]
        BY <1>2 DEF AddEntrySucceeds
    <2> HIDE DEF slot, version
    <2> QED
        BY <1>0, <2>1, <2>2 DEF MetaVersions, MetaReset
<1>3. ASSUME NEW h \in ClientHandles, handle_status(h) = "SUCCESS", DeleteEntry(h)
      PROVE  MetaVersions'
    <2>1. /\ handles' = handles \ {h.slot}
          /\ entries' = [entries EXCEPT ![h.slot].version = Bump(@)]
          /\ entry_meta' = entry_meta
        BY <1>3 DEF DeleteEntry, Refuse
    <2> QED
        BY <1>0, <2>1 DEF MetaVersions
<1>4. ASSUME NEW h \in ClientHandles, NEW v \in Values, handle_status(h) = "SUCCESS",
             ModifyEntry(h, v)
      PROVE  MetaVersions'
    <2>1. /\ UNCHANGED <<handles, entry_meta>>
          /\ entries' = [entries EXCEPT ![h.slot].value = v]
        BY <1>4 DEF ModifyEntry, Refuse
    <2>2. \A s \in Slots : entries'[s].version = entries[s].version
        BY <1>0, <2>1 DEF EntryType
    <2> QED
        BY <1>0, <2>1, <2>2 DEF MetaVersions
<1>5. ASSUME NEW h \in ClientHandles, NEW x, UNCHANGED <<handles, entries>>,
             \/ entry_meta' = [entry_meta EXCEPT ![h.slot].timeout_ms = x]
             \/ entry_meta' = [entry_meta EXCEPT ![h.slot].hits = x]
      PROVE  MetaVersions'
    <2>1. \A s \in Slots : entry_meta'[s].version = entry_meta[s].version
        BY <1>0, <1>5 DEF MetaType
    <2> QED
        BY <1>5, <2>1, KeepsMetaVersions
<1>6. ASSUME NEW p \in Packets, NEW lag \in 0 .. MaxAge, lookup(p) # None, Lookup(p, lag)
      PROVE  MetaVersions'
    <2>1. /\ UNCHANGED <<handles, entries>>
          /\ entry_meta' = [entry_meta EXCEPT ![lookup(p)] = MetaHit(entry_meta[lookup(p)], lag)]
        BY <1>6 DEF Lookup
    <2>2. \A s \in Slots : entry_meta'[s].version = entry_meta[s].version
        BY <1>0, <2>1 DEF MetaHit
    <2> QED
        BY <2>1, <2>2, KeepsMetaVersions
<1>7. CASE ResetCounters \/ Tick \/ SetBack
    <2>1. UNCHANGED <<handles, entries>>
        BY <1>7 DEF ResetCounters, Tick, SetBack, ClockMoves
    <2>2. \A s \in Slots : entry_meta'[s].version = entry_meta[s].version
        BY <1>0, <1>7 DEF ResetCounters, Tick, SetBack, ClockMoves, Moved, MetaType
    <2> QED
        BY <2>1, <2>2, KeepsMetaVersions
<1>8. CASE ResetState
    BY <1>8 DEF ResetState, MetaVersions
<1>9. ASSUME NEW op, NEW code, Refuse(op, code)
      PROVE  MetaVersions'
    BY <1>1, <1>9 DEF Refuse, storage
<1>10. CASE \E uk \in UserKeys, v \in Values : AddEntry(uk, v)
    BY <1>2, <1>9, <1>10 DEF AddEntry, AddEntryFails
<1>11. CASE \E h \in ClientHandles : DeleteEntry(h)
    BY <1>3, <1>9, <1>11 DEF DeleteEntry
<1>12. CASE \E h \in ClientHandles, v \in Values : ModifyEntry(h, v)
    BY <1>4, <1>9, <1>12 DEF ModifyEntry
<1>13. CASE \E h \in ClientHandles : GetEntry(h)
    BY <1>1, <1>9, <1>13 DEF GetEntry, storage
<1>14. CASE \E h \in ClientHandles, ttl \in Ttls : SetEntryTtl(h, ttl)
    BY <1>5, <1>9, <1>14 DEF SetEntryTtl
<1>15. CASE \E h \in ClientHandles, n \in 0 .. MaxHits : WriteCounters(h, n)
    BY <1>5, <1>9, <1>15 DEF WriteCounters
<1>16. CASE \E p \in Packets, lag \in 0 .. MaxAge : Lookup(p, lag)
    BY <1>6, <1>9, <1>16 DEF Lookup
<1>17. CASE UNCHANGED vars
    BY <1>1, <1>17 DEF vars, storage
<1> QED
    BY <1>7, <1>8, <1>10, <1>11, <1>12, <1>13, <1>14, <1>15, <1>16, <1>17 DEF Next, TableStep

(***************************************************************************)
(* The handles that sweep_entries puts together from the version kept with *)
(* the metadata name the entries that have expired: the controller can     *)
(* delete each of them.                                                    *)
(***************************************************************************)
THEOREM SweptHandlesAreUsable == Spec => []SweptHandlesUsable
<1>1. Init => MetaVersions
    BY DEF Init, MetaVersions
<1>2. IInv /\ MetaVersions /\ [Next]_vars => MetaVersions'
    BY NextMetaVersions
<1>3. MetaVersions => SweptHandlesUsable
    BY DEF MetaVersions, SweptHandlesUsable, Expired, SweptHandle, handle_status, valid_handle
<1> QED
    BY InitIInv, NextIInv, <1>1, <1>2, <1>3, PTL DEF Spec

-----------------------------------------------------------------------------
\* The match unit implements the abstract table.

\* What the abstract table looks like: a handle is live when the checks accept it, a key
\* is there when the lookup structure has it, and there is one entry per slot in use.
LEMMA AbsLive ==
    ASSUME IInv, NEW h \in ClientHandles
    PROVE  Abstract!Live(h) <=> handle_status(h) = "SUCCESS"
<1>1. \A s : [version |-> entries[s].version, slot |-> s] = h <=>
               s = h.slot /\ h.version = entries[s].version
    BY DEF ClientHandles
<1>2. \A s : EntryOf(s).handle = [version |-> entries[s].version, slot |-> s]
    BY DEF EntryOf
<1>3. Abstract!Live(h) <=> \E s \in handles : EntryOf(s).handle = h
    BY DEF Abstract!Live, AbsTable
<1>4. handle_status(h) = "SUCCESS" <=> h.slot \in handles /\ h.version = entries[h.slot].version
    BY DEF handle_status, valid_handle
<1>5. (\E s \in handles : EntryOf(s).handle = h) <=>
          h.slot \in handles /\ h.version = entries[h.slot].version
    <2>1. \A s : EntryOf(s).handle = h <=> s = h.slot /\ h.version = entries[s].version
        BY <1>1, <1>2, Zenon
    <2> QED
        BY <2>1, Zenon
<1> QED
    BY <1>3, <1>4, <1>5

LEMMA AbsKeys ==
    ASSUME IInv, NEW k \in Keys
    PROVE  k \in Abstract!KeysIn(AbsTable) <=> entry_exists(k)
<1>1. k \in Abstract!KeysIn(AbsTable) <=> \E s \in handles : entries[s].key = k
    <2>1. \A s : EntryOf(s).key = entries[s].key
        BY DEF EntryOf
    <2> QED
        BY <2>1 DEF Abstract!KeysIn, AbsTable
<1>2. \A s \in handles : s \in Slots /\ s # None
    BY SizeAssumption DEF IInv, TypeOK, Slots, None
<1> QED
    BY <1>1, <1>2 DEF IInv, LookupConsistent, entry_exists

\* The two modules have the same notion of cardinality.
LEMMA AbsCardinality == \A S : Abstract!Cardinality(S) = Cardinality(S)
BY Zenon DEF Abstract!Cardinality, Cardinality

LEMMA AbsSize ==
    ASSUME IInv
    PROVE  Abstract!Cardinality(AbsTable) = num_entries
<1> DEFINE f == [s \in handles |-> EntryOf(s)]
<1>1. IsFiniteSet(handles)
    BY HandlesFinite DEF IInv, TypeOK
<1>2. \A s, r \in handles : EntryOf(s) = EntryOf(r) => s = r
    <2>1. \A s : EntryOf(s).handle.slot = s
        BY DEF EntryOf
    <2> QED
        BY <2>1
<1>3. f \in Bijection(handles, AbsTable)
    BY <1>2 DEF AbsTable, Bijection, Injection, Surjection, IsInjective
<1>4. Cardinality(handles) = Cardinality(AbsTable)
    BY <1>1, <1>3, FS_Bijection DEF ExistsBijection
<1> QED
    BY <1>4, AbsCardinality DEF IInv, LookupConsistent

\* A call that fails fails for the abstract table.
LEMMA AbsFail ==
    ASSUME NEW op, NEW code, Refuse(op, code)
    PROVE  Abstract!Fail(op, code)
BY DEF Refuse, Abstract!Fail, storage, history, AbsTable, AbsSpent, EntryOf

\* ... and one with a handle that the checks refuse is one with a dead handle.
LEMMA AbsDead ==
    ASSUME IInv, NEW op, NEW h \in ClientHandles, handle_status(h) # "SUCCESS",
           Refuse(op, handle_status(h))
    PROVE  Abstract!Dead(op, h)
<1>1. handle_status(h) \in {"INVALID_HANDLE", "EXPIRED_HANDLE"}
    BY DEF handle_status
<1> QED
    BY <1>1, AbsLive, AbsFail DEF Abstract!Dead

LEMMA AbsAdd ==
    ASSUME IInv, GenerationsBounded, MaxGeneration < VersionMod,
           NEW uk \in UserKeys, NEW v \in Values, AddEntry(uk, v)
    PROVE  Abstract!Add(uk, v)
<1> DEFINE k == Canonical[uk]
           slot == FirstEmpty(handles)
           version == entries[slot].version
           h == [version |-> version, slot |-> slot]
           e == [handle |-> h, key |-> k, value |-> v]
<1>1. uk \notin BadKeys => k \in Keys
    BY KeyAssumption
<1>2. CASE AddEntryFails(uk)
    <2>1. CASE uk \in BadKeys /\ Refuse(<<"add_entry", uk>>, "BAD_MATCH_KEY")
        BY <2>1, AbsFail DEF Abstract!Add
    <2>2. CASE uk \notin BadKeys /\ entry_exists(k) /\ Refuse(<<"add_entry", uk>>, "DUPLICATE_ENTRY")
        BY <1>1, <2>2, AbsKeys, AbsFail DEF Abstract!Add
    <2>3. CASE /\ uk \notin BadKeys /\ ~entry_exists(k) /\ num_entries >= Size
               /\ Refuse(<<"add_entry", uk>>, "TABLE_FULL")
        <3>1. Abstract!Cardinality(AbsTable) = Size
            BY <2>3, AbsSize, SizeAssumption DEF IInv, TypeOK
        <3>2. Canonical[uk] \notin Abstract!KeysIn(AbsTable)
            BY <1>1, <2>3, AbsKeys
        <3>3. Abstract!Fail(<<"add_entry", uk>>, "TABLE_FULL")
            BY <2>3, AbsFail
        <3>4. uk \notin BadKeys
            BY <2>3
        <3> QED
            BY <3>1, <3>2, <3>3, <3>4, Zenon DEF Abstract!Add
    <2> QED
        BY <1>2, <2>1, <2>2, <2>3 DEF AddEntryFails
<1>3. CASE AddEntrySucceeds(uk, v)
    <2>1. /\ handles' = handles \cup {slot}
          /\ entries' = [entries EXCEPT ![slot] = [key |-> k, version |-> version, value |-> v]]
          /\ ret' = [op |-> <<"add_entry", uk>>, rc |-> "SUCCESS", handle |-> h]
          /\ issued' = issued \cup {[handle |-> h, key |-> k, birth |-> generation[slot]]}
          /\ uk \notin BadKeys /\ ~entry_exists(k) /\ num_entries < Size
        BY <1>3 DEF AddEntrySucceeds
    <2>2. slot \in Slots /\ slot \notin handles
        <3>1. handles \subseteq Slots /\ Cardinality(handles) < Size
            BY <2>1 DEF IInv, TypeOK, LookupConsistent
        <3> QED
            BY <3>1, FirstEmptyIsFree
    <2>3. version \in Versions /\ generation[slot] \in Nat
        BY <2>2 DEF IInv, TypeOK, EntryType
    <2> HIDE DEF slot, version, k
    <2>4. h \in ClientHandles
        BY <2>2, <2>3, SizeAssumption DEF ClientHandles, Slots
    <2>5. h \notin AbsSpent
        <3> SUFFICES ASSUME NEW i \in issued, i.handle = h PROVE FALSE
            BY DEF AbsSpent
        <3>1. i.handle.slot = slot /\ i.handle.version = version /\ i.birth \in Nat
            BY DEF IInv, TypeOK, IssuedType
        <3>2. i.birth <= generation[slot] /\ generation[slot] < VersionMod
            BY <2>2, <2>3, <3>1, BoundAssumption, VersionAssumption
               DEF IInv, HandlesAccounted, GenerationsBounded
        <3>3. i.birth = version /\ version = generation[slot]
            <4>1. i.birth < VersionMod
                BY <2>3, <3>1, <3>2, VersionAssumption
            <4> QED
                BY <2>2, <3>1, <3>2, <4>1 DEF IInv, HandlesAccounted, VersionsCount, version
        <3> QED
            BY <2>2, <3>1, <3>3 DEF IInv, HandlesAccounted
    <2>6. AbsTable' = AbsTable \cup {e}
        <3> DEFINE E(s) == [handle |-> [version |-> entries'[s].version, slot |-> s],
                            key |-> entries'[s].key, value |-> entries'[s].value]
        <3>1. E(slot) = e
            BY <2>1, <2>2 DEF IInv, TypeOK
        <3>2. \A s \in handles : E(s) = EntryOf(s)
            BY <2>1, <2>2 DEF EntryOf, IInv, TypeOK
        <3>3. AbsTable' = {E(s) : s \in handles'}
            BY DEF AbsTable, EntryOf
        <3> HIDE DEF E, e
        <3> QED
            BY <2>1, <3>1, <3>2, <3>3 DEF AbsTable
    <2>7. AbsSpent' = AbsSpent \cup {h}
        <3>1. [handle |-> h, key |-> k, birth |-> generation[slot]].handle = h
            OBVIOUS
        <3>2. PICK new : issued' = issued \cup {new} /\ new.handle = h
            BY <2>1, <3>1
        <3> HIDE DEF h
        <3> QED
            BY <3>2 DEF AbsSpent
    <2>8. k \notin Abstract!KeysIn(AbsTable) /\ Abstract!Cardinality(AbsTable) < Size
        BY <1>1, <2>1, AbsKeys, AbsSize DEF k
    <2>9. \E x \in ClientHandles \ AbsSpent :
            /\ AbsTable' = AbsTable \cup {[handle |-> x, key |-> k, value |-> v]}
            /\ AbsSpent' = AbsSpent \cup {x}
            /\ ret' = [op |-> <<"add_entry", uk>>, rc |-> "SUCCESS", handle |-> x]
        <3> HIDE DEF h
        <3> QED
            BY <2>1, <2>4, <2>5, <2>6, <2>7
    <2>10. uk \notin BadKeys
        BY <2>1
    <2> QED
        BY <2>8, <2>9, <2>10, Zenon DEF Abstract!Add, k
<1> QED
    BY <1>2, <1>3 DEF AddEntry

LEMMA AbsDelete ==
    ASSUME IInv, NEW h \in ClientHandles, DeleteEntry(h)
    PROVE  Abstract!Delete(h)
<1>1. CASE handle_status(h) # "SUCCESS"
    BY <1>1, AbsDead DEF DeleteEntry, Abstract!Delete
<1>2. CASE handle_status(h) = "SUCCESS"
    <2>1. /\ h.slot \in Slots /\ h.slot \in handles
          /\ h = [version |-> entries[h.slot].version, slot |-> h.slot]
        BY <1>2 DEF handle_status, valid_handle, IInv, TypeOK, ClientHandles
    <2>2. /\ entries' = [entries EXCEPT ![h.slot].version = Bump(@)]
          /\ handles' = handles \ {h.slot}
          /\ ret' = [op |-> <<"delete_entry", h>>, rc |-> "SUCCESS"]
          /\ issued' = issued
        BY <1>2 DEF DeleteEntry, Refuse
    <2>3. \A s \in handles \ {h.slot} : EntryOf(s)' = EntryOf(s)
        BY <2>1, <2>2 DEF EntryOf, IInv, TypeOK
    <2>4. \A s \in handles : EntryOf(s).handle # h <=> s # h.slot
        <3>1. \A s : EntryOf(s).handle = [version |-> entries[s].version, slot |-> s]
            BY DEF EntryOf
        <3>2. \A s : EntryOf(s).handle = h => s = h.slot
            <4>1. \A s : [version |-> entries[s].version, slot |-> s].slot = s
                OBVIOUS
            <4> QED
                BY <3>1, <4>1
        <3> QED
            BY <2>1, <3>1, <3>2
    <2>5. AbsTable' = {e \in AbsTable : e.handle # h}
        BY <2>2, <2>3, <2>4 DEF AbsTable
    <2>6. AbsSpent' = AbsSpent /\ Abstract!Live(h)
        BY <1>2, <2>2, AbsLive DEF AbsSpent
    <2> QED
        BY <2>2, <2>5, <2>6 DEF Abstract!Delete
<1> QED
    BY <1>1, <1>2

LEMMA AbsModify ==
    ASSUME IInv, NEW h \in ClientHandles, NEW v \in Values, ModifyEntry(h, v)
    PROVE  Abstract!Modify(h, v)
<1>1. CASE handle_status(h) # "SUCCESS"
    BY <1>1, AbsDead DEF ModifyEntry, Abstract!Modify
<1>2. CASE handle_status(h) = "SUCCESS"
    <2>1. /\ h.slot \in Slots /\ h.slot \in handles
          /\ h = [version |-> entries[h.slot].version, slot |-> h.slot]
        BY <1>2 DEF handle_status, valid_handle, IInv, TypeOK, ClientHandles
    <2>2. /\ entries' = [entries EXCEPT ![h.slot].value = v]
          /\ handles' = handles
          /\ ret' = [op |-> <<"modify_entry", h>>, rc |-> "SUCCESS"]
          /\ issued' = issued
        BY <1>2 DEF ModifyEntry, Refuse, history
    <2> DEFINE M(e) == IF e.handle = h THEN [e EXCEPT !.value = v] ELSE e
    <2>3. \A s \in handles : EntryOf(s)' = M(EntryOf(s))
        <3> SUFFICES ASSUME NEW s \in handles PROVE EntryOf(s)' = M(EntryOf(s))
            OBVIOUS
        <3>1. EntryOf(s).handle = [version |-> entries[s].version, slot |-> s]
            BY DEF EntryOf
        <3>2. CASE s = h.slot
            <4>1. EntryOf(s)' = [handle |-> h, key |-> entries[s].key, value |-> v]
                BY <2>1, <2>2, <3>2 DEF EntryOf, IInv, TypeOK, EntryType
            <4>2. EntryOf(s) = [handle |-> h, key |-> entries[s].key, value |-> entries[s].value]
                BY <2>1, <3>2 DEF EntryOf
            <4> QED
                BY <4>1, <4>2
        <3>3. CASE s # h.slot
            <4>1. EntryOf(s).handle # h
                BY <2>1, <3>1, <3>3
            <4>2. EntryOf(s)' = EntryOf(s)
                BY <2>1, <2>2, <3>3 DEF EntryOf, IInv, TypeOK
            <4> QED
                BY <4>1, <4>2
        <3> QED
            BY <3>2, <3>3
    <2>4. AbsTable' = {M(e) : e \in AbsTable}
        <3> HIDE DEF M
        <3> QED
            BY <2>2, <2>3 DEF AbsTable
    <2>5. AbsSpent' = AbsSpent /\ Abstract!Live(h)
        BY <1>2, <2>2, AbsLive DEF AbsSpent
    <2> QED
        BY <2>2, <2>4, <2>5 DEF Abstract!Modify
<1> QED
    BY <1>1, <1>2

LEMMA AbsGet ==
    ASSUME IInv, NEW h \in ClientHandles, GetEntry(h)
    PROVE  Abstract!Get(h)
<1>1. CASE handle_status(h) # "SUCCESS"
    BY <1>1, AbsDead DEF GetEntry, Abstract!Get
<1>2. CASE handle_status(h) = "SUCCESS"
    <2>1. /\ h.slot \in handles
          /\ h = [version |-> entries[h.slot].version, slot |-> h.slot]
        BY <1>2 DEF handle_status, valid_handle, IInv, TypeOK, ClientHandles
    <2>2. /\ ret' = [op |-> <<"get_entry", h>>, rc |-> "SUCCESS",
                     key |-> entries[h.slot].key, value |-> entries[h.slot].value]
          /\ UNCHANGED <<storage, history>>
        BY <1>2 DEF GetEntry, Refuse
    <2>3. /\ EntryOf(h.slot) \in AbsTable
          /\ EntryOf(h.slot).handle = h
          /\ EntryOf(h.slot).key = entries[h.slot].key
          /\ EntryOf(h.slot).value = entries[h.slot].value
        BY <2>1 DEF AbsTable, EntryOf
    <2>4. UNCHANGED <<AbsTable, AbsSpent>>
        BY <2>2 DEF storage, history, AbsTable, AbsSpent, EntryOf
    <2> QED
        BY <2>2, <2>3, <2>4 DEF Abstract!Get
<1> QED
    BY <1>1, <1>2

LEMMA AbsLookup ==
    ASSUME IInv, NEW p \in Packets, NEW lag, Lookup(p, lag)
    PROVE  Abstract!Lookup(p)
<1> DEFINE prefs == Prefers[p]
<1>1. prefs \in Seq(Keys) /\ DOMAIN prefs = 1 .. Len(prefs) /\ Len(prefs) \in Nat
    BY KeyAssumption
<1>2. \A i \in DOMAIN prefs : /\ prefs[i] \in Keys
                              /\ prefs[i] \in Abstract!KeysIn(AbsTable) <=> i \in Matches(p)
    BY <1>1, AbsKeys DEF Matches
<1>3. \A e \in AbsTable : e.key \in Abstract!KeysIn(AbsTable)
    BY DEF Abstract!KeysIn
<1>4. CASE Matches(p) = {}
    <2>1. \A e \in AbsTable : ~Abstract!Best(p, e)
        BY <1>2, <1>3, <1>4 DEF Abstract!Best
    <2>2. Refuse(<<"lookup", p>>, "MISS")
        BY <1>4 DEF Lookup, lookup
    <2> QED
        BY <2>1, <2>2, AbsFail DEF Abstract!Lookup
<1>5. CASE Matches(p) # {}
    <2> DEFINE best == CHOOSE i \in Matches(p) : \A j \in Matches(p) : i <= j
               s == lookup_structure[prefs[best]]
    <2>1. best \in Matches(p) /\ \A j \in Matches(p) : best <= j
        <3>1. Matches(p) \subseteq Nat
            BY <1>1 DEF Matches
        <3> QED
            BY <1>5, <3>1, NatMin
    <2>2. lookup(p) = s
        BY <1>5 DEF lookup
    <2> HIDE DEF best
    <2>3. best \in DOMAIN prefs /\ prefs[best] \in Keys /\ entry_exists(prefs[best])
        BY <1>2, <2>1 DEF Matches
    <2>4. s # None /\ s \in handles /\ entries[s].key = prefs[best]
        BY <2>3 DEF IInv, LookupConsistent, entry_exists
    <2>5. /\ ret' = [op |-> <<"lookup", p>>, rc |-> "HIT", value |-> entries[s].value,
                     handle |-> [version |-> entries[s].version, slot |-> s]]
          /\ UNCHANGED <<handles, entries, issued>>
        BY <2>2, <2>4 DEF Lookup, history
    <2> HIDE DEF s
    <2>6. /\ EntryOf(s) \in AbsTable /\ EntryOf(s).key = prefs[best]
          /\ EntryOf(s).value = entries[s].value
          /\ EntryOf(s).handle = [version |-> entries[s].version, slot |-> s]
        BY <2>4 DEF AbsTable, EntryOf
    <2>7. Abstract!Best(p, EntryOf(s))
        <3>1. \A j \in 1 .. best - 1 : j \in DOMAIN prefs /\ j \notin Matches(p)
            BY <1>1, <2>1, <2>3
        <3> QED
            BY <1>2, <2>3, <2>6, <3>1 DEF Abstract!Best
    <2>8. UNCHANGED <<AbsTable, AbsSpent>>
        BY <2>5 DEF AbsTable, AbsSpent, EntryOf
    <2> QED
        BY <2>5, <2>6, <2>7, <2>8 DEF Abstract!Lookup
<1> QED
    BY <1>4, <1>5

LEMMA NextGenerationsBounded ==
    ASSUME IInv, GenerationsBounded, [Next]_vars
    PROVE  GenerationsBounded'
<1>1. CASE UNCHANGED generation
    BY <1>1 DEF GenerationsBounded
<1>2. ASSUME NEW h \in ClientHandles, DeleteEntry(h), ~UNCHANGED generation
      PROVE  GenerationsBounded'
    <2>1. /\ generation' = [generation EXCEPT ![h.slot] = @ + 1]
          /\ generation[h.slot] < MaxGeneration
        BY <1>2 DEF DeleteEntry, Refuse, history
    <2> QED
        BY <2>1, BoundAssumption DEF GenerationsBounded, IInv, TypeOK
<1>3. CASE ResetState
    BY <1>3, BoundAssumption DEF ResetState, GenerationsBounded
<1>4. ASSUME NEW op, NEW code, Refuse(op, code)
      PROVE  UNCHANGED generation
    BY <1>4 DEF Refuse, history
<1>5. CASE TableStep /\ ~ResetState /\ ~\E h \in ClientHandles : DeleteEntry(h)
    <2>1. UNCHANGED generation
        BY <1>4, <1>5 DEF TableStep, AddEntry, AddEntryFails, AddEntrySucceeds, ModifyEntry,
           GetEntry, SetEntryTtl, WriteCounters, Lookup, ResetCounters, history
    <2> QED
        BY <1>1, <2>1
<1> QED
    BY <1>1, <1>2, <1>3, <1>5 DEF Next, Tick, SetBack, ClockMoves, vars, history

\* Every step of the match unit is a step of the abstract table, or leaves it alone.
LEMMA AbsNext ==
    ASSUME IInv, GenerationsBounded, MaxGeneration < VersionMod, [Next]_vars
    PROVE  [Abstract!Next]_(Abstract!vars)
<1>1. ASSUME NEW uk \in UserKeys, NEW v \in Values, AddEntry(uk, v)
      PROVE  Abstract!Next
    BY <1>1, AbsAdd DEF Abstract!Next
<1>2. ASSUME NEW h \in ClientHandles, DeleteEntry(h) \/ GetEntry(h)
      PROVE  Abstract!Next
    BY <1>2, AbsDelete, AbsGet DEF Abstract!Next
<1>3. ASSUME NEW h \in ClientHandles, NEW v \in Values, ModifyEntry(h, v)
      PROVE  Abstract!Next
    BY <1>3, AbsModify DEF Abstract!Next
<1>4. ASSUME NEW p \in Packets, NEW lag, Lookup(p, lag)
      PROVE  Abstract!Next
    BY <1>4, AbsLookup DEF Abstract!Next
<1>5. ASSUME NEW op \in {<<"set_entry_ttl">>, <<"write_counters">>, <<"reset_counters">>},
             NEW code \in {"SUCCESS", "INVALID_HANDLE"},
             ret' = [op |-> op, rc |-> code], UNCHANGED <<handles, entries, issued>>
      PROVE  Abstract!Next
    <2>1. Abstract!Fail(op, code)
        BY <1>5 DEF Abstract!Fail, AbsTable, AbsSpent, EntryOf
    <2> QED
        BY <2>1 DEF Abstract!Next, Abstract!Metadata
<1>6. ASSUME NEW h, NEW ttl, SetEntryTtl(h, ttl)
      PROVE  Abstract!Next
    BY <1>5, <1>6 DEF SetEntryTtl, Refuse, storage, history
<1>7. ASSUME NEW h, NEW n, WriteCounters(h, n)
      PROVE  Abstract!Next
    BY <1>5, <1>7 DEF WriteCounters, Refuse, storage, history
<1>8. CASE ResetCounters
    BY <1>5, <1>8 DEF ResetCounters, history
<1>9. CASE ResetState
    <2>1. AbsTable' = {} /\ AbsSpent' = {}
        BY <1>9 DEF ResetState, AbsTable, AbsSpent
    <2> QED
        BY <1>9, <2>1 DEF ResetState, Abstract!Next, Abstract!Reset
<1>10. CASE Tick \/ SetBack \/ UNCHANGED vars
    <2>1. UNCHANGED <<handles, entries, issued, ret>>
        BY <1>10 DEF Tick, SetBack, ClockMoves, vars, storage, history
    <2> QED
        BY <2>1 DEF Abstract!vars, AbsTable, AbsSpent, EntryOf
<1> QED
    BY <1>1, <1>2, <1>3, <1>4, <1>6, <1>7, <1>8, <1>9, <1>10 DEF Next, TableStep

(***************************************************************************)
(* The refinement: slots that are reused, versions, handle manager and     *)
(* lookup structure together behave as a table whose handles are never     *)
(* used twice, if between two resets no slot is deleted from as often as   *)
(* a uint32_t version can tell.                                            *)
(***************************************************************************)
THEOREM RefinesAbstractTable ==
    ASSUME MaxGeneration < VersionMod
    PROVE  Spec => ImplementsAbstractTable
<1>1. Init => GenerationsBounded
    BY BoundAssumption DEF Init, GenerationsBounded
<1>2. Init => Abstract!Init
    BY DEF Init, Abstract!Init, AbsTable, AbsSpent
<1>3. IInv /\ GenerationsBounded /\ [Next]_vars => GenerationsBounded'
    BY NextGenerationsBounded
<1>4. IInv /\ GenerationsBounded /\ [Next]_vars => [Abstract!Next]_(Abstract!vars)
    BY AbsNext
<1> QED
    BY InitIInv, NextIInv, <1>1, <1>2, <1>3, <1>4, PTL
       DEF Spec, ImplementsAbstractTable, Abstract!Spec

-----------------------------------------------------------------------------
\* The ageing monitor.

(***************************************************************************)
(* A step of the monitor, of a reset of the context or of the clients      *)
(* beside them is a step of the match unit or leaves it alone.             *)
(***************************************************************************)
LEMMA MonitorStep == ASSUME [ANext]_avars PROVE [Next]_vars
<1>1. CASE SweepBegins \/ SweepEntry \/ SweepUnlocks \/ Report \/ SweepLoopExits
           \/ Destroy \/ ResetMonitor \/ UNCHANGED avars
    BY <1>1 DEF SweepBegins, SweepEntry, SweepUnlocks, Report, SweepLoopExits,
                Destroy, ResetMonitor, avars
<1>2. CASE ResetTables
    BY <1>2 DEF ResetTables, Next, TableStep
<1>3. CASE ClientCalls
    BY <1>3 DEF ClientCalls, Next, TableStep, AddEntry
<1>4. CASE PacketHits
    BY <1>4 DEF PacketHits, Next, TableStep
<1>5. CASE Clock
    BY <1>5 DEF Clock, Next, Tick, SetBack
<1> QED
    BY <1>1, <1>2, <1>3, <1>4, <1>5 DEF ANext

(***************************************************************************)
(* The match unit under the monitor is the match unit of Spec: sweeps,     *)
(* the two halves of a reset and the destructor of the monitor add nothing *)
(* to what can happen to a table, so that its theorems hold here too.      *)
(***************************************************************************)
THEOREM MonitoredTableIsTable == ASpec => Spec
<1>1. AInit => Init
    BY DEF AInit
<1>2. [ANext]_avars => [Next]_vars
    BY MonitorStep
<1> QED
    BY <1>1, <1>2, PTL DEF ASpec, Spec

(***************************************************************************)
(* Whatever runs beside the monitor, a handle that a sweep finds expired   *)
(* is one that delete_entry accepts at that moment.                        *)
(***************************************************************************)
THEOREM ReportedHandlesAreUsable == ASpec => []SweptHandlesUsable
BY MonitoredTableIsTable, SweptHandlesAreUsable, PTL

\* What the last sweep reported is what the monitor remembers, and it passed over
\* nothing else that it remembers: a reset forgets all of it at once.
SweepRemembered == reported = prev_sweep_entries /\ skipped \cap prev_sweep_entries = {}

LEMMA NextSweepRemembered ==
    ASSUME SweepRemembered, [ANext]_avars
    PROVE  SweepRemembered'
<1>1. CASE Report
    BY <1>1 DEF Report, Remember, SweepRemembered
<1>2. CASE ResetMonitor
    BY <1>2 DEF ResetMonitor, SweepRemembered
<1>3. CASE \/ SweepBegins \/ SweepEntry \/ SweepUnlocks \/ SweepLoopExits
           \/ Destroy \/ ResetTables \/ ClientCalls \/ PacketHits \/ Clock
           \/ UNCHANGED avars
    <2>1. UNCHANGED <<reported, skipped, prev_sweep_entries>>
        BY <1>3 DEF SweepBegins, SweepEntry, SweepUnlocks, SweepLoopExits, Destroy,
                    ResetTables, ClientCalls, PacketHits, Clock, avars, monitor, observed
    <2> QED
        BY <2>1 DEF SweepRemembered
<1> QED
    BY <1>1, <1>2, <1>3 DEF ANext

(***************************************************************************)
(* AgeingMonitor::do_sweep: two successive sweeps neither report the same  *)
(* handle twice nor pass over the same expired handle twice, with clients, *)
(* packets, timeouts and resets in between.                                *)
(***************************************************************************)
THEOREM SweepsDoAlternate == ASpec => SweepsAlternate
<1>1. AInit => SweepRemembered
    BY DEF AInit, SweepRemembered
<1>2. SweepRemembered /\ [ANext]_avars => SweepRemembered'
    BY NextSweepRemembered
<1>3. SweepRemembered /\ [ANext]_avars =>
          [Report => reported \cap reported' = {} /\ skipped \cap skipped' = {}]_avars
    BY DEF SweepRemembered, Report, News
<1> QED
    BY <1>1, <1>2, <1>3, PTL DEF ASpec, SweepsAlternate
=============================================================================
