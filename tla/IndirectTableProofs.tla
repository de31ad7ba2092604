------------------------- MODULE IndirectTableProofs -------------------------
(***************************************************************************)
(* Proofs about IndirectTable: the reference counts of an action profile,  *)
(* for any number of entries, members and groups.                          *)
(***************************************************************************)
EXTENDS IndirectTable, FiniteSetTheorems, WellFoundedInduction, TLAPS

-----------------------------------------------------------------------------
\* Numbers.

(***************************************************************************)
(* A non-empty set of naturals has a least element.                        *)
(***************************************************************************)
LEMMA NatMin ==
    ASSUME NEW T, T \subseteq Nat, T # {}
    PROVE  \E x \in T : \A y \in T : x <= y
<1> DEFINE R == OpToRel(<, Nat)
<1>1. IsWellFoundedOn(R, Nat)
    BY NatLessThanWellFounded
<1> HIDE DEF R
<1>2. PICK x \in T : \A y \in T : ~(<<y, x>> \in R)
    BY <1>1, WFMin
<1>3. \A y \in T : ~(y < x)
    BY <1>2 DEF R, OpToRel
<1> QED
    BY <1>3

(***************************************************************************)
(* HandleMgr::get_handle finds a handle: of the first n + 1 naturals one   *)
(* is not in a set of n, and so there is a first one.                      *)
(***************************************************************************)
LEMMA FirstFreeExists ==
    ASSUME NEW used, IsFiniteSet(used), used \subseteq Nat
    PROVE  \E h \in 0 .. Cardinality(used) :
               h \notin used /\ \A g \in 0 .. h - 1 : g \in used
<1> DEFINE n == Cardinality(used)
<1>1. n \in Nat
    BY FS_CardinalityType
<1>2. ~((0 .. n) \subseteq used)
    <2> SUFFICES ASSUME (0 .. n) \subseteq used PROVE FALSE
        OBVIOUS
    <2>1. Cardinality(0 .. n) <= n
        BY FS_Subset
    <2>2. Cardinality(0 .. n) = n + 1
        BY <1>1, FS_Interval
    <2> QED
        BY <1>1, <2>1, <2>2
<1> DEFINE free == {h \in 0 .. n : h \notin used}
<1>3. PICK x \in free : \A y \in free : x <= y
    <2>1. free \subseteq Nat /\ free # {}
        BY <1>1, <1>2
    <2> HIDE DEF free
    <2> QED
        BY <2>1, NatMin
<1>4. x \in 0 .. n /\ x \notin used /\ \A g \in 0 .. x - 1 : g \in used
    BY <1>1, <1>3
<1> QED
    BY <1>4

\* Unsigned counters: arithmetic modulo their width.

LEMMA MulGrows ==
    ASSUME NEW M \in Nat \ {0}, NEW q \in Int, q >= 1
    PROVE  M * q >= M
OBVIOUS

LEMMA DivMod ==
    ASSUME NEW a \in Int, NEW M \in Nat \ {0}
    PROVE  /\ a % M \in 0 .. M - 1
           /\ a \div M \in Int
           /\ a = M * (a \div M) + (a % M)
OBVIOUS

LEMMA RemainderUnique ==
    ASSUME NEW M \in Nat \ {0}, NEW p \in Int, NEW q \in Int,
           NEW r \in 0 .. M - 1, NEW s \in 0 .. M - 1, M * p + r = M * q + s
    PROVE  r = s
<1>1. M * (p - q) = s - r
    OBVIOUS
<1>2. ~(p - q >= 1)
    <2> SUFFICES ASSUME p - q >= 1 PROVE FALSE
        OBVIOUS
    <2>1. M * (p - q) >= M
        BY MulGrows
    <2> QED
        BY <1>1, <2>1
<1>3. ~(q - p >= 1)
    <2> SUFFICES ASSUME q - p >= 1 PROVE FALSE
        OBVIOUS
    <2>1. M * (q - p) >= M
        BY MulGrows
    <2>2. M * (q - p) = r - s
        OBVIOUS
    <2> QED
        BY <2>1, <2>2
<1>4. p = q
    BY <1>2, <1>3
<1> QED
    BY <1>4

LEMMA RemainderIs ==
    ASSUME NEW M \in Nat \ {0}, NEW a \in Int, NEW q \in Int, NEW r \in 0 .. M - 1,
           a = M * q + r
    PROVE  a % M = r
<1>1. M * (a \div M) + (a % M) = M * q + r /\ a % M \in 0 .. M - 1 /\ a \div M \in Int
    BY DivMod
<1> QED
    BY <1>1, RemainderUnique

(***************************************************************************)
(* A counter that wraps can be taken for one that does not and is reduced  *)
(* at the end; one that is in range is not changed by the reduction.       *)
(***************************************************************************)
LEMMA WrapAdd ==
    ASSUME NEW M \in Nat \ {0}, NEW a \in Int, NEW d \in Int
    PROVE  ((a % M) + d) % M = (a + d) % M
<1> DEFINE r == a % M
           q == a \div M
           b == r + d
           s == b % M
           t == b \div M
<1>1. r \in 0 .. M - 1 /\ q \in Int /\ a = M * q + r
    BY DivMod
<1>2. b \in Int
    BY <1>1
<1>3. s \in 0 .. M - 1 /\ t \in Int /\ b = M * t + s
    <2> HIDE DEF b
    <2> QED
        BY <1>2, DivMod
<1> HIDE DEF r, q, s, t
<1>4. a + d = M * (q + t) + s
    <2>1. a + d = M * q + (M * t + s)
        BY <1>1, <1>3
    <2>2. M * (q + t) = M * q + M * t
        BY <1>1, <1>3
    <2>3. M * q \in Int /\ M * t \in Int
        BY <1>1, <1>3
    <2> QED
        BY <2>1, <2>2, <2>3, <1>3
<1>5. (a + d) % M = s
    <2>1. a + d \in Int /\ q + t \in Int
        BY <1>1, <1>3
    <2>2. s \in 0 .. M - 1
        BY <1>3
    <2> QED
        BY <1>4, <2>1, <2>2, RemainderIs
<1> QED
    BY <1>5 DEF s, r

LEMMA WrapInRange ==
    ASSUME NEW M \in Nat \ {0}, NEW a \in 0 .. M - 1
    PROVE  a % M = a
<1>1. a = M * 0 + a
    OBVIOUS
<1> QED
    BY <1>1, RemainderIs


\* The index names something that exists.
Valid(i) ==
    \/ i.kind = "mbr" /\ is_valid_mbr(i.id)
    \/ i.kind = "grp" /\ Usable(i.id)

TypeInv ==
    /\ TypeOK
    /\ mbr_handles \subseteq Members
    /\ \A i \in Indices : drift[i] >= -MaxDrift

\* Whatever is used without existing any more was deleted while its count was too low,
\* and is still marked as such.
DanglingDrifts == \A i \in Indices : ~Valid(i) /\ Uses(i) > 0 => drift[i] > 0

\* Fewer uses than an unsigned int can count.
CountsSuffice == Cardinality(Keys) + MaxGroups + MaxDrift < CountMod

IndirectInv == TypeInv /\ CountsAccounted /\ DanglingDrifts

-----------------------------------------------------------------------------
\* Indices.

LEMMA IndexFacts ==
    /\ \A m \in Members : mbr(m) \in Indices
    /\ \A g \in Groups : grp(g) \in Indices
    /\ NoIndex \notin Indices
    /\ \A i \in Indices : \/ i.kind = "mbr" /\ i.id \in Members /\ i = mbr(i.id)
                          \/ i.kind = "grp" /\ i.id \in Groups /\ i = grp(i.id)
    /\ \A m : mbr(m).kind = "mbr" /\ mbr(m).id = m
    /\ \A g : grp(g).kind = "grp" /\ grp(g).id = g
<1>1. \A m : mbr(m).kind = "mbr" /\ mbr(m).id = m
    BY DEF mbr
<1>2. \A g : grp(g).kind = "grp" /\ grp(g).id = g
    BY DEF grp
<1>3. /\ \A m \in Members : mbr(m) \in Indices
      /\ \A g \in Groups : grp(g) \in Indices
    BY DEF Indices
<1>4. \A i \in Indices : \/ \E m \in Members : i = mbr(m)
                         \/ \E g \in Groups : i = grp(g)
    BY DEF Indices
<1>5. NoIndex.kind = "none"
    BY DEF NoIndex
<1>6. "none" # "mbr" /\ "none" # "grp"
    OBVIOUS
<1>7. \A i \in Indices : \/ i.kind = "mbr" /\ i.id \in Members /\ i = mbr(i.id)
                         \/ i.kind = "grp" /\ i.id \in Groups /\ i = grp(i.id)
    BY <1>1, <1>2, <1>4
<1> QED
    BY <1>1, <1>2, <1>3, <1>5, <1>6, <1>7

-----------------------------------------------------------------------------
\* Counting uses.

EntryUsers(i) == {k \in Keys : entries[k] = i}
GroupUsers(m) == {g \in grp_handles : InBounds(Len(group_entries), g) /\ m \in group(g)}

LEMMA UsesSplit ==
    ASSUME NEW i
    PROVE  /\ i.kind = "mbr" => Uses(i) = Cardinality(EntryUsers(i)) + Cardinality(GroupUsers(i.id))
           /\ i.kind = "grp" => Uses(i) = Cardinality(EntryUsers(i)) + 0
BY DEF Uses, EntryUsers, GroupUsers

LEMMA UsersFinite ==
    ASSUME grp_handles \subseteq Groups
    PROVE  /\ \A i : /\ IsFiniteSet(EntryUsers(i))
                     /\ Cardinality(EntryUsers(i)) \in Nat
                     /\ Cardinality(EntryUsers(i)) <= Cardinality(Keys)
           /\ \A m : /\ IsFiniteSet(GroupUsers(m))
                     /\ Cardinality(GroupUsers(m)) \in Nat
                     /\ Cardinality(GroupUsers(m)) <= MaxGroups
           /\ Cardinality(Keys) \in Nat
<1>1. IsFiniteSet(Keys) /\ MaxGroups \in Nat
    BY IndirectAssumption
<1>2. IsFiniteSet(Groups) /\ Cardinality(Groups) = MaxGroups
    <2>1. 0 \in Int /\ MaxGroups - 1 \in Int
        BY <1>1
    <2>2. IsFiniteSet(0 .. MaxGroups - 1)
        BY <2>1, FS_Interval
    <2>3. Cardinality(0 .. MaxGroups - 1) = MaxGroups
        <3>1. Cardinality(0 .. MaxGroups - 1) =
                 IF 0 > MaxGroups - 1 THEN 0 ELSE MaxGroups - 1 - 0 + 1
            BY <2>1, FS_Interval
        <3> QED
            BY <1>1, <3>1
    <2> QED
        BY <2>2, <2>3 DEF Groups
<1>3. \A i : EntryUsers(i) \subseteq Keys
    BY DEF EntryUsers
<1>4. \A m : GroupUsers(m) \subseteq Groups
    BY DEF GroupUsers
<1> QED
    BY <1>1, <1>2, <1>3, <1>4, FS_Subset, FS_CardinalityType

LEMMA UsesBounded ==
    ASSUME TypeInv
    PROVE  \A i \in Indices : Uses(i) \in Nat /\ Uses(i) <= Cardinality(Keys) + MaxGroups
<1> SUFFICES ASSUME NEW i \in Indices
             PROVE  Uses(i) \in Nat /\ Uses(i) <= Cardinality(Keys) + MaxGroups
    OBVIOUS
<1>1. grp_handles \subseteq Groups /\ MaxGroups \in Nat
    BY IndirectAssumption DEF TypeInv, TypeOK
<1>2. /\ Cardinality(EntryUsers(i)) \in Nat /\ Cardinality(EntryUsers(i)) <= Cardinality(Keys)
      /\ Cardinality(GroupUsers(i.id)) \in Nat /\ Cardinality(GroupUsers(i.id)) <= MaxGroups
      /\ Cardinality(Keys) \in Nat
    BY <1>1, UsersFinite
<1>3. i.kind = "mbr" \/ i.kind = "grp"
    BY IndexFacts
<1> QED
    BY <1>1, <1>2, <1>3, UsesSplit

\* An entry is redirected from one index to another.
LEMMA EntryMoves ==
    ASSUME TypeInv, NEW k \in Keys, NEW j,
           entries' = [entries EXCEPT ![k] = j], UNCHANGED <<grp_handles, group_entries>>
    PROVE  \A i \in Indices :
              Uses(i)' = Uses(i) + (IF i = j THEN 1 ELSE 0) - (IF i = entries[k] THEN 1 ELSE 0)
<1> SUFFICES ASSUME NEW i \in Indices
             PROVE  Uses(i)' = Uses(i) + (IF i = j THEN 1 ELSE 0)
                                       - (IF i = entries[k] THEN 1 ELSE 0)
    OBVIOUS
<1>1. grp_handles \subseteq Groups
    BY DEF TypeInv, TypeOK
<1>2. /\ IsFiniteSet(EntryUsers(i)) /\ Cardinality(EntryUsers(i)) \in Nat
      /\ Cardinality(GroupUsers(i.id)) \in Nat
    BY <1>1, UsersFinite
<1>3. EntryUsers(i)' = {x \in Keys : IF x = k THEN i = j ELSE entries[x] = i}
    BY DEF EntryUsers, TypeInv, TypeOK
<1>4. Cardinality(EntryUsers(i)') = Cardinality(EntryUsers(i)) + (IF i = j THEN 1 ELSE 0)
                                       - (IF i = entries[k] THEN 1 ELSE 0)
    <2>1. CASE i = j /\ i = entries[k]
        <3>1. EntryUsers(i)' = EntryUsers(i)
            BY <1>3, <2>1 DEF EntryUsers
        <3> QED
            BY <1>2, <2>1, <3>1
    <2>2. CASE i # j /\ i # entries[k]
        <3>1. EntryUsers(i)' = EntryUsers(i)
            BY <1>3, <2>2 DEF EntryUsers
        <3> QED
            BY <1>2, <2>2, <3>1
    <2>3. CASE i = j /\ i # entries[k]
        <3>1. EntryUsers(i)' = EntryUsers(i) \cup {k} /\ k \notin EntryUsers(i)
            BY <1>3, <2>3 DEF EntryUsers
        <3>2. Cardinality(EntryUsers(i) \cup {k}) = Cardinality(EntryUsers(i)) + 1
            BY <1>2, <3>1, FS_AddElement
        <3> QED
            BY <1>2, <2>3, <3>1, <3>2
    <2>4. CASE i # j /\ i = entries[k]
        <3>1. EntryUsers(i)' = EntryUsers(i) \ {k} /\ k \in EntryUsers(i)
            BY <1>3, <2>4 DEF EntryUsers
        <3>2. Cardinality(EntryUsers(i) \ {k}) = Cardinality(EntryUsers(i)) - 1
            BY <1>2, <3>1, FS_RemoveElement
        <3> QED
            BY <1>2, <2>4, <3>1, <3>2
    <2> QED
        BY <2>1, <2>2, <2>3, <2>4
<1>5. GroupUsers(i.id)' = GroupUsers(i.id)
    BY DEF GroupUsers, group
<1>6. i.kind = "mbr" \/ i.kind = "grp"
    BY IndexFacts
<1>7. /\ i.kind = "mbr" => Uses(i)' = Cardinality(EntryUsers(i)') + Cardinality(GroupUsers(i.id)')
      /\ i.kind = "grp" => Uses(i)' = Cardinality(EntryUsers(i)') + 0
    BY DEF Uses, EntryUsers, GroupUsers
<1> QED
    BY <1>2, <1>4, <1>5, <1>6, <1>7, UsesSplit

\* The groups that hold a member change, the entries do not.
LEMMA GroupsMove ==
    ASSUME UNCHANGED entries, NEW i \in Indices
    PROVE  /\ i.kind = "grp" => Uses(i)' = Uses(i)
           /\ i.kind = "mbr" /\ GroupUsers(i.id)' = GroupUsers(i.id) => Uses(i)' = Uses(i)
           /\ i.kind = "mbr" => Uses(i)' = Cardinality(EntryUsers(i)) + Cardinality(GroupUsers(i.id)')
<1>1. EntryUsers(i)' = EntryUsers(i)
    BY DEF EntryUsers
<1>2. /\ i.kind = "mbr" => Uses(i)' = Cardinality(EntryUsers(i)') + Cardinality(GroupUsers(i.id)')
      /\ i.kind = "grp" => Uses(i)' = Cardinality(EntryUsers(i)') + 0
    BY DEF Uses, EntryUsers, GroupUsers
<1> QED
    BY <1>1, <1>2, UsesSplit

\* One group takes a member in, or lets it go.
LEMMA GroupTurns ==
    ASSUME TypeInv, UNCHANGED entries, NEW m \in Members, NEW g
    PROVE  /\ GroupUsers(m)' = GroupUsers(m) \cup {g} /\ g \notin GroupUsers(m)
                => Uses(mbr(m))' = Uses(mbr(m)) + 1
           /\ GroupUsers(m)' = GroupUsers(m) \ {g} /\ g \in GroupUsers(m)
                => Uses(mbr(m))' = Uses(mbr(m)) - 1
<1> DEFINE i == mbr(m)
<1>1. i \in Indices /\ i.kind = "mbr" /\ i.id = m
    BY IndexFacts
<1>2. grp_handles \subseteq Groups
    BY DEF TypeInv, TypeOK
<1>3. /\ IsFiniteSet(GroupUsers(m)) /\ Cardinality(GroupUsers(m)) \in Nat
      /\ Cardinality(EntryUsers(i)) \in Nat
    BY <1>2, UsersFinite
<1>4. /\ Uses(i) = Cardinality(EntryUsers(i)) + Cardinality(GroupUsers(m))
      /\ Uses(i)' = Cardinality(EntryUsers(i)) + Cardinality(GroupUsers(m)')
    <2>1. Uses(i) = Cardinality(EntryUsers(i)) + Cardinality(GroupUsers(i.id))
        BY <1>1, UsesSplit
    <2>2. Uses(i)' = Cardinality(EntryUsers(i)) + Cardinality(GroupUsers(i.id)')
        BY <1>1, GroupsMove
    <2> QED
        BY <1>1, <2>1, <2>2
<1>5. g \notin GroupUsers(m) =>
        Cardinality(GroupUsers(m) \cup {g}) = Cardinality(GroupUsers(m)) + 1
    BY <1>3, FS_AddElement
<1>6. g \in GroupUsers(m) =>
        Cardinality(GroupUsers(m) \ {g}) = Cardinality(GroupUsers(m)) - 1
    BY <1>3, FS_RemoveElement
<1>7. ASSUME GroupUsers(m)' = GroupUsers(m) \cup {g}, g \notin GroupUsers(m)
      PROVE  Uses(i)' = Uses(i) + 1
    BY <1>3, <1>4, <1>5, <1>7
<1>8. ASSUME GroupUsers(m)' = GroupUsers(m) \ {g}, g \in GroupUsers(m)
      PROVE  Uses(i)' = Uses(i) - 1
    BY <1>3, <1>4, <1>6, <1>8
<1> QED
    BY <1>7, <1>8

-----------------------------------------------------------------------------
\* The book-keeping of one index.

\* A step moves the count of an index by as much as it moves the difference of its uses
\* and its drift.
Moves(i, x) ==
    /\ index_ref_count'[i] = (index_ref_count[i] + x) % CountMod
    /\ Uses(i)' - drift'[i] = (Uses(i) - drift[i]) + x

Stays(i) ==
    /\ index_ref_count'[i] = index_ref_count[i]
    /\ Uses(i)' = Uses(i) /\ drift'[i] = drift[i]

Fresh(i) == index_ref_count'[i] = 0 /\ Uses(i)' = drift'[i] /\ drift'[i] \in Int

LEMMA Balanced ==
    ASSUME TypeInv, CountsAccounted,
           \A i \in Indices : Valid(i)' =>
               \/ Fresh(i)
               \/ Valid(i) /\ (Stays(i) \/ Moves(i, 1) \/ Moves(i, -1))
    PROVE  CountsAccounted'
<1> SUFFICES ASSUME NEW i \in Indices, Valid(i)'
             PROVE  index_ref_count'[i] = (Uses(i)' - drift'[i]) % CountMod
    BY DEF CountsAccounted, Valid
<1>0. CountMod \in Nat \ {0}
    BY IndirectAssumption
<1>1. CASE Fresh(i)
    <2>1. Uses(i)' - drift'[i] = 0
        BY <1>1 DEF Fresh
    <2>2. 0 % CountMod = 0
        BY <1>0, WrapInRange
    <2> QED
        BY <1>1, <2>1, <2>2 DEF Fresh
<1>2. Valid(i) => index_ref_count[i] = (Uses(i) - drift[i]) % CountMod
    BY DEF CountsAccounted, Valid
<1>3. CASE Valid(i) /\ Stays(i)
    BY <1>2, <1>3 DEF Stays
<1>4. Uses(i) - drift[i] \in Int
    BY UsesBounded DEF TypeInv, TypeOK
<1>5. ASSUME NEW x \in Int, Valid(i), Moves(i, x)
      PROVE  index_ref_count'[i] = (Uses(i)' - drift'[i]) % CountMod
    <2> DEFINE a == Uses(i) - drift[i]
    <2>1. index_ref_count'[i] = ((a % CountMod) + x) % CountMod
        BY <1>2, <1>5 DEF Moves
    <2>2. a \in Int
        BY <1>4
    <2>3. Uses(i)' - drift'[i] = a + x
        BY <1>5 DEF Moves
    <2> HIDE DEF a
    <2> QED
        BY <1>0, <2>1, <2>2, <2>3, WrapAdd
<1>6. 1 \in Int /\ -1 \in Int
    OBVIOUS
<1> QED
    BY <1>1, <1>3, <1>5, <1>6

\* A count of 0 is the truth about an index that is not marked as drifted.
LEMMA ZeroIsTrue ==
    ASSUME CountsSuffice, TypeInv, CountsAccounted,
           NEW i \in Indices, Valid(i), index_ref_count[i] = 0, Uses(i) > 0
    PROVE  drift[i] > 0
<1> DEFINE a == Uses(i) - drift[i]
<1>1. 0 = a % CountMod
    BY DEF CountsAccounted, Valid
<1>2. /\ Uses(i) \in Nat /\ Uses(i) <= Cardinality(Keys) + MaxGroups
      /\ drift[i] \in Int /\ drift[i] >= -MaxDrift
      /\ CountMod \in Nat \ {0} /\ MaxGroups \in Nat /\ MaxDrift \in Nat
      /\ Cardinality(Keys) \in Nat
    BY IndirectAssumption, UsesBounded, FS_CardinalityType DEF TypeInv, TypeOK
<1>3. ASSUME drift[i] <= 0 PROVE FALSE
    <2>1. a \in 0 .. CountMod - 1 /\ a # 0
        BY <1>2, <1>3 DEF CountsSuffice
    <2> HIDE DEF a
    <2>2. a % CountMod = a
        BY <1>2, <2>1, WrapInRange
    <2> QED
        BY <1>1, <2>1, <2>2
<1> QED
    BY <1>2, <1>3

-----------------------------------------------------------------------------
\* The steps.

Preserved ==
    /\ TypeInv'
    /\ CountsAccounted'
    /\ CountsSuffice /\ DanglingDrifts => DanglingDrifts'

\* Calls that fail, lookups, and calls that only set the default.
LEMMA UntouchedPreserved ==
    ASSUME TypeInv, CountsAccounted,
           UNCHANGED <<entries, members, groups, index_ref_count, drift>>,
           default_set' \in BOOLEAN, default_index' \in Indices
    PROVE  Preserved
<1>1. TypeInv'
    BY DEF TypeInv, TypeOK, members, groups
<1>2. CountsAccounted'
    BY DEF CountsAccounted, Uses, Usable, is_valid_mbr, is_valid_grp, InBounds, group,
           members, groups
<1>3. DanglingDrifts => DanglingDrifts'
    BY DEF DanglingDrifts, Valid, Uses, Usable, is_valid_mbr, is_valid_grp, InBounds, group,
           members, groups
<1> QED
    BY <1>1, <1>2, <1>3 DEF Preserved

LEMMA FailPreserved ==
    ASSUME TypeInv, CountsAccounted,
           (\E code : Fail(code)) \/ (\E where : Abort(where))
    PROVE  Preserved
<1>1. default_set \in BOOLEAN /\ default_index \in Indices
    BY DEF TypeInv, TypeOK
<1> QED
    BY <1>1, UntouchedPreserved DEF Fail, Abort, default

\* HandleMgr::get_handle returns the first free handle, so the vectors grow by one.
LEMMA FirstFreeFits ==
    ASSUME NEW n \in Nat, NEW used, used \subseteq 0 .. n - 1
    PROVE  FirstFree(used) \in 0 .. n /\ FirstFree(used) \notin used
<1> DEFINE S == {x \in 0 .. Cardinality(used) : x \notin used}
<1>1. IsFiniteSet(used) /\ used \subseteq Nat /\ Cardinality(used) \in Nat
    <2>1. IsFiniteSet(0 .. n - 1)
        BY FS_Interval
    <2>2. IsFiniteSet(used)
        BY <2>1, FS_Subset
    <2> QED
        BY <2>2, FS_CardinalityType
<1>2. S \subseteq Nat /\ S # {}
    <2>1. \E h \in 0 .. Cardinality(used) : h \notin used
        BY <1>1, FirstFreeExists
    <2> QED
        BY <1>1, <2>1
<1>3. Min(S) \in S /\ \A y \in S : Min(S) <= y
    <2> HIDE DEF S
    <2> QED
        BY <1>2, NatMin DEF Min
<1>4. FirstFree(used) = Min(S)
    BY DEF FirstFree
<1>5. n \notin used
    OBVIOUS
<1> HIDE DEF S
<1>6. Min(S) \in 0 .. Cardinality(used) /\ Min(S) \notin used
    BY <1>3 DEF S
<1>7. n < Min(S) => n \in S
    BY <1>1, <1>5, <1>6 DEF S
<1>8. Min(S) <= n
    BY <1>1, <1>3, <1>6, <1>7
<1> QED
    BY <1>1, <1>4, <1>6, <1>8

LEMMA PutAtVector ==
    ASSUME NEW S, NEW v \in Seq(S), NEW n \in 0 .. Len(v), NEW x \in S
    PROVE  /\ PutAt(v, n, x) \in Seq(S)
           /\ Len(PutAt(v, n, x)) = IF n = Len(v) THEN Len(v) + 1 ELSE Len(v)
           /\ PutAt(v, n, x)[n + 1] = x
           /\ \A j \in 1 .. Len(v) : j # n + 1 => PutAt(v, n, x)[j] = v[j]
<1>1. CASE n = Len(v)
    BY <1>1 DEF PutAt
<1>2. CASE n # Len(v)
    BY <1>2 DEF PutAt
<1> QED
    BY <1>1, <1>2

LEMMA AddMemberPreserved ==
    ASSUME TypeInv, CountsAccounted,
           NEW a \in ActionEntries, add_member(a)
    PROVE  Preserved
<1> DEFINE m == FirstFree(mbr_handles)
<1>1. /\ m \in Members
      /\ mbr_handles' = mbr_handles \cup {m}
      /\ action_entries' = PutAt(action_entries, m, a)
      /\ num_members' = num_members + 1
      /\ index_ref_count' = [index_ref_count EXCEPT ![mbr(m)] = 0]
      /\ drift' = [drift EXCEPT ![mbr(m)] = Uses(mbr(m))]
      /\ UNCHANGED <<entries, grp_handles, group_entries, default_set, default_index>>
    BY DEF add_member, groups, default
<1>2. m \in 0 .. Len(action_entries) /\ m \notin mbr_handles
    <2>1. Len(action_entries) \in Nat /\ mbr_handles \subseteq 0 .. Len(action_entries) - 1
        BY DEF TypeInv, TypeOK
    <2> QED
        BY <2>1, FirstFreeFits
<1> HIDE DEF m
<1>3. mbr(m) \in Indices /\ Uses(mbr(m)) \in Nat
    BY <1>1, IndexFacts, UsesBounded
<1>4. \A i \in Indices : Uses(i)' = Uses(i)
    <2>1. \A n : GroupUsers(n)' = GroupUsers(n)
        BY <1>1 DEF GroupUsers, group
    <2> QED
        BY <1>1, <2>1, GroupsMove, IndexFacts
<1>5. \A i \in Indices : Valid(i)' <=> Valid(i) \/ i = mbr(m)
    BY <1>1, IndexFacts DEF Valid, Usable, is_valid_mbr, is_valid_grp
<1>6. \A i \in Indices : i # mbr(m) => /\ index_ref_count'[i] = index_ref_count[i]
                                       /\ drift'[i] = drift[i]
    BY <1>1 DEF TypeInv, TypeOK
<1>7. index_ref_count'[mbr(m)] = 0 /\ drift'[mbr(m)] = Uses(mbr(m))
    BY <1>1, <1>3 DEF TypeInv, TypeOK
<1>8. TypeInv'
    <2>1. /\ action_entries' \in Seq(ActionEntries)
          /\ mbr_handles' \subseteq 0 .. Len(action_entries') - 1
        <3>1. action_entries \in Seq(ActionEntries) /\ mbr_handles \subseteq 0 .. Len(action_entries) - 1
            BY DEF TypeInv, TypeOK
        <3>2. /\ action_entries' \in Seq(ActionEntries)
              /\ Len(action_entries') = IF m = Len(action_entries) THEN Len(action_entries) + 1
                                        ELSE Len(action_entries)
            BY <1>1, <1>2, <3>1, PutAtVector
        <3>3. Len(action_entries) \in Nat
            BY <3>1
        <3> QED
            BY <1>1, <1>2, <3>1, <3>2, <3>3
    <2>2. num_members' = Cardinality(mbr_handles')
        <3>1. IsFiniteSet(mbr_handles)
            <4>1. IsFiniteSet(Members)
                BY IndirectAssumption, FS_Interval DEF Members
            <4> QED
                BY <4>1, FS_Subset DEF TypeInv
        <3>2. Cardinality(mbr_handles \cup {m}) = Cardinality(mbr_handles) + 1
            BY <1>2, <3>1, FS_AddElement
        <3> QED
            BY <1>1, <3>2 DEF TypeInv, TypeOK
    <2>3. /\ index_ref_count' \in [Indices -> 0 .. CountMod - 1]
          /\ drift' \in [Indices -> Int]
          /\ \A i \in Indices : drift'[i] >= -MaxDrift
        BY IndirectAssumption, <1>1, <1>3, <1>6, <1>7 DEF TypeInv, TypeOK
    <2> QED
        BY <1>1, <2>1, <2>2, <2>3 DEF TypeInv, TypeOK
<1>9. CountsAccounted'
    <2>1. \A i \in Indices : Valid(i)' => Fresh(i) \/ (Valid(i) /\ Stays(i))
        BY <1>3, <1>4, <1>5, <1>6, <1>7 DEF Fresh, Stays
    <2> QED
        BY <2>1, Balanced
<1>10. DanglingDrifts => DanglingDrifts'
    BY <1>4, <1>5, <1>6 DEF DanglingDrifts
<1> QED
    BY <1>8, <1>9, <1>10 DEF Preserved

LEMMA DeleteMemberPreserved ==
    ASSUME TypeInv, CountsAccounted, NEW m \in Members, delete_member(m)
    PROVE  Preserved
<1>1. CASE \E code : Fail(code)
    BY <1>1, FailPreserved
<1>2. CASE ~\E code : Fail(code)
    <2>1. /\ m \in mbr_handles
          /\ index_ref_count[mbr(m)] = 0
          /\ mbr_handles' = mbr_handles \ {m}
          /\ num_members' = num_members - 1
          /\ UNCHANGED <<entries, action_entries, grp_handles, group_entries, index_ref_count,
                         default_set, default_index, drift>>
        BY <1>2 DEF delete_member, is_valid_mbr, groups, default
    <2>2. \A i \in Indices : Uses(i)' = Uses(i)
        <3>1. \A n : GroupUsers(n)' = GroupUsers(n)
            BY <2>1 DEF GroupUsers, group
        <3> QED
            BY <2>1, <3>1, GroupsMove, IndexFacts
    <2>3. \A i \in Indices : Valid(i)' <=> Valid(i) /\ i # mbr(m)
        BY <2>1, IndexFacts DEF Valid, Usable, is_valid_mbr, is_valid_grp
    <2>4. TypeInv'
        <3>1. IsFiniteSet(mbr_handles)
            <4>1. IsFiniteSet(Members)
                BY IndirectAssumption, FS_Interval DEF Members
            <4> QED
                BY <4>1, FS_Subset DEF TypeInv
        <3>2. Cardinality(mbr_handles \ {m}) = Cardinality(mbr_handles) - 1
            BY <2>1, <3>1, FS_RemoveElement
        <3> QED
            BY <2>1, <3>2 DEF TypeInv, TypeOK
    <2>5. CountsAccounted'
        <3>1. \A i \in Indices : Valid(i)' => Valid(i) /\ Stays(i)
            BY <2>1, <2>2, <2>3 DEF Stays
        <3> QED
            BY <3>1, Balanced
    <2>6. CountsSuffice /\ DanglingDrifts => DanglingDrifts'
        <3>1. mbr(m) \in Indices /\ Valid(mbr(m))
            BY <2>1, IndexFacts DEF Valid, is_valid_mbr
        <3>2. CountsSuffice /\ Uses(mbr(m)) > 0 => drift[mbr(m)] > 0
            BY <2>1, <3>1, ZeroIsTrue
        <3> QED
            BY <2>1, <2>2, <2>3, <3>2 DEF DanglingDrifts
    <2> QED
        BY <2>4, <2>5, <2>6 DEF Preserved
<1> QED
    BY <1>1, <1>2

LEMMA ModifyMemberPreserved ==
    ASSUME TypeInv, CountsAccounted,
           NEW m \in Members, NEW a \in ActionEntries, modify_member(m, a)
    PROVE  Preserved
<1>1. CASE \E code : Fail(code)
    BY <1>1, FailPreserved
<1>2. CASE ~\E code : Fail(code)
    <2>1. /\ m \in mbr_handles
          /\ action_entries' = [action_entries EXCEPT ![m + 1] = a]
          /\ UNCHANGED <<entries, mbr_handles, num_members, grp_handles, group_entries,
                         index_ref_count, default_set, default_index, drift>>
        BY <1>2 DEF modify_member, is_valid_mbr, groups, default
    <2>2. \A i \in Indices : Uses(i)' = Uses(i)
        <3>1. \A n : GroupUsers(n)' = GroupUsers(n)
            BY <2>1 DEF GroupUsers, group
        <3> QED
            BY <2>1, <3>1, GroupsMove, IndexFacts
    <2>3. \A i \in Indices : Valid(i)' <=> Valid(i)
        BY <2>1 DEF Valid, Usable, is_valid_mbr, is_valid_grp
    <2>4. TypeInv'
        <3>1. /\ action_entries \in Seq(ActionEntries) /\ Len(action_entries) \in Nat
              /\ m \in 0 .. Len(action_entries) - 1
            BY <2>1 DEF TypeInv, TypeOK
        <3>2. action_entries' \in Seq(ActionEntries) /\ Len(action_entries') = Len(action_entries)
            BY <2>1, <3>1
        <3> QED
            BY <2>1, <3>2 DEF TypeInv, TypeOK
    <2>5. CountsAccounted'
        <3>1. \A i \in Indices : Valid(i)' => Valid(i) /\ Stays(i)
            BY <2>1, <2>2, <2>3 DEF Stays
        <3> QED
            BY <3>1, Balanced
    <2>6. DanglingDrifts => DanglingDrifts'
        BY <2>1, <2>2, <2>3 DEF DanglingDrifts
    <2> QED
        BY <2>4, <2>5, <2>6 DEF Preserved
<1> QED
    BY <1>1, <1>2

LEMMA CreateGroupPreserved ==
    ASSUME TypeInv, CountsAccounted, create_group
    PROVE  Preserved
<1>1. CASE \E where : Abort(where)
    BY <1>1, FailPreserved
<1>2. CASE ~\E where : Abort(where)
    <2>0. PICK g : g = FirstFree(grp_handles)
        OBVIOUS
    <2>1. /\ g <= Len(group_entries) /\ g \in Groups
          /\ grp_handles' = grp_handles \cup {g}
          /\ group_entries' = PutAt(group_entries, g, {})
          /\ index_ref_count' = [index_ref_count EXCEPT ![grp(g)] = 0]
          /\ drift' = [drift EXCEPT ![grp(g)] = Uses(grp(g))]
          /\ UNCHANGED <<entries, mbr_handles, action_entries, num_members,
                         default_set, default_index>>
        BY <1>2, <2>0 DEF create_group, members, default
    <2>2. g \in Nat /\ g \notin grp_handles
        <3>1. MaxGroups \in Nat /\ grp_handles \subseteq 0 .. MaxGroups - 1
            BY IndirectAssumption DEF TypeInv, TypeOK, Groups
        <3>2. FirstFree(grp_handles) \in 0 .. MaxGroups /\ FirstFree(grp_handles) \notin grp_handles
            BY <3>1, FirstFreeFits
        <3> QED
            BY <2>0, <3>1, <3>2
    <2>3. /\ group_entries \in Seq(SUBSET Members) /\ Len(group_entries) \in Nat
          /\ grp_handles \subseteq Nat
        BY DEF TypeInv, TypeOK, Groups
    <2>4. /\ group_entries' \in Seq(SUBSET Members)
          /\ Len(group_entries') = IF g = Len(group_entries) THEN Len(group_entries) + 1
                                   ELSE Len(group_entries)
          /\ group_entries'[g + 1] = {}
          /\ \A j \in 1 .. Len(group_entries) : j # g + 1 => group_entries'[j] = group_entries[j]
        <3> DEFINE S == SUBSET Members
        <3>1. {} \in S /\ g \in 0 .. Len(group_entries) /\ group_entries \in Seq(S)
            BY <2>1, <2>2, <2>3
        <3> HIDE DEF S
        <3>2. group_entries' \in Seq(S)
            BY <2>1, <3>1, PutAtVector
        <3>3. Len(group_entries') = IF g = Len(group_entries) THEN Len(group_entries) + 1
                                    ELSE Len(group_entries)
            BY <2>1, <3>1, PutAtVector
        <3>4. group_entries'[g + 1] = {}
            BY <2>1, <3>1, PutAtVector
        <3>5. \A j \in 1 .. Len(group_entries) : j # g + 1 => group_entries'[j] = group_entries[j]
            BY <2>1, <3>1, PutAtVector
        <3> QED
            BY <3>2, <3>3, <3>4, <3>5 DEF S
    <2>5. \A h \in grp_handles : /\ h < Len(group_entries') <=> h < Len(group_entries)
                                 /\ h < Len(group_entries) => group(h)' = group(h)
        <3> SUFFICES ASSUME NEW h \in grp_handles
                     PROVE  /\ h < Len(group_entries') <=> h < Len(group_entries)
                            /\ h < Len(group_entries) =>
                                  group_entries'[h + 1] = group_entries[h + 1]
            BY DEF group
        <3>1. h \in Nat /\ h # g
            BY <2>2, <2>3
        <3> QED
            BY <2>2, <2>3, <2>4, <3>1
    <2>6. \A i \in Indices : Uses(i)' = Uses(i)
        <3>1. group(g)' = {}
            BY <2>4 DEF group
        <3>2. \A n : GroupUsers(n)' = GroupUsers(n)
            BY <2>1, <2>2, <2>5, <3>1 DEF GroupUsers, InBounds
        <3> QED
            BY <2>1, <3>2, GroupsMove, IndexFacts
    <2>7. \A h : Usable(h)' <=> Usable(h) \/ h = g
        <3>1. g < Len(group_entries')
            BY <2>1, <2>2, <2>3, <2>4
        <3> QED
            BY <2>1, <2>2, <2>5, <3>1 DEF Usable, is_valid_grp, InBounds
    <2>8. \A i \in Indices : Valid(i)' <=> Valid(i) \/ i = grp(g)
        BY <2>1, <2>7, IndexFacts DEF Valid, is_valid_mbr
    <2>9. grp(g) \in Indices /\ Uses(grp(g)) \in Nat
        BY <2>1, IndexFacts, UsesBounded
    <2>10. /\ \A i \in Indices : i # grp(g) => /\ index_ref_count'[i] = index_ref_count[i]
                                              /\ drift'[i] = drift[i]
           /\ index_ref_count'[grp(g)] = 0 /\ drift'[grp(g)] = Uses(grp(g))
        BY <2>1, <2>9 DEF TypeInv, TypeOK
    <2>11. TypeInv'
        <3>1. /\ index_ref_count' \in [Indices -> 0 .. CountMod - 1]
              /\ drift' \in [Indices -> Int]
              /\ \A i \in Indices : drift'[i] >= -MaxDrift
            BY IndirectAssumption, <2>1, <2>9, <2>10 DEF TypeInv, TypeOK
        <3> QED
            BY <2>1, <2>4, <3>1 DEF TypeInv, TypeOK
    <2>12. CountsAccounted'
        <3>1. \A i \in Indices : Valid(i)' => Fresh(i) \/ (Valid(i) /\ Stays(i))
            BY <2>6, <2>8, <2>9, <2>10 DEF Fresh, Stays
        <3> QED
            BY <3>1, Balanced
    <2>13. DanglingDrifts => DanglingDrifts'
        BY <2>6, <2>8, <2>10 DEF DanglingDrifts
    <2> QED
        BY <2>11, <2>12, <2>13 DEF Preserved
<1> QED
    BY <1>1, <1>2

LEMMA DeleteGroupPreserved ==
    ASSUME TypeInv, CountsAccounted, NEW g \in Groups, delete_group(g)
    PROVE  Preserved
<1>1. CASE (\E code : Fail(code)) \/ (\E where : Abort(where))
    BY <1>1, FailPreserved
<1>2. CASE ~((\E code : Fail(code)) \/ (\E where : Abort(where)))
    <2>1. /\ Usable(g)
          /\ index_ref_count[grp(g)] = 0
          /\ index_ref_count' = release(group(g))
          /\ grp_handles' = grp_handles \ {g}
          /\ UNCHANGED <<entries, mbr_handles, action_entries, num_members, group_entries,
                         default_set, default_index, drift>>
        BY <1>2 DEF delete_group, Beyond, members, default
    <2>2. \A n : GroupUsers(n)' = GroupUsers(n) \ {g}
        BY <2>1 DEF GroupUsers, group
    <2>3. \A n : g \in GroupUsers(n) <=> n \in group(g)
        BY <2>1 DEF GroupUsers, Usable, is_valid_grp
    <2>4. \A n \in Members : Uses(mbr(n))' = IF n \in group(g) THEN Uses(mbr(n)) - 1
                                             ELSE Uses(mbr(n))
        <3> SUFFICES ASSUME NEW n \in Members
                     PROVE  Uses(mbr(n))' = IF n \in group(g) THEN Uses(mbr(n)) - 1
                                            ELSE Uses(mbr(n))
            OBVIOUS
        <3>1. CASE n \in group(g)
            BY <2>1, <2>2, <2>3, <3>1, GroupTurns
        <3>2. CASE n \notin group(g)
            <4>1. GroupUsers(n)' = GroupUsers(n)
                BY <2>2, <2>3, <3>2
            <4> QED
                BY <2>1, <3>2, <4>1, GroupsMove, IndexFacts
        <3> QED
            BY <3>1, <3>2
    <2>5. \A h \in Groups : Uses(grp(h))' = Uses(grp(h))
        BY <2>1, GroupsMove, IndexFacts
    <2>6. \A i \in Indices : Valid(i)' <=> Valid(i) /\ i # grp(g)
        BY <2>1, IndexFacts DEF Valid, Usable, is_valid_mbr, is_valid_grp
    <2>7. \A i \in Indices :
             index_ref_count'[i] = IF i.kind = "mbr" /\ i.id \in group(g)
                                   THEN (index_ref_count[i] - 1) % CountMod
                                   ELSE index_ref_count[i]
        BY <2>1 DEF release
    <2>8. TypeInv'
        <3>1. index_ref_count' \in [Indices -> 0 .. CountMod - 1]
            <4>1. \A i \in Indices : (index_ref_count[i] - 1) % CountMod \in 0 .. CountMod - 1
                BY IndirectAssumption DEF TypeInv, TypeOK
            <4>2. index_ref_count' = [i \in Indices |-> index_ref_count'[i]]
                BY <2>1 DEF release
            <4> QED
                BY <2>7, <4>1, <4>2 DEF TypeInv, TypeOK
        <3> QED
            BY <2>1, <3>1 DEF TypeInv, TypeOK
    <2>9. CountsAccounted'
        <3>1. \A i \in Indices : Valid(i)' => Valid(i) /\ (Stays(i) \/ Moves(i, -1))
            <4> SUFFICES ASSUME NEW i \in Indices
                         PROVE  Stays(i) \/ Moves(i, -1)
                BY <2>6
            <4>1. CASE i.kind = "mbr" /\ i.id \in group(g)
                <5>1. Uses(i)' = Uses(i) - 1
                    BY <2>4, <4>1, IndexFacts
                <5>2. Uses(i) \in Nat /\ drift[i] \in Int /\ drift'[i] = drift[i]
                    BY <2>1, UsesBounded DEF TypeInv, TypeOK
                <5>3. index_ref_count'[i] = (index_ref_count[i] + -1) % CountMod
                    BY <2>7, <4>1 DEF TypeInv, TypeOK
                <5>4. Uses(i)' - drift'[i] = Uses(i) - drift[i] + -1
                    BY <5>1, <5>2
                <5> QED
                    BY <5>3, <5>4 DEF Moves
            <4>2. CASE ~(i.kind = "mbr" /\ i.id \in group(g))
                <5>1. Uses(i)' = Uses(i)
                    BY <2>4, <2>5, <4>2, IndexFacts
                <5> QED
                    BY <2>1, <2>7, <4>2, <5>1 DEF Stays
            <4> QED
                BY <4>1, <4>2
        <3> QED
            BY <3>1, Balanced
    <2>10. CountsSuffice /\ DanglingDrifts => DanglingDrifts'
        <3>1. grp(g) \in Indices /\ Valid(grp(g))
            BY <2>1, IndexFacts DEF Valid
        <3>2. CountsSuffice /\ Uses(grp(g)) > 0 => drift[grp(g)] > 0
            BY <2>1, <3>1, ZeroIsTrue
        <3>3. \A i \in Indices : Uses(i)' > 0 => Uses(i) > 0
            BY <2>4, <2>5, UsesBounded, IndexFacts
        <3> QED
            BY <2>1, <2>6, <3>2, <3>3 DEF DanglingDrifts
    <2> QED
        BY <2>8, <2>9, <2>10 DEF Preserved
<1> QED
    BY <1>1, <1>2

\* A valid member joins (x = 1) or leaves (x = -1) a group, and its count follows.
LEMMA MembershipPreserved ==
    ASSUME TypeInv, CountsAccounted,
           NEW m \in Members, NEW g \in Groups, NEW x \in {1, -1}, NEW T,
           is_valid_mbr(m), Usable(g),
           T = IF x = 1 THEN group(g) \cup {m} ELSE group(g) \ {m},
           m \in group(g) <=> x = -1,
           group_entries' = [group_entries EXCEPT ![g + 1] = T],
           index_ref_count' = [index_ref_count EXCEPT ![mbr(m)] = (@ + x) % CountMod],
           UNCHANGED <<entries, mbr_handles, action_entries, num_members, grp_handles,
                       default_set, default_index, drift>>
    PROVE  Preserved
<1>1. /\ group_entries \in Seq(SUBSET Members) /\ Len(group_entries) \in Nat
      /\ grp_handles \subseteq Nat /\ g \in grp_handles /\ g \in 0 .. Len(group_entries) - 1
    BY DEF TypeInv, TypeOK, Groups, Usable, is_valid_grp, InBounds
<1>2. group(g) \in SUBSET Members
    <2>1. g + 1 \in 1 .. Len(group_entries)
        BY <1>1
    <2> QED
        BY <1>1, <2>1 DEF group
<1>3. T \in SUBSET Members
    BY <1>2
<1>4. /\ group_entries' \in Seq(SUBSET Members)
      /\ Len(group_entries') = Len(group_entries)
    <2> DEFINE S == SUBSET Members
    <2>1. group_entries \in Seq(S) /\ T \in S
        BY <1>1, <1>3
    <2> HIDE DEF S
    <2>2. group_entries' \in Seq(S) /\ Len(group_entries') = Len(group_entries)
        BY <1>1, <2>1
    <2> QED
        BY <2>2 DEF S
<1>5. /\ group(g)' = T
      /\ \A h \in grp_handles : h # g /\ h < Len(group_entries) => group(h)' = group(h)
    <2>1. group_entries'[g + 1] = T
        BY <1>1
    <2>2. \A h \in grp_handles : h # g /\ h < Len(group_entries) =>
             group_entries'[h + 1] = group_entries[h + 1]
        <3> SUFFICES ASSUME NEW h \in grp_handles, h # g, h < Len(group_entries)
                     PROVE  group_entries'[h + 1] = group_entries[h + 1]
            OBVIOUS
        <3>1. h + 1 \in 1 .. Len(group_entries) /\ h + 1 # g + 1
            BY <1>1
        <3> QED
            BY <1>1, <3>1
    <2> QED
        BY <2>1, <2>2 DEF group
<1>6. \A n : n # m => GroupUsers(n)' = GroupUsers(n)
    BY <1>1, <1>4, <1>5 DEF GroupUsers, InBounds
<1>7. /\ x = 1 => GroupUsers(m)' = GroupUsers(m) \cup {g} /\ g \notin GroupUsers(m)
      /\ x = -1 => GroupUsers(m)' = GroupUsers(m) \ {g} /\ g \in GroupUsers(m)
    <2>1. /\ \A h \in grp_handles : h \in GroupUsers(m) <=> h < Len(group_entries) /\ m \in group(h)
          /\ \A h \in grp_handles :
                h \in GroupUsers(m)' <=> h < Len(group_entries) /\ m \in group(h)'
          /\ GroupUsers(m) \subseteq grp_handles /\ GroupUsers(m)' \subseteq grp_handles
        BY <1>4 DEF GroupUsers, InBounds
    <2>2. \A h \in grp_handles : h # g => (h \in GroupUsers(m)' <=> h \in GroupUsers(m))
        BY <1>5, <2>1
    <2>3. g < Len(group_entries)
        BY <1>1
    <2>4. (g \in GroupUsers(m)' <=> m \in T) /\ (g \in GroupUsers(m) <=> m \in group(g))
        BY <1>1, <1>5, <2>1, <2>3
    <2>5. x = 1 => g \in GroupUsers(m)' /\ g \notin GroupUsers(m)
        BY <2>4
    <2>6. x = -1 => g \notin GroupUsers(m)' /\ g \in GroupUsers(m)
        BY <2>4
    <2> QED
        BY <1>1, <2>1, <2>2, <2>5, <2>6
<1>8. mbr(m) \in Indices /\ Uses(mbr(m)) \in Nat /\ drift[mbr(m)] \in Int
    BY IndexFacts, UsesBounded DEF TypeInv, TypeOK
<1>9. Uses(mbr(m))' = Uses(mbr(m)) + x
    <2>1. CASE x = 1
        BY <1>7, <2>1, GroupTurns
    <2>2. CASE x = -1
        <3>1. Uses(mbr(m))' = Uses(mbr(m)) - 1
            BY <1>7, <2>2, GroupTurns
        <3> QED
            BY <1>8, <2>2, <3>1
    <2> QED
        BY <2>1, <2>2
<1>10. \A i \in Indices : i # mbr(m) => Uses(i)' = Uses(i)
    BY <1>6, GroupsMove, IndexFacts
<1>11. \A i \in Indices : Valid(i)' <=> Valid(i)
    BY <1>4 DEF Valid, Usable, is_valid_mbr, is_valid_grp, InBounds
<1>12. /\ index_ref_count'[mbr(m)] = (index_ref_count[mbr(m)] + x) % CountMod
       /\ \A i \in Indices : i # mbr(m) => index_ref_count'[i] = index_ref_count[i]
    BY <1>8 DEF TypeInv, TypeOK
<1>13. TypeInv'
    <2>1. (index_ref_count[mbr(m)] + x) % CountMod \in 0 .. CountMod - 1
        BY IndirectAssumption, <1>8 DEF TypeInv, TypeOK
    <2>2. index_ref_count' \in [Indices -> 0 .. CountMod - 1]
        BY <1>8, <2>1 DEF TypeInv, TypeOK
    <2> QED
        BY <1>4, <2>2 DEF TypeInv, TypeOK
<1>14. CountsAccounted'
    <2>1. Moves(mbr(m), x)
        <3>1. Uses(mbr(m))' - drift'[mbr(m)] = (Uses(mbr(m)) - drift[mbr(m)]) + x
            BY <1>8, <1>9
        <3> QED
            BY <1>12, <3>1 DEF Moves
    <2>2. \A i \in Indices : i # mbr(m) => Stays(i)
        BY <1>10, <1>12 DEF Stays
    <2>3. Moves(mbr(m), 1) \/ Moves(mbr(m), -1)
        BY <2>1
    <2> QED
        BY <1>11, <2>2, <2>3, Balanced
<1>15. DanglingDrifts => DanglingDrifts'
    <2>1. Valid(mbr(m))
        BY IndexFacts DEF Valid
    <2> QED
        BY <1>10, <1>11, <2>1 DEF DanglingDrifts
<1> QED
    BY <1>13, <1>14, <1>15 DEF Preserved

LEMMA JoinPreserved ==
    ASSUME TypeInv, CountsAccounted,
           NEW m \in Members, NEW g \in Groups, add_member_to_group(m, g)
    PROVE  Preserved
<1>1. CASE (\E code : Fail(code)) \/ (\E where : Abort(where))
    BY <1>1, FailPreserved
<1>2. CASE ~((\E code : Fail(code)) \/ (\E where : Abort(where)))
    <2>1. /\ is_valid_mbr(m) /\ Usable(g) /\ m \notin group(g)
          /\ group_entries' = [group_entries EXCEPT ![g + 1] = @ \cup {m}]
          /\ index_ref_count' = increase(index_ref_count, mbr(m))
          /\ UNCHANGED <<entries, mbr_handles, action_entries, num_members, grp_handles,
                         default_set, default_index, drift>>
        BY <1>2 DEF add_member_to_group, Beyond, members, default
    <2>2. group_entries' = [group_entries EXCEPT ![g + 1] = group(g) \cup {m}]
        BY <2>1 DEF group
    <2>3. index_ref_count' = [index_ref_count EXCEPT ![mbr(m)] = (@ + 1) % CountMod]
        BY <2>1 DEF increase
    <2>4. \E T : T = group(g) \cup {m}
        OBVIOUS
    <2>5. 1 \in {1, -1} /\ ~(1 = -1)
        OBVIOUS
    <2> QED
        BY <2>1, <2>2, <2>3, <2>5, MembershipPreserved
<1> QED
    BY <1>1, <1>2

LEMMA LeavePreserved ==
    ASSUME TypeInv, CountsAccounted,
           NEW m \in Members, NEW g \in Groups, remove_member_from_group(m, g)
    PROVE  Preserved
<1>1. CASE (\E code : Fail(code)) \/ (\E where : Abort(where))
    BY <1>1, FailPreserved
<1>2. CASE ~((\E code : Fail(code)) \/ (\E where : Abort(where)))
    <2>1. /\ is_valid_mbr(m) /\ Usable(g) /\ m \in group(g)
          /\ group_entries' = [group_entries EXCEPT ![g + 1] = @ \ {m}]
          /\ index_ref_count' = decrease(index_ref_count, mbr(m))
          /\ UNCHANGED <<entries, mbr_handles, action_entries, num_members, grp_handles,
                         default_set, default_index, drift>>
        BY <1>2 DEF remove_member_from_group, Beyond, members, default
    <2>2. group_entries' = [group_entries EXCEPT ![g + 1] = group(g) \ {m}]
        BY <2>1 DEF group
    <2>3. index_ref_count' = [index_ref_count EXCEPT ![mbr(m)] = (@ + -1) % CountMod]
        <3>1. mbr(m) \in Indices
            BY IndexFacts
        <3>2. index_ref_count[mbr(m)] - 1 = index_ref_count[mbr(m)] + -1
            BY <3>1 DEF TypeInv, TypeOK
        <3> QED
            BY <2>1, <3>1, <3>2 DEF decrease
    <2>4. -1 \in {1, -1} /\ ~(-1 = 1)
        OBVIOUS
    <2> QED
        BY <2>1, <2>2, <2>3, <2>4, MembershipPreserved
<1> QED
    BY <1>1, <1>2

-----------------------------------------------------------------------------
\* Entries.

\* An entry may be given a target only if the target exists.
LEMMA TargetIsValid ==
    ASSUME NEW i \in Indices, Readable(i), refusal(i) = "none"
    PROVE  Valid(i)
<1>1. i.kind = "mbr" \/ i.kind = "grp"
    BY IndexFacts
<1>2. CASE i.kind = "mbr"
    BY <1>2 DEF refusal, Valid
<1>3. CASE i.kind = "grp"
    <2>1. i.kind # "mbr"
        BY <1>3
    <2>2. is_valid_grp(i.id)
        BY <1>3, <2>1 DEF refusal
    <2> QED
        BY <1>3, <2>2 DEF Readable, Valid
<1> QED
    BY <1>1, <1>2, <1>3

\* Calls on entries leave members and groups, and so what is valid, alone.
LEMMA EntriesValid ==
    ASSUME UNCHANGED <<members, groups>>
    PROVE  \A i \in Indices : Valid(i)' <=> Valid(i)
BY DEF Valid, Usable, is_valid_mbr, is_valid_grp, members, groups

LEMMA EntriesType ==
    ASSUME TypeInv, UNCHANGED <<members, groups, default>>,
           entries' \in [Keys -> Indices \cup {NoIndex}],
           index_ref_count' \in [Indices -> 0 .. CountMod - 1],
           drift' \in [Indices -> Int], \A i \in Indices : drift'[i] >= -MaxDrift
    PROVE  TypeInv'
BY DEF TypeInv, TypeOK, members, groups, default

LEMMA CountsWrap ==
    ASSUME NEW f \in [Indices -> 0 .. CountMod - 1], NEW i \in Indices
    PROVE  /\ increase(f, i) \in [Indices -> 0 .. CountMod - 1]
           /\ decrease(f, i) \in [Indices -> 0 .. CountMod - 1]
           /\ increase(f, i)[i] = (f[i] + 1) % CountMod
           /\ decrease(f, i)[i] = (f[i] + -1) % CountMod
           /\ \A j \in Indices : j # i => increase(f, i)[j] = f[j] /\ decrease(f, i)[j] = f[j]
<1>1. CountMod \in Nat \ {0}
    BY IndirectAssumption
<1>2. f[i] \in 0 .. CountMod - 1
    OBVIOUS
<1>3. f[i] + 1 \in Int /\ f[i] - 1 \in Int /\ f[i] - 1 = f[i] + -1
    BY <1>1, <1>2
<1>4. (f[i] + 1) % CountMod \in 0 .. CountMod - 1 /\ (f[i] - 1) % CountMod \in 0 .. CountMod - 1
    BY <1>1, <1>3, DivMod
<1> QED
    BY <1>3, <1>4 DEF increase, decrease

LEMMA AddEntryPreserved ==
    ASSUME TypeInv, CountsAccounted,
           NEW k \in Keys, NEW i \in Indices, AddEntry(k, i)
    PROVE  Preserved
<1>1. CASE (\E code : Fail(code)) \/ (\E where : Abort(where))
    BY <1>1, FailPreserved
<1>2. CASE ~((\E code : Fail(code)) \/ (\E where : Abort(where)))
    <2>1. /\ Readable(i) /\ refusal(i) = "none"
          /\ index_ref_count' = increase(index_ref_count, i)
          /\ \/ /\ drift[i] > -MaxDrift
                /\ drift' = [drift EXCEPT ![i] = @ - 1]
                /\ UNCHANGED entries
             \/ /\ entries[k] = NoIndex
                /\ entries' = [entries EXCEPT ![k] = i]
                /\ UNCHANGED drift
          /\ UNCHANGED <<members, groups, default>>
        BY <1>2, Zenon DEF AddEntry, Unreadable, Beyond
    <2>2. /\ Valid(i) /\ \A j \in Indices : Valid(j)' <=> Valid(j)
        BY <2>1, TargetIsValid, EntriesValid
    <2>3. /\ index_ref_count \in [Indices -> 0 .. CountMod - 1]
          /\ drift \in [Indices -> Int] /\ entries \in [Keys -> Indices \cup {NoIndex}]
          /\ \A j \in Indices : drift[j] >= -MaxDrift /\ Uses(j) \in Nat
          /\ MaxDrift \in Nat
        BY IndirectAssumption, UsesBounded DEF TypeInv, TypeOK
    <2>4. /\ index_ref_count' \in [Indices -> 0 .. CountMod - 1]
          /\ index_ref_count'[i] = (index_ref_count[i] + 1) % CountMod
          /\ \A j \in Indices : j # i => index_ref_count'[j] = index_ref_count[j]
        BY <2>1, <2>3, CountsWrap
    <2>5. /\ drift' \in [Indices -> Int] /\ entries' \in [Keys -> Indices \cup {NoIndex}]
          /\ \A j \in Indices : drift'[j] >= -MaxDrift
          /\ \A j \in Indices : j # i => drift'[j] = drift[j] /\ Uses(j)' = Uses(j)
          /\ Uses(i)' - drift'[i] = Uses(i) - drift[i] + 1
        <3>1. CASE /\ drift[i] > -MaxDrift
                   /\ drift' = [drift EXCEPT ![i] = @ - 1]
                   /\ UNCHANGED entries
            <4>1. \A j \in Indices : Uses(j)' = Uses(j)
                <5>1. \A n : GroupUsers(n)' = GroupUsers(n)
                    BY <2>1 DEF GroupUsers, group, groups
                <5> QED
                    BY <3>1, <5>1, GroupsMove, IndexFacts
            <4>2. /\ drift' \in [Indices -> Int] /\ drift'[i] = drift[i] - 1
                  /\ \A j \in Indices : j # i => drift'[j] = drift[j]
                BY <2>3, <3>1
            <4>3. \A j \in Indices : drift'[j] >= -MaxDrift
                BY <2>3, <3>1, <4>2
            <4>4. Uses(i)' - drift'[i] = Uses(i) - drift[i] + 1
                BY <2>3, <4>1, <4>2
            <4> QED
                BY <2>3, <3>1, <4>1, <4>2, <4>3, <4>4
        <3>2. CASE /\ entries[k] = NoIndex
                   /\ entries' = [entries EXCEPT ![k] = i]
                   /\ UNCHANGED drift
            <4>1. \A j \in Indices :
                     Uses(j)' = Uses(j) + (IF j = i THEN 1 ELSE 0) - (IF j = entries[k] THEN 1 ELSE 0)
                BY <2>1, <3>2, EntryMoves DEF groups
            <4>2. \A j \in Indices : j # entries[k]
                BY <3>2, IndexFacts
            <4>3. /\ \A j \in Indices : j # i => Uses(j)' = Uses(j)
                  /\ Uses(i)' = Uses(i) + 1
                BY <2>3, <4>1, <4>2
            <4>4. Uses(i)' - drift'[i] = Uses(i) - drift[i] + 1
                BY <2>3, <3>2, <4>3
            <4> QED
                BY <2>3, <3>2, <4>3, <4>4
        <3> QED
            BY <2>1, <3>1, <3>2
    <2>6. TypeInv'
        BY <2>1, <2>4, <2>5, EntriesType
    <2>7. CountsAccounted'
        <3>1. Moves(i, 1)
            BY <2>4, <2>5 DEF Moves
        <3>2. \A j \in Indices : j # i => Stays(j)
            BY <2>4, <2>5 DEF Stays
        <3> QED
            BY <2>2, <3>1, <3>2, Balanced
    <2>8. DanglingDrifts => DanglingDrifts'
        BY <2>2, <2>5 DEF DanglingDrifts
    <2> QED
        BY <2>6, <2>7, <2>8 DEF Preserved
<1> QED
    BY <1>1, <1>2

LEMMA DeleteEntryPreserved ==
    ASSUME TypeInv, CountsAccounted, NEW k \in Keys, DeleteEntry(k)
    PROVE  Preserved
<1>1. CASE \E code : Fail(code)
    BY <1>1, FailPreserved
<1>2. CASE ~\E code : Fail(code)
    <2>0. PICK i : i = entries[k]
        OBVIOUS
    <2>1. /\ i # NoIndex
          /\ index_ref_count' = decrease(index_ref_count, i)
          /\ entries' = [entries EXCEPT ![k] = NoIndex]
          /\ UNCHANGED <<members, groups, default, drift>>
        BY <1>2, <2>0 DEF DeleteEntry
    <2>2. \A j \in Indices : Valid(j)' <=> Valid(j)
        BY <2>1, EntriesValid
    <2>3. /\ index_ref_count \in [Indices -> 0 .. CountMod - 1]
          /\ drift \in [Indices -> Int] /\ entries \in [Keys -> Indices \cup {NoIndex}]
          /\ \A j \in Indices : drift[j] >= -MaxDrift /\ Uses(j) \in Nat
        BY UsesBounded DEF TypeInv, TypeOK
    <2>4. i \in Indices
        BY <2>0, <2>1, <2>3
    <2>5. /\ index_ref_count' \in [Indices -> 0 .. CountMod - 1]
          /\ index_ref_count'[i] = (index_ref_count[i] + -1) % CountMod
          /\ \A j \in Indices : j # i => index_ref_count'[j] = index_ref_count[j]
        BY <2>1, <2>3, <2>4, CountsWrap
    <2>6. /\ \A j \in Indices : j # i => Uses(j)' = Uses(j)
          /\ Uses(i)' = Uses(i) - 1
        <3>1. \A j \in Indices : Uses(j)' = Uses(j) + (IF j = NoIndex THEN 1 ELSE 0)
                                                   - (IF j = entries[k] THEN 1 ELSE 0)
            BY <2>1, EntryMoves DEF groups
        <3>2. \A j \in Indices : j # NoIndex
            BY IndexFacts
        <3> QED
            BY <2>0, <2>3, <2>4, <3>1, <3>2
    <2>7. TypeInv'
        <3>1. entries' \in [Keys -> Indices \cup {NoIndex}]
            BY <2>1, <2>3
        <3> QED
            BY <2>1, <2>3, <2>5, <3>1, EntriesType
    <2>8. CountsAccounted'
        <3>1. Moves(i, -1)
            <4>1. Uses(i)' - drift'[i] = Uses(i) - drift[i] + -1
                BY <2>1, <2>3, <2>4, <2>6
            <4> QED
                BY <2>5, <4>1 DEF Moves
        <3>2. \A j \in Indices : j # i => Stays(j)
            BY <2>1, <2>5, <2>6 DEF Stays
        <3> QED
            BY <2>2, <3>1, <3>2, Balanced
    <2>9. DanglingDrifts => DanglingDrifts'
        <3>1. \A j \in Indices : Uses(j)' > 0 => Uses(j) > 0
            BY <2>3, <2>4, <2>6
        <3> QED
            BY <2>1, <2>2, <3>1 DEF DanglingDrifts
    <2> QED
        BY <2>7, <2>8, <2>9 DEF Preserved
<1> QED
    BY <1>1, <1>2

\* A refused modify_entry: the count of the old target drops, its uses do not.
LEMMA ModifyRefusedPreserved ==
    ASSUME TypeInv, CountsAccounted, NEW i \in Indices,
           index_ref_count' = decrease(index_ref_count, i),
           drift' = [drift EXCEPT ![i] = @ + 1],
           UNCHANGED <<entries, members, groups, default>>
    PROVE  Preserved
<1>1. \A j \in Indices : Valid(j)' <=> Valid(j)
    BY EntriesValid
<1>2. /\ index_ref_count \in [Indices -> 0 .. CountMod - 1]
      /\ drift \in [Indices -> Int] /\ entries \in [Keys -> Indices \cup {NoIndex}]
      /\ \A j \in Indices : drift[j] >= -MaxDrift /\ Uses(j) \in Nat
      /\ MaxDrift \in Nat
    BY IndirectAssumption, UsesBounded DEF TypeInv, TypeOK
<1>3. /\ index_ref_count' \in [Indices -> 0 .. CountMod - 1]
      /\ index_ref_count'[i] = (index_ref_count[i] + -1) % CountMod
      /\ \A j \in Indices : j # i => index_ref_count'[j] = index_ref_count[j]
    BY <1>2, CountsWrap
<1>4. \A j \in Indices : Uses(j)' = Uses(j)
    <2>1. \A n : GroupUsers(n)' = GroupUsers(n)
        BY DEF GroupUsers, group, groups
    <2> QED
        BY <2>1, GroupsMove, IndexFacts
<1>5. /\ drift' \in [Indices -> Int] /\ drift'[i] = drift[i] + 1
      /\ \A j \in Indices : j # i => drift'[j] = drift[j]
    BY <1>2
<1>6. TypeInv'
    <2>1. \A j \in Indices : drift'[j] >= -MaxDrift
        BY <1>2, <1>5
    <2> QED
        BY <1>2, <1>3, <1>5, <2>1, EntriesType
<1>7. CountsAccounted'
    <2>1. Moves(i, -1)
        <3>1. Uses(i)' - drift'[i] = Uses(i) - drift[i] + -1
            BY <1>2, <1>4, <1>5
        <3> QED
            BY <1>3, <3>1 DEF Moves
    <2>2. \A j \in Indices : j # i => Stays(j)
        BY <1>3, <1>4, <1>5 DEF Stays
    <2> QED
        BY <1>1, <2>1, <2>2, Balanced
<1>8. DanglingDrifts => DanglingDrifts'
    <2>1. \A j \in Indices : drift[j] > 0 => drift'[j] > 0
        BY <1>2, <1>5
    <2> QED
        BY <1>1, <1>4, <2>1 DEF DanglingDrifts
<1> QED
    BY <1>6, <1>7, <1>8 DEF Preserved

LEMMA ModifyEntryPreserved ==
    ASSUME TypeInv, CountsAccounted,
           NEW k \in Keys, NEW i \in Indices, ModifyEntry(k, i)
    PROVE  Preserved
<1>0. PICK o : o = entries[k]
    OBVIOUS
<1>1. CASE (\E code : Fail(code)) \/ (\E where : Abort(where))
    BY <1>1, FailPreserved
<1>2. CASE /\ o # NoIndex
           /\ index_ref_count' = decrease(index_ref_count, o)
           /\ drift' = [drift EXCEPT ![o] = @ + 1]
           /\ UNCHANGED <<entries, members, groups, default>>
    <2>1. o \in Indices
        BY <1>0, <1>2 DEF TypeInv, TypeOK
    <2> QED
        BY <1>2, <2>1, ModifyRefusedPreserved
<1>3. CASE /\ o # NoIndex /\ Readable(i) /\ refusal(i) = "none"
           /\ index_ref_count' = increase(decrease(index_ref_count, o), i)
           /\ entries' = [entries EXCEPT ![k] = i]
           /\ UNCHANGED <<members, groups, default, drift>>
    <2>1. Valid(i) /\ \A j \in Indices : Valid(j)' <=> Valid(j)
        BY <1>3, TargetIsValid, EntriesValid
    <2>2. /\ index_ref_count \in [Indices -> 0 .. CountMod - 1]
          /\ drift \in [Indices -> Int] /\ entries \in [Keys -> Indices \cup {NoIndex}]
          /\ \A j \in Indices : drift[j] >= -MaxDrift /\ Uses(j) \in Nat
          /\ CountMod \in Nat \ {0}
        BY IndirectAssumption, UsesBounded DEF TypeInv, TypeOK
    <2>3. o \in Indices
        BY <1>0, <1>3, <2>2
    <2>4. \A j \in Indices : Uses(j)' = Uses(j) + (IF j = i THEN 1 ELSE 0)
                                               - (IF j = o THEN 1 ELSE 0)
        BY <1>0, <1>3, EntryMoves DEF groups
    <2> DEFINE dropped == decrease(index_ref_count, o)
    <2>5. /\ dropped \in [Indices -> 0 .. CountMod - 1]
          /\ dropped[o] = (index_ref_count[o] + -1) % CountMod
          /\ \A j \in Indices : j # o => dropped[j] = index_ref_count[j]
        BY <2>2, <2>3, CountsWrap
    <2>6. index_ref_count' = increase(dropped, i)
        BY <1>3
    <2> HIDE DEF dropped
    <2>7. /\ index_ref_count' \in [Indices -> 0 .. CountMod - 1]
          /\ index_ref_count'[i] = (dropped[i] + 1) % CountMod
          /\ \A j \in Indices : j # i => index_ref_count'[j] = dropped[j]
        BY <2>5, <2>6, CountsWrap
    <2>8. TypeInv'
        <3>1. entries' \in [Keys -> Indices \cup {NoIndex}]
            BY <1>3, <2>2
        <3> QED
            BY <1>3, <2>2, <2>7, <3>1, EntriesType
    <2>9. CountsAccounted'
        <3>1. \A j \in Indices : j # i /\ j # o => Stays(j)
            BY <1>3, <2>2, <2>4, <2>5, <2>7 DEF Stays
        <3>2. i = o => Stays(i)
            <4>1. ASSUME i = o PROVE index_ref_count'[i] = index_ref_count[i]
                <5>1. index_ref_count'[i] = (((index_ref_count[i] + -1) % CountMod) + 1) % CountMod
                    BY <2>5, <2>7, <4>1
                <5>2. index_ref_count[i] \in 0 .. CountMod - 1
                    BY <2>2
                <5>3. /\ index_ref_count[i] + -1 \in Int
                      /\ (index_ref_count[i] + -1) + 1 = index_ref_count[i]
                    BY <2>2, <5>2
                <5>4. (((index_ref_count[i] + -1) % CountMod) + 1) % CountMod =
                         ((index_ref_count[i] + -1) + 1) % CountMod
                    BY <2>2, <5>3, WrapAdd
                <5> QED
                    BY <2>2, <5>1, <5>2, <5>3, <5>4, WrapInRange
            <4>2. i = o => Uses(i)' = Uses(i)
                BY <2>2, <2>4
            <4> QED
                BY <1>3, <4>1, <4>2 DEF Stays
        <3>3. i # o => Moves(i, 1) /\ Moves(o, -1)
            <4> SUFFICES ASSUME i # o PROVE Moves(i, 1) /\ Moves(o, -1)
                OBVIOUS
            <4>1. /\ index_ref_count'[i] = (index_ref_count[i] + 1) % CountMod
                  /\ index_ref_count'[o] = (index_ref_count[o] + -1) % CountMod
                BY <2>3, <2>5, <2>7
            <4>2. /\ Uses(i)' = Uses(i) + 1 /\ Uses(o)' = Uses(o) - 1
                BY <2>2, <2>3, <2>4
            <4>3. /\ Uses(i)' - drift'[i] = Uses(i) - drift[i] + 1
                  /\ Uses(o)' - drift'[o] = Uses(o) - drift[o] + -1
                BY <1>3, <2>2, <2>3, <4>2
            <4> QED
                BY <4>1, <4>3 DEF Moves
        <3>4. \A j \in Indices : Stays(j) \/ Moves(j, 1) \/ Moves(j, -1)
            BY <3>1, <3>2, <3>3
        <3> QED
            BY <2>1, <3>4, Balanced
    <2>10. DanglingDrifts => DanglingDrifts'
        <3>1. \A j \in Indices : j # i /\ Uses(j)' > 0 => Uses(j) > 0
            BY <2>2, <2>4
        <3> QED
            BY <1>3, <2>1, <3>1 DEF DanglingDrifts
    <2> QED
        BY <2>8, <2>9, <2>10 DEF Preserved
<1> QED
    BY <1>0, <1>1, <1>2, <1>3, Zenon DEF ModifyEntry, Unreadable, Beyond

-----------------------------------------------------------------------------
\* The rest of the calls.

LEMMA SetDefaultPreserved ==
    ASSUME TypeInv, CountsAccounted, NEW i \in Indices, SetDefault(i)
    PROVE  Preserved
<1>1. CASE \E code : Fail(code)
    BY <1>1, FailPreserved
<1>2. CASE ~\E code : Fail(code)
    <2>1. /\ default_index' = i /\ default_set' = TRUE
          /\ UNCHANGED <<entries, members, groups, index_ref_count, drift>>
        BY <1>2 DEF SetDefault
    <2> QED
        BY <2>1, UntouchedPreserved
<1> QED
    BY <1>1, <1>2

LEMMA LookupPreserved ==
    ASSUME TypeInv, CountsAccounted, NEW k \in Keys, lookup(k)
    PROVE  Preserved
<1>1. ASSUME NEW m, NEW hit, Member(m, hit)
      PROVE  (\E code : Fail(code)) \/ (\E where : Abort(where))
    BY <1>1 DEF Member
<1>2. ASSUME NEW i, NEW hit, Resolve(i, hit)
      PROVE  (\E code : Fail(code)) \/ (\E where : Abort(where))
    BY <1>1, <1>2, Zenon DEF Resolve, choose_from_group
<1>3. (\E code : Fail(code)) \/ (\E where : Abort(where))
    BY <1>2, Zenon DEF lookup
<1> QED
    BY <1>3, FailPreserved

LEMMA EmptySeq ==
    ASSUME NEW S
    PROVE  << >> \in Seq(S)
OBVIOUS

LEMMA ResetPreserved ==
    ASSUME TypeInv, CountsAccounted, reset_state
    PROVE  Preserved
<1>1. /\ entries' = [k \in Keys |-> NoIndex]
      /\ mbr_handles' = {} /\ action_entries' = << >> /\ num_members' = 0
      /\ group_entries' = << >>
      /\ index_ref_count' = [i \in Indices |-> 0] /\ drift' = [i \in Indices |-> 0]
      /\ UNCHANGED <<grp_handles, default_set, default_index>>
    BY DEF reset_state, default
<1>2. \A i \in Indices : ~Valid(i)'
    <2>1. Len(group_entries') = 0 /\ \A g \in grp_handles' : g \in Nat
        BY <1>1 DEF TypeInv, TypeOK, Groups
    <2>2. \A g : ~Usable(g)'
        BY <2>1 DEF Usable, is_valid_grp, InBounds
    <2> QED
        BY <1>1, <2>2 DEF Valid, is_valid_mbr
<1>3. TypeInv'
    <2>1. num_members' = Cardinality(mbr_handles')
        BY <1>1, FS_EmptySet
    <2>2. /\ entries' \in [Keys -> Indices \cup {NoIndex}]
          /\ mbr_handles' \subseteq 0 .. Len(action_entries') - 1 /\ mbr_handles' \subseteq Members
        BY <1>1
    <2>4. action_entries' \in Seq(ActionEntries)
        BY <1>1, EmptySeq
    <2>5. group_entries' \in Seq(SUBSET Members)
        BY <1>1, EmptySeq
    <2>3. /\ index_ref_count' \in [Indices -> 0 .. CountMod - 1]
          /\ drift' \in [Indices -> Int] /\ \A i \in Indices : drift'[i] >= -MaxDrift
        BY IndirectAssumption, <1>1
    <2> QED
        BY <1>1, <2>1, <2>2, <2>3, <2>4, <2>5 DEF TypeInv, TypeOK
<1>4. CountsAccounted'
    BY <1>2, Balanced
<1>5. DanglingDrifts'
    <2>1. \A i \in Indices : Uses(i)' = 0
        <3> SUFFICES ASSUME NEW i \in Indices PROVE Uses(i)' = 0
            OBVIOUS
        <3>1. EntryUsers(i)' = {}
            BY <1>1, IndexFacts DEF EntryUsers
        <3>2. GroupUsers(i.id)' = {}
            <4>1. Len(group_entries') = 0 /\ \A g \in grp_handles' : g \in Nat
                BY <1>1 DEF TypeInv, TypeOK, Groups
            <4>2. \A g \in grp_handles' : ~InBounds(Len(group_entries'), g)
                BY <4>1 DEF InBounds
            <4> QED
                BY <4>2 DEF GroupUsers
        <3>3. /\ i.kind = "mbr" => Uses(i)' = Cardinality(EntryUsers(i)') + Cardinality(GroupUsers(i.id)')
              /\ i.kind = "grp" => Uses(i)' = Cardinality(EntryUsers(i)') + 0
            BY DEF Uses, EntryUsers, GroupUsers
        <3>4. i.kind = "mbr" \/ i.kind = "grp"
            BY IndexFacts
        <3> QED
            BY <3>1, <3>2, <3>3, <3>4, FS_EmptySet
    <2> QED
        BY <2>1 DEF DanglingDrifts
<1> QED
    BY <1>3, <1>4, <1>5 DEF Preserved

-----------------------------------------------------------------------------
\* The specification.

LEMMA InitHolds ==
    ASSUME Init
    PROVE  IndirectInv
<1>1. TypeInv
    <2>1. num_members = Cardinality(mbr_handles)
        BY FS_EmptySet DEF Init
    <2>2. action_entries \in Seq(ActionEntries)
        BY EmptySeq DEF Init
    <2>3. group_entries \in Seq(SUBSET Members)
        BY EmptySeq DEF Init
    <2>4. /\ mbr_handles \subseteq 0 .. Len(action_entries) - 1 /\ mbr_handles \subseteq Members
          /\ grp_handles \subseteq Groups
        BY DEF Init
    <2>5. entries \in [Keys -> Indices \cup {NoIndex}]
        BY DEF Init
    <2>6. /\ index_ref_count \in [Indices -> 0 .. CountMod - 1]
          /\ drift \in [Indices -> Int] /\ \A i \in Indices : drift[i] >= -MaxDrift
        BY IndirectAssumption DEF Init
    <2>7. default_set \in BOOLEAN /\ default_index \in Indices
        <3>1. 0 \in Members
            BY IndirectAssumption DEF Members
        <3>2. mbr(0) \in Indices
            BY <3>1, IndexFacts
        <3> QED
            BY <3>2 DEF Init
    <2> QED
        BY <2>1, <2>2, <2>3, <2>4, <2>5, <2>6, <2>7 DEF TypeInv, TypeOK
<1>2. \A i \in Indices : ~Valid(i)
    BY DEF Init, Valid, Usable, is_valid_mbr, is_valid_grp
<1>3. \A i \in Indices : Uses(i) = 0
    <2> SUFFICES ASSUME NEW i \in Indices PROVE Uses(i) = 0
        OBVIOUS
    <2>1. EntryUsers(i) = {} /\ GroupUsers(i.id) = {}
        BY IndexFacts DEF Init, EntryUsers, GroupUsers
    <2>2. i.kind = "mbr" \/ i.kind = "grp"
        BY IndexFacts
    <2> QED
        BY <2>1, <2>2, UsesSplit, FS_EmptySet
<1>4. CountsAccounted
    BY <1>2 DEF CountsAccounted, Valid
<1>5. DanglingDrifts
    BY <1>3 DEF DanglingDrifts
<1> QED
    BY <1>1, <1>4, <1>5 DEF IndirectInv

LEMMA NextPreserves ==
    ASSUME TypeInv, CountsAccounted, [Next]_vars
    PROVE  Preserved
<1>1. ASSUME NEW a \in ActionEntries, add_member(a) PROVE Preserved
    BY <1>1, AddMemberPreserved
<1>2. ASSUME NEW m \in Members, delete_member(m) PROVE Preserved
    BY <1>2, DeleteMemberPreserved
<1>3. ASSUME NEW m \in Members, NEW a \in ActionEntries, modify_member(m, a) PROVE Preserved
    BY <1>3, ModifyMemberPreserved
<1>4. ASSUME create_group PROVE Preserved
    BY <1>4, CreateGroupPreserved
<1>5. ASSUME NEW g \in Groups, delete_group(g) PROVE Preserved
    BY <1>5, DeleteGroupPreserved
<1>6. ASSUME NEW m \in Members, NEW g \in Groups, add_member_to_group(m, g) PROVE Preserved
    BY <1>6, JoinPreserved
<1>7. ASSUME NEW m \in Members, NEW g \in Groups, remove_member_from_group(m, g) PROVE Preserved
    BY <1>7, LeavePreserved
<1>8. ASSUME NEW k \in Keys, NEW i \in Indices, AddEntry(k, i) PROVE Preserved
    BY <1>8, AddEntryPreserved
<1>9. ASSUME NEW k \in Keys, DeleteEntry(k) PROVE Preserved
    BY <1>9, DeleteEntryPreserved
<1>10. ASSUME NEW k \in Keys, NEW i \in Indices, ModifyEntry(k, i) PROVE Preserved
    BY <1>10, ModifyEntryPreserved
<1>11. ASSUME NEW i \in Indices, SetDefault(i) PROVE Preserved
    BY <1>11, SetDefaultPreserved
<1>12. ASSUME NEW k \in Keys, lookup(k) PROVE Preserved
    BY <1>12, LookupPreserved
<1>13. ASSUME reset_state PROVE Preserved
    BY <1>13, ResetPreserved
<1>14. ASSUME UNCHANGED vars PROVE Preserved
    <2>1. default_set \in BOOLEAN /\ default_index \in Indices
        BY DEF TypeInv, TypeOK
    <2> QED
        BY <1>14, <2>1, UntouchedPreserved DEF vars, default
<1> QED
    BY <1>1, <1>2, <1>3, <1>4, <1>5, <1>6, <1>7, <1>8, <1>9, <1>10, <1>11, <1>12, <1>13, <1>14,
       Zenon DEF Next

\* For any number of keys, members and groups, every reference count of an index that exists
\* is the number of entries and groups that use the index, modulo the width of the count,
\* up to the drift left by calls that failed half way (add_entry and modify_entry).
THEOREM CountsAlwaysAccounted == Spec => [](TypeOK /\ CountsAccounted)
<1> DEFINE Inv == TypeInv /\ CountsAccounted
<1>1. Init => Inv
    BY InitHolds DEF IndirectInv
<1>2. Inv /\ [Next]_vars => Inv'
    BY NextPreserves DEF Preserved
<1>3. Inv => TypeOK /\ CountsAccounted
    BY DEF TypeInv
<1> QED
    BY <1>1, <1>2, <1>3, PTL DEF Spec

\* The reference counts do what they are for: as long as no refused modify_entry has left a
\* count too low, delete_member and delete_group never delete what an entry or a group uses,
\* provided that an unsigned int can count the uses.
THEOREM UsedIsNeverDeleted ==
    ASSUME CountsSuffice
    PROVE  Spec => []NothingInUseIsDeleted
<1>1. Init => IndirectInv
    BY InitHolds
<1>2. IndirectInv /\ [Next]_vars => IndirectInv'
    BY NextPreserves DEF Preserved, IndirectInv
<1>3. IndirectInv => NothingInUseIsDeleted
    <2> SUFFICES ASSUME IndirectInv, \A i \in Indices : drift[i] <= 0
                 PROVE  /\ \A k \in InUse :
                              IF entries[k].kind = "mbr" THEN is_valid_mbr(entries[k].id)
                              ELSE Usable(entries[k].id)
                        /\ \A g \in grp_handles : Usable(g) => group(g) \subseteq mbr_handles
        BY DEF NothingInUseIsDeleted
    <2>1. \A i \in Indices : Uses(i) > 0 => Valid(i)
        BY DEF IndirectInv, DanglingDrifts, TypeInv, TypeOK
    <2>2. grp_handles \subseteq Groups
        BY DEF IndirectInv, TypeInv, TypeOK
    <2>3. ASSUME NEW k \in InUse
          PROVE  IF entries[k].kind = "mbr" THEN is_valid_mbr(entries[k].id)
                 ELSE Usable(entries[k].id)
        <3>0. PICK i : i = entries[k]
            OBVIOUS
        <3>1. k \in Keys /\ i \in Indices
            BY <2>3, <3>0 DEF InUse, IndirectInv, TypeInv, TypeOK
        <3>2. Uses(i) > 0
            <4>1. k \in EntryUsers(i)
                BY <3>0, <3>1 DEF EntryUsers
            <4>2. /\ IsFiniteSet(EntryUsers(i)) /\ Cardinality(EntryUsers(i)) \in Nat
                  /\ Cardinality(GroupUsers(i.id)) \in Nat
                BY <2>2, UsersFinite
            <4>3. Cardinality(EntryUsers(i)) # 0
                BY <4>1, <4>2, FS_EmptySet
            <4>4. i.kind = "mbr" \/ i.kind = "grp"
                BY <3>1, IndexFacts
            <4> QED
                BY <4>2, <4>3, <4>4, UsesSplit
        <3> QED
            BY <2>1, <3>0, <3>1, <3>2, IndexFacts DEF Valid
    <2>4. ASSUME NEW g \in grp_handles, Usable(g), NEW m \in group(g)
          PROVE  m \in mbr_handles
        <3>1. m \in Members
            <4>1. /\ group_entries \in Seq(SUBSET Members) /\ Len(group_entries) \in Nat
                  /\ g \in Nat /\ g < Len(group_entries)
                BY <2>2, <2>4 DEF IndirectInv, TypeInv, TypeOK, Usable, InBounds, Groups
            <4>2. g + 1 \in 1 .. Len(group_entries)
                BY <4>1
            <4>3. group_entries[g + 1] \in SUBSET Members
                BY <4>1, <4>2
            <4> QED
                BY <2>4, <4>3 DEF group
        <3>2. mbr(m) \in Indices /\ mbr(m).kind = "mbr" /\ mbr(m).id = m
            BY <3>1, IndexFacts
        <3>3. Uses(mbr(m)) > 0
            <4>1. g \in GroupUsers(m)
                BY <2>4 DEF GroupUsers, Usable
            <4>2. /\ IsFiniteSet(GroupUsers(m)) /\ Cardinality(GroupUsers(m)) \in Nat
                  /\ Cardinality(EntryUsers(mbr(m))) \in Nat
                BY <2>2, UsersFinite
            <4>3. Cardinality(GroupUsers(m)) # 0
                BY <4>1, <4>2, FS_EmptySet
            <4>4. Uses(mbr(m)) = Cardinality(EntryUsers(mbr(m))) + Cardinality(GroupUsers(m))
                BY <3>2, UsesSplit
            <4> QED
                BY <4>2, <4>3, <4>4
        <3> QED
            BY <2>1, <3>2, <3>3 DEF Valid, is_valid_mbr
    <2> QED
        BY <2>3, <2>4
<1> QED
    BY <1>1, <1>2, <1>3, PTL DEF Spec
=============================================================================
