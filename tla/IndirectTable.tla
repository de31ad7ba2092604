---------------------------- MODULE IndirectTable ----------------------------
(***************************************************************************)
(* MatchTableIndirect and MatchTableIndirectWS (match_tables.h,            *)
(* match_tables.cpp): a match table whose entries point to members of an   *)
(* action profile, or to groups of members.  Reference counts keep a       *)
(* client from deleting what is still in use.                              *)
(*                                                                         *)
(* Each method body runs under the table's lock and is one action.  The    *)
(* match unit below is seen through what module AbstractTable says of it:  *)
(* an entry is named by its key, which stands for the handle returned for  *)
(* it; a call on a key without an entry is a call with a dead handle.      *)
(*                                                                         *)
(* A failed assert, and an access past the end of a vector, end the run of *)
(* the switch: fault says which.                                           *)
(***************************************************************************)
EXTENDS Integers, FiniteSets, Sequences, FiniteSetsExt

CONSTANTS
    Keys,        \* match keys
    ActionEntries, \* what members do
    TableSize,   \* capacity of the match unit
    MaxMembers,  \* bound: members at a time (2^24 in the code)
    MaxGroups,   \* bound: groups at a time (2^24 in the code)
    CountMod,    \* 2^32: a reference count is an unsigned int
    MaxDrift     \* bound: failed calls that leave a count wrong

\* What the code's types give.
ASSUME IndirectAssumption ==
    /\ IsFiniteSet(Keys)
    /\ TableSize \in Nat /\ MaxMembers \in Nat \ {0} /\ MaxGroups \in Nat
    /\ CountMod \in Nat \ {0} /\ MaxDrift \in Nat

mbr(m) == [kind |-> "mbr", id |-> m]
grp(g) == [kind |-> "grp", id |-> g]

Members == 0 .. MaxMembers - 1
Groups == 0 .. MaxGroups - 1
Indices == {mbr(m) : m \in Members} \cup {grp(g) : g \in Groups}
NoIndex == [kind |-> "none", id |-> 0]

VARIABLES
    entries,         \* match unit: key -> index, NoIndex where there is no entry
    mbr_handles, action_entries, num_members,
    grp_handles, group_entries, num_groups,
    index_ref_count, \* index -> count
    default_set, default_index,
    rc,              \* MatchErrorCode of the last call
    fault,           \* "none", or the assert or access that ended the run
    drift            \* history: uses of an index that its count does not show

members == <<mbr_handles, action_entries, num_members>>
groups == <<grp_handles, group_entries, num_groups>>
default == <<default_set, default_index>>
vars == <<entries, members, groups, index_ref_count, default, rc, fault, drift>>

Init ==
    /\ entries = [k \in Keys |-> NoIndex]
    /\ mbr_handles = {} /\ action_entries = << >> /\ num_members = 0
    /\ grp_handles = {} /\ group_entries = << >> /\ num_groups = 0
    /\ index_ref_count = [i \in Indices |-> 0]
    /\ default_set = FALSE /\ default_index = mbr(0)
    /\ rc = "SUCCESS"
    /\ fault = "none"
    /\ drift = [i \in Indices |-> 0]

-----------------------------------------------------------------------------
\* Helpers.

is_valid_mbr(m) == m \in mbr_handles
is_valid_grp(g) == g \in grp_handles
InUse == {k \in Keys : entries[k] # NoIndex}

FirstFree(used) == Min({n \in 0 .. Cardinality(used) : n \notin used})

\* std::vector::operator[] on a vector with n elements.
InBounds(n, i) == i < n

group(g) == group_entries[g + 1]

\* IndirectIndexRefCount, whose counts are unsigned.
increase(counts, i) == [counts EXCEPT ![i] = (@ + 1) % CountMod]
decrease(counts, i) == [counts EXCEPT ![i] = (@ - 1) % CountMod]

\* The uses of an index: entries that point to it, and groups that hold it.
Uses(i) ==
    Cardinality({k \in Keys : entries[k] = i}) +
    IF i.kind = "grp" THEN 0
    ELSE Cardinality({g \in grp_handles :
             InBounds(Len(group_entries), g) /\ i.id \in group(g)})

\* Assignment to v[n], or push_back when n is the size of the vector.
PutAt(v, n, x) == IF n = Len(v) THEN Append(v, x) ELSE [v EXCEPT ![n + 1] = x]

Return(code) == rc' = code /\ UNCHANGED fault
Fail(code) ==
    /\ Return(code)
    /\ UNCHANGED <<entries, members, groups, index_ref_count, default, drift>>
Abort(where) ==
    /\ fault' = where
    /\ UNCHANGED <<entries, members, groups, index_ref_count, default, rc, drift>>

-----------------------------------------------------------------------------
\* Members.

\* entries_insert gives a fresh member count 0, whatever still points to it.  Its
\* assert(mbr <= action_entries.size()) never fails: TypeOK bounds the handles.
add_member(a) ==
    LET m == FirstFree(mbr_handles) IN
    /\ m \in Members
    /\ mbr_handles' = mbr_handles \cup {m}
    /\ action_entries' = PutAt(action_entries, m, a)
    /\ num_members' = num_members + 1
    /\ index_ref_count' = [index_ref_count EXCEPT ![mbr(m)] = 0]
    /\ drift' = [drift EXCEPT ![mbr(m)] = Uses(mbr(m))]
    /\ Return("SUCCESS")
    /\ UNCHANGED <<entries, groups, default>>

\* Mutant: the count is not consulted.
delete_member_unchecked(m) ==
    /\ is_valid_mbr(m)
    /\ mbr_handles' = mbr_handles \ {m}
    /\ num_members' = num_members - 1
    /\ Return("SUCCESS")
    /\ UNCHANGED <<entries, action_entries, groups, index_ref_count, default, drift>>

delete_member(m) ==
    \/ ~is_valid_mbr(m) /\ Fail("INVALID_MBR_HANDLE")
    \/ is_valid_mbr(m) /\ index_ref_count[mbr(m)] > 0 /\ Fail("MBR_STILL_USED")
    \/ /\ is_valid_mbr(m)
       /\ index_ref_count[mbr(m)] = 0
       /\ mbr_handles' = mbr_handles \ {m}
       /\ num_members' = num_members - 1
       /\ Return("SUCCESS")
       /\ UNCHANGED <<entries, action_entries, groups, index_ref_count, default, drift>>

modify_member(m, a) ==
    \/ ~is_valid_mbr(m) /\ Fail("INVALID_MBR_HANDLE")
    \/ /\ is_valid_mbr(m)
       /\ action_entries' = [action_entries EXCEPT ![m + 1] = a]
       /\ Return("SUCCESS")
       /\ UNCHANGED <<entries, mbr_handles, num_members, groups, index_ref_count,
                      default, drift>>

-----------------------------------------------------------------------------
\* Groups.

create_group ==
    LET g == FirstFree(grp_handles) IN
    \/ g > Len(group_entries) /\ Abort("groups_insert: grp <= group_entries.size()")
    \/ /\ g <= Len(group_entries)
       /\ g \in Groups
       /\ grp_handles' = grp_handles \cup {g}
       /\ group_entries' = PutAt(group_entries, g, {})
       /\ num_groups' = num_groups + 1
       /\ index_ref_count' = [index_ref_count EXCEPT ![grp(g)] = 0]
       /\ drift' = [drift EXCEPT ![grp(g)] = Uses(grp(g))]
       /\ Return("SUCCESS")
       /\ UNCHANGED <<entries, members, default>>

\* A group's index is valid but its vectors were emptied by reset_state_.
Beyond(g) ==
    /\ is_valid_grp(g)
    /\ ~InBounds(Len(group_entries), g)
    /\ Abort("group_entries out of bounds")

Usable(g) == is_valid_grp(g) /\ InBounds(Len(group_entries), g)

\* Mutant: the members of the group keep the count they had in it.
release_not(ms) == index_ref_count

\* Deletion of a non-empty group decreases the count of each of its members.
release(ms) ==
    [i \in Indices |-> IF i.kind = "mbr" /\ i.id \in ms
                       THEN (index_ref_count[i] - 1) % CountMod
                       ELSE index_ref_count[i]]

delete_group(g) ==
    \/ ~is_valid_grp(g) /\ Fail("INVALID_GRP_HANDLE")
    \/ Beyond(g)
    \/ Usable(g) /\ index_ref_count[grp(g)] > 0 /\ Fail("GRP_STILL_USED")
    \/ /\ Usable(g)
       /\ index_ref_count[grp(g)] = 0
       /\ index_ref_count' = release(group(g))
       /\ grp_handles' = grp_handles \ {g}
       /\ num_groups' = num_groups - 1
       /\ Return("SUCCESS")
       /\ UNCHANGED <<entries, members, group_entries, default, drift>>

add_member_to_group(m, g) ==
    \/ ~is_valid_mbr(m) /\ Fail("INVALID_MBR_HANDLE")
    \/ is_valid_mbr(m) /\ ~is_valid_grp(g) /\ Fail("INVALID_GRP_HANDLE")
    \/ is_valid_mbr(m) /\ Beyond(g)
    \/ is_valid_mbr(m) /\ Usable(g) /\ m \in group(g) /\ Fail("MBR_ALREADY_IN_GRP")
    \/ /\ is_valid_mbr(m) /\ Usable(g) /\ m \notin group(g)
       /\ group_entries' = [group_entries EXCEPT ![g + 1] = @ \cup {m}]
       /\ index_ref_count' = increase(index_ref_count, mbr(m))
       /\ Return("SUCCESS")
       /\ UNCHANGED <<entries, members, grp_handles, num_groups, default, drift>>

remove_member_from_group(m, g) ==
    \/ ~is_valid_mbr(m) /\ Fail("INVALID_MBR_HANDLE")
    \/ is_valid_mbr(m) /\ ~is_valid_grp(g) /\ Fail("INVALID_GRP_HANDLE")
    \/ is_valid_mbr(m) /\ Beyond(g)
    \/ is_valid_mbr(m) /\ Usable(g) /\ m \notin group(g) /\ Fail("MBR_NOT_IN_GRP")
    \/ /\ is_valid_mbr(m) /\ Usable(g) /\ m \in group(g)
       /\ group_entries' = [group_entries EXCEPT ![g + 1] = @ \ {m}]
       /\ index_ref_count' = decrease(index_ref_count, mbr(m))
       /\ Return("SUCCESS")
       /\ UNCHANGED <<entries, members, grp_handles, num_groups, default, drift>>

-----------------------------------------------------------------------------
\* Entries.  The target of an entry is checked first.

\* The code with which a call refuses index i as a target, if it does.
refusal(i) ==
    IF i.kind = "mbr"
    THEN IF is_valid_mbr(i.id) THEN "none" ELSE "INVALID_MBR_HANDLE"
    ELSE IF ~is_valid_grp(i.id) THEN "INVALID_GRP_HANDLE"
    ELSE IF group(i.id) = {} THEN "EMPTY_GRP" ELSE "none"

\* get_grp_size reads past the end of group_entries.
Unreadable(i) == i.kind = "grp" /\ Beyond(i.id)
Readable(i) == i.kind = "grp" /\ is_valid_grp(i.id) => Usable(i.id)

\* add_entry and add_entry_ws count the use before the match unit accepts the
\* entry, and do not take it back when it refuses.
AddEntry(k, i) ==
    \/ Unreadable(i)
    \/ Readable(i) /\ refusal(i) # "none" /\ Fail(refusal(i))
    \/ /\ Readable(i) /\ refusal(i) = "none"
       /\ index_ref_count' = increase(index_ref_count, i)
       /\ \/ /\ entries[k] # NoIndex \/ Cardinality(InUse) >= TableSize
             /\ drift[i] > -MaxDrift
             /\ drift' = [drift EXCEPT ![i] = @ - 1]
             /\ Return(IF entries[k] # NoIndex THEN "DUPLICATE_ENTRY" ELSE "TABLE_FULL")
             /\ UNCHANGED entries
          \/ /\ entries[k] = NoIndex /\ Cardinality(InUse) < TableSize
             /\ entries' = [entries EXCEPT ![k] = i]
             /\ Return("SUCCESS")
             /\ UNCHANGED drift
       /\ UNCHANGED <<members, groups, default>>

DeleteEntry(k) ==
    \/ entries[k] = NoIndex /\ Fail("INVALID_HANDLE")
    \/ /\ entries[k] # NoIndex
       /\ index_ref_count' = decrease(index_ref_count, entries[k])
       /\ entries' = [entries EXCEPT ![k] = NoIndex]
       /\ Return("SUCCESS")
       /\ UNCHANGED <<members, groups, default, drift>>

\* modify_entry and modify_entry_ws drop the use of the old target before they
\* check the new one, and do not take it back when they refuse.
ModifyEntry(k, i) ==
    LET dropped == decrease(index_ref_count, entries[k]) IN
    \/ entries[k] = NoIndex /\ Fail("INVALID_HANDLE")
    \/ entries[k] # NoIndex /\ Unreadable(i)
    \/ /\ entries[k] # NoIndex /\ Readable(i)
       /\ refusal(i) # "none"
       /\ drift[entries[k]] < MaxDrift
       /\ index_ref_count' = dropped
       /\ drift' = [drift EXCEPT ![entries[k]] = @ + 1]
       /\ Return(refusal(i))
       /\ UNCHANGED <<entries, members, groups, default>>
    \/ /\ entries[k] # NoIndex /\ Readable(i)
       /\ refusal(i) = "none"
       /\ index_ref_count' = increase(dropped, i)
       /\ entries' = [entries EXCEPT ![k] = i]
       /\ Return("SUCCESS")
       /\ UNCHANGED <<members, groups, default, drift>>

\* set_default_member and set_default_group check that the handle is valid and
\* count no use.
SetDefault(i) ==
    LET valid == IF i.kind = "mbr" THEN is_valid_mbr(i.id) ELSE is_valid_grp(i.id) IN
    \/ /\ ~valid
       /\ Fail(IF i.kind = "mbr" THEN "INVALID_MBR_HANDLE" ELSE "INVALID_GRP_HANDLE")
    \/ /\ valid
       /\ default_index' = i
       /\ default_set' = TRUE
       /\ Return("SUCCESS")
       /\ UNCHANGED <<entries, members, groups, index_ref_count, drift>>

-----------------------------------------------------------------------------
\* A packet.  The hash of a group may pick any of its members.

Member(m, hit) ==
    IF is_valid_mbr(m) THEN Fail("FOUND")
    ELSE Abort(IF hit THEN "hit: is_valid_mbr" ELSE "miss: is_valid_mbr")

choose_from_group(g, hit) ==
    IF ~InBounds(Len(group_entries), g) THEN Abort("group_entries out of bounds")
    ELSE IF group(g) = {} THEN Abort("choose_from_group: s > 0")
    ELSE \E m \in group(g) : Member(m, hit)

Resolve(i, hit) ==
    IF i.kind = "mbr" THEN Member(i.id, hit)
    ELSE IF ~is_valid_grp(i.id)
    THEN Abort(IF hit THEN "hit: is_valid_grp" ELSE "miss: is_valid_grp")
    ELSE choose_from_group(i.id, hit)

lookup(k) ==
    \/ entries[k] # NoIndex /\ Resolve(entries[k], TRUE)
    \/ entries[k] = NoIndex /\ default_set /\ Resolve(default_index, FALSE)
    \/ entries[k] = NoIndex /\ ~default_set /\ Fail("EMPTY_ACTION")

\* reset_state_ empties the members and the vector of groups, and leaves the
\* handles of the groups and the default as they were.
reset_state ==
    /\ entries' = [k \in Keys |-> NoIndex]
    /\ mbr_handles' = {} /\ action_entries' = << >> /\ num_members' = 0
    /\ group_entries' = << >> /\ num_groups' = 0
    /\ index_ref_count' = [i \in Indices |-> 0]
    /\ drift' = [i \in Indices |-> 0]
    /\ Return("SUCCESS")
    /\ UNCHANGED <<grp_handles, default>>

Running == fault = "none"

Next ==
    \/ \E a \in ActionEntries : Running /\ add_member(a)
    \/ \E m \in Members : Running /\ delete_member(m)
    \/ \E m \in Members, a \in ActionEntries : Running /\ modify_member(m, a)
    \/ Running /\ create_group
    \/ \E g \in Groups : Running /\ delete_group(g)
    \/ \E m \in Members, g \in Groups : Running /\ add_member_to_group(m, g)
    \/ \E m \in Members, g \in Groups : Running /\ remove_member_from_group(m, g)
    \/ \E k \in Keys, i \in Indices : Running /\ AddEntry(k, i)
    \/ \E k \in Keys : Running /\ DeleteEntry(k)
    \/ \E k \in Keys, i \in Indices : Running /\ ModifyEntry(k, i)
    \/ \E i \in Indices : Running /\ SetDefault(i)
    \/ \E k \in Keys : Running /\ lookup(k)
    \/ Running /\ reset_state

Spec == Init /\ [][Next]_vars

-----------------------------------------------------------------------------
\* Properties.

\* The members have the types the code gives them, and the vectors that the
\* member handles index are long enough.
TypeOK ==
    /\ entries \in [Keys -> Indices \cup {NoIndex}]
    /\ mbr_handles \subseteq 0 .. Len(action_entries) - 1
    /\ num_members = Cardinality(mbr_handles)
    /\ action_entries \in Seq(ActionEntries)
    /\ grp_handles \subseteq Groups
    /\ group_entries \in Seq(SUBSET Members)
    /\ index_ref_count \in [Indices -> 0 .. CountMod - 1]
    /\ default_set \in BOOLEAN /\ default_index \in Indices
    /\ drift \in [Indices -> Int]

\* The exact book-keeping of the reference counts: a count shows the entries and
\* groups that use the index, except for the calls that failed after they had
\* changed it.  Groups are the ones created since the last reset.
CountsAccounted ==
    \A i \in Indices :
        (i.kind = "mbr" /\ is_valid_mbr(i.id)) \/ (i.kind = "grp" /\ Usable(i.id)) =>
            index_ref_count[i] = (Uses(i) - drift[i]) % CountMod

\* As long as no refused modify_entry has left a count too low, whatever an entry
\* points to exists, and so does every member of every group: the reference counts
\* do what they are for.
NothingInUseIsDeleted ==
    (\A i \in Indices : drift[i] <= 0) =>
        /\ \A k \in InUse :
              IF entries[k].kind = "mbr" THEN is_valid_mbr(entries[k].id)
              ELSE Usable(entries[k].id)
        /\ \A g \in grp_handles : Usable(g) => group(g) \subseteq mbr_handles

\* assert(is_valid_mbr(mbr)) of the lookups, for an entry that was hit.
HitFindsMember == fault # "hit: is_valid_mbr"

\* assert(is_valid_mbr(mbr)) of the lookups, for the default entry.
MissFindsMember == fault # "miss: is_valid_mbr"

\* assert(s > 0) of choose_from_group: a group that is looked up has a member.
GroupsLookedUpAreNotEmpty == fault # "choose_from_group: s > 0"

\* assert(grp <= group_entries.size()) of groups_insert.
GroupHandlesMatchVector == fault # "groups_insert: grp <= group_entries.size()"

\* A comment of delete_group: a member which is in a group is not deleted.
MembersOfGroupsStay ==
    \A g \in grp_handles : Usable(g) => group(g) \subseteq mbr_handles
=============================================================================
