------------------------------ MODULE MatchUnit ------------------------------
(***************************************************************************)
(* The match unit of a match-action table (match_units.h, match_units.cpp, *)
(* handle_mgr.h, lookup_structures.cpp): a fixed array of slots, the       *)
(* handle manager that says which slots are in use, the lookup structure   *)
(* from stored keys to slots, and the per-entry metadata (counter, time of *)
(* last hit, timeout, version).                                            *)
(*                                                                         *)
(* A client names an entry by a 64-bit handle <version, slot>.  A deletion *)
(* bumps the 32-bit version of the slot, which is how the handles of       *)
(* deleted entries are told from the handles of the entries that reuse     *)
(* their slots.                                                            *)
(*                                                                         *)
(* The methods run under the table's lock (write lock, or read lock for a  *)
(* lookup that only writes atomics), so each is one action.                *)
(***************************************************************************)
EXTENDS Integers, FiniteSets, Sequences

CONSTANTS
    Keys,          \* stored keys: data, prefix length or mask, priority
    UserKeys,      \* match keys a client can submit
    Canonical,     \* user key -> the key stored after masking and conversion
    BadKeys,       \* user keys that match_params_sanity_check refuses
    Packets,       \* packets, as far as the match key is concerned
    Prefers,       \* packet -> stored keys it matches, best first
    Values,        \* action entries or indirect indices
    NoKey, NoValue, \* content of a slot that was never written
    Size,          \* number of slots
    VersionMod,    \* 2^32: versions are uint32_t
    Ttls,          \* timeouts a client can set, in clock ticks; 0 is "none"
    MaxAge,        \* bound on the ages of entries, in clock ticks
    MaxHits,       \* bound: a packet counter is not counted past it
    MaxGeneration  \* bound: deletions per slot between two resets

ASSUME SizeAssumption == Size \in Nat \ {0}
ASSUME VersionAssumption == VersionMod \in Nat \ {0}
ASSUME KeyAssumption ==
    /\ NoKey \notin Keys
    /\ BadKeys \subseteq UserKeys
    /\ Canonical \in [UserKeys \ BadKeys -> Keys]
    /\ Prefers \in [Packets -> Seq(Keys)]
ASSUME ValueAssumption == NoValue \notin Values
ASSUME ClockAssumption ==
    Ttls \subseteq Nat /\ 0 \in Ttls /\ MaxAge \in Nat /\ MaxHits \in Nat
ASSUME BoundAssumption == MaxGeneration \in Nat

Slots == 0 .. Size - 1
Versions == 0 .. VersionMod - 1

\* The age of an entry: the clock less its time of last hit.
Ages == -MaxAge .. MaxAge

\* A key the lookup structure does not hold maps to None.
None == -1

\* What a client may pass as a handle: the slot is not checked before the call.
ClientHandles == [version : Versions, slot : 0 .. Size]

VARIABLES
    handles,          \* HandleMgr: the slots in use
    num_entries,
    entries,          \* slot -> [key, version, value]
    entry_meta,       \* slot -> [age, timeout_ms, hits, version]
    lookup_structure, \* key -> slot or None
    ret,              \* MatchErrorCode and out-parameters of the last call
    generation,       \* history: deletions of the slot since the last reset
    issued            \* history: handles returned since the last reset

storage == <<handles, num_entries, entries, entry_meta, lookup_structure>>
history == <<generation, issued>>
vars == <<storage, ret, history>>

-----------------------------------------------------------------------------
\* The empty table.

EmptyEntry == [key |-> NoKey, version |-> 0, value |-> NoValue]

\* The timestamp of fresh metadata is the epoch: as old as can be.
EmptyMeta == [age |-> MaxAge, timeout_ms |-> 0, hits |-> 0, version |-> 0]

Init ==
    /\ handles = {}
    /\ num_entries = 0
    /\ entries = [s \in Slots |-> EmptyEntry]
    /\ entry_meta = [s \in Slots |-> EmptyMeta]
    /\ lookup_structure = [k \in Keys |-> None]
    /\ ret = [op |-> <<"reset_state">>, rc |-> "SUCCESS"]
    /\ generation = [s \in Slots |-> 0]
    /\ issued = {}

-----------------------------------------------------------------------------
\* Helpers of the methods.

valid_handle(slot) == slot \in handles

\* HandleMgr::get_handle: the first slot that is not in use.  There is no upper
\* bound here: get_and_set_handle relies on num_entries to refuse a full table.
FirstEmpty(used) ==
    CHOOSE s \in 0 .. Cardinality(used) :
        s \notin used /\ \A t \in 0 .. s - 1 : t \in used

\* Mutant: the version is not bumped.
BumpNot(v) == v

\* A uint32_t increment.
Bump(v) == IF v = VersionMod - 1 THEN 0 ELSE v + 1

\* Mutant: only the slot is checked, as in set_entry_ttl.
handle_status_no_version(h) ==
    IF ~valid_handle(h.slot) THEN "INVALID_HANDLE" ELSE "SUCCESS"

\* The checks that delete_entry_, modify_entry_, get_value_ and get_entry_ share.
handle_status(h) ==
    IF ~valid_handle(h.slot) THEN "INVALID_HANDLE"
    ELSE IF h.version # entries[h.slot].version THEN "EXPIRED_HANDLE"
    ELSE "SUCCESS"

entry_exists(k) == lookup_structure[k] # None

\* LookupStructure::delete_entry.
forget(k) == lookup_structure' = [lookup_structure EXCEPT ![k] = None]

\* Mutant: the version of the metadata is left behind.
MetaResetStale(meta, version) ==
    [age |-> 0, timeout_ms |-> meta.timeout_ms, hits |-> 0, version |-> meta.version]

\* EntryMeta::reset followed by the assignment of the version: the counter and
\* the timestamp start afresh, the timeout is left as it was.
MetaReset(meta, version) ==
    [age |-> 0, timeout_ms |-> meta.timeout_ms, hits |-> 0, version |-> version]

\* update_counters and update_ts for a packet that entered lag ticks ago.
MetaHit(meta, lag) ==
    [age |-> lag, timeout_ms |-> meta.timeout_ms, version |-> meta.version,
     hits |-> IF meta.hits < MaxHits THEN meta.hits + 1 ELSE meta.hits]

\* LookupStructure::lookup: the best of the stored keys that the packet matches.
Matches(p) == {i \in DOMAIN Prefers[p] : entry_exists(Prefers[p][i])}

lookup(p) ==
    IF Matches(p) = {} THEN None
    ELSE LET best == CHOOSE i \in Matches(p) : \A j \in Matches(p) : i <= j
         IN  lookup_structure[Prefers[p][best]]

Refuse(op, code) ==
    ret' = [op |-> op, rc |-> code] /\ UNCHANGED <<storage, history>>

-----------------------------------------------------------------------------
\* The operations.

\* add_entry fails on a bad key, then on a duplicate, then on a full table.
AddEntryFails(uk) ==
    \/ uk \in BadKeys /\ Refuse(<<"add_entry", uk>>, "BAD_MATCH_KEY")
    \/ /\ uk \notin BadKeys
       /\ entry_exists(Canonical[uk])
       /\ Refuse(<<"add_entry", uk>>, "DUPLICATE_ENTRY")
    \/ /\ uk \notin BadKeys
       /\ ~entry_exists(Canonical[uk])
       /\ num_entries >= Size
       /\ Refuse(<<"add_entry", uk>>, "TABLE_FULL")

AddEntrySucceeds(uk, v) ==
    /\ uk \notin BadKeys
    /\ ~entry_exists(Canonical[uk])
    /\ num_entries < Size
    /\ LET k == Canonical[uk]
           slot == FirstEmpty(handles)
           version == entries[slot].version
           h == [version |-> version, slot |-> slot]
       IN  /\ handles' = handles \cup {slot}
           /\ num_entries' = num_entries + 1
           /\ entries' = [entries EXCEPT ![slot] =
                              [key |-> k, version |-> version, value |-> v]]
           /\ entry_meta' = [entry_meta EXCEPT ![slot] = MetaReset(@, version)]
           /\ lookup_structure' = [lookup_structure EXCEPT ![k] = slot]
           /\ ret' = [op |-> <<"add_entry", uk>>, rc |-> "SUCCESS", handle |-> h]
           /\ issued' = issued \cup
                  {[handle |-> h, key |-> k, birth |-> generation[slot]]}
           /\ UNCHANGED generation

AddEntry(uk, v) == AddEntryFails(uk) \/ AddEntrySucceeds(uk, v)

\* The version is bumped before the key leaves the lookup structure; the value
\* and the metadata stay behind in the freed slot.
DeleteEntry(h) ==
    \/ handle_status(h) # "SUCCESS" /\ Refuse(<<"delete_entry", h>>, handle_status(h))
    \/ /\ handle_status(h) = "SUCCESS"
       /\ generation[h.slot] < MaxGeneration
       /\ entries' = [entries EXCEPT ![h.slot].version = Bump(@)]
       /\ forget(entries[h.slot].key)
       /\ handles' = handles \ {h.slot}
       /\ num_entries' = num_entries - 1
       /\ generation' = [generation EXCEPT ![h.slot] = @ + 1]
       /\ ret' = [op |-> <<"delete_entry", h>>, rc |-> "SUCCESS"]
       /\ UNCHANGED <<entry_meta, issued>>

ModifyEntry(h, v) ==
    \/ handle_status(h) # "SUCCESS" /\ Refuse(<<"modify_entry", h>>, handle_status(h))
    \/ /\ handle_status(h) = "SUCCESS"
       /\ entries' = [entries EXCEPT ![h.slot].value = v]
       /\ ret' = [op |-> <<"modify_entry", h>>, rc |-> "SUCCESS"]
       /\ UNCHANGED <<handles, num_entries, entry_meta, lookup_structure, history>>

\* get_value, get_entry: read-only, with the same checks.
GetEntry(h) ==
    \/ handle_status(h) # "SUCCESS" /\ Refuse(<<"get_entry", h>>, handle_status(h))
    \/ /\ handle_status(h) = "SUCCESS"
       /\ ret' = [op |-> <<"get_entry", h>>, rc |-> "SUCCESS",
                   key |-> entries[h.slot].key, value |-> entries[h.slot].value]
       /\ UNCHANGED <<storage, history>>

\* set_entry_ttl checks that the slot is in use and nothing else.
SetEntryTtl(h, ttl) ==
    \/ ~valid_handle(h.slot) /\ Refuse(<<"set_entry_ttl">>, "INVALID_HANDLE")
    \/ /\ valid_handle(h.slot)
       /\ entry_meta' = [entry_meta EXCEPT ![h.slot].timeout_ms = ttl]
       /\ ret' = [op |-> <<"set_entry_ttl">>, rc |-> "SUCCESS"]
       /\ UNCHANGED <<handles, num_entries, entries, lookup_structure, history>>

\* A packet that entered the switch lag ticks ago looks its key up.  The time of
\* last hit becomes its ingress time, even if a later packet was there before.
Lookup(p, lag) ==
    \/ lookup(p) = None /\ Refuse(<<"lookup", p>>, "MISS")
    \/ /\ lookup(p) # None
       /\ LET s == lookup(p) IN
            /\ entry_meta' = [entry_meta EXCEPT ![s] = MetaHit(@, lag)]
            /\ ret' = [op |-> <<"lookup", p>>, rc |-> "HIT", value |-> entries[s].value,
                       handle |-> [version |-> entries[s].version, slot |-> s]]
       /\ UNCHANGED <<handles, num_entries, entries, lookup_structure, history>>

\* MatchTableAbstract::write_counters through get_entry_meta: only the slot is
\* checked.
WriteCounters(h, n) ==
    \/ ~valid_handle(h.slot) /\ Refuse(<<"write_counters">>, "INVALID_HANDLE")
    \/ /\ valid_handle(h.slot)
       /\ entry_meta' = [entry_meta EXCEPT ![h.slot].hits = n]
       /\ ret' = [op |-> <<"write_counters">>, rc |-> "SUCCESS"]
       /\ UNCHANGED <<handles, num_entries, entries, lookup_structure, history>>

\* reset_counters clears the counters of used and unused slots alike.
ResetCounters ==
    /\ entry_meta' = [s \in Slots |-> [entry_meta[s] EXCEPT !.hits = 0]]
    /\ ret' = [op |-> <<"reset_counters">>, rc |-> "SUCCESS"]
    /\ UNCHANGED <<handles, num_entries, entries, lookup_structure, history>>

\* reset_state gives every member its initial value again; the versions restart.
ResetState ==
    /\ handles' = {}
    /\ num_entries' = 0
    /\ entries' = [s \in Slots |-> EmptyEntry]
    /\ entry_meta' = [s \in Slots |-> EmptyMeta]
    /\ lookup_structure' = [k \in Keys |-> None]
    /\ ret' = [op |-> <<"reset_state">>, rc |-> "SUCCESS"]
    /\ generation' = [s \in Slots |-> 0]
    /\ issued' = {}

\* The clock that entries and sweeps read is the system's: it moves on, or is set
\* back.  The time kept in a slot that is not in use is never read again, and is
\* taken for the epoch's.
Moved(meta, age) == [meta EXCEPT !.age = age]

ClockMoves(ticks) ==
    /\ \A s \in handles : entry_meta[s].age + ticks \in Ages
    /\ entry_meta' = [s \in Slots |-> Moved(entry_meta[s], IF s \in handles THEN entry_meta[s].age + ticks
                                                          ELSE MaxAge)]
    /\ UNCHANGED <<handles, num_entries, entries, lookup_structure, ret, history>>

Tick == ClockMoves(1)
SetBack == ClockMoves(-1)

\* sweep_entries, for a slot and a clock read some ticks ago: assert(now_ms >=
\* meta.ts.get_ms()) holds, and the timeout of the entry has passed.
InThePast(s, since) == entry_meta[s].age >= since
TimedOut(s, since) ==
    entry_meta[s].timeout_ms > 0 /\ entry_meta[s].age - since >= entry_meta[s].timeout_ms
SweptHandle(s) == [version |-> entry_meta[s].version, slot |-> s]

\* What a sweep that took no time would find now.
Expired == {SweptHandle(s) : s \in {t \in handles : TimedOut(t, 0)}}

TableStep ==
    \/ \E uk \in UserKeys, v \in Values : AddEntry(uk, v)
    \/ \E h \in ClientHandles : DeleteEntry(h)
    \/ \E h \in ClientHandles, v \in Values : ModifyEntry(h, v)
    \/ \E h \in ClientHandles : GetEntry(h)
    \/ \E h \in ClientHandles, ttl \in Ttls : SetEntryTtl(h, ttl)
    \/ \E h \in ClientHandles, n \in 0 .. MaxHits : WriteCounters(h, n)
    \/ \E p \in Packets, lag \in 0 .. MaxAge : Lookup(p, lag)
    \/ ResetCounters
    \/ ResetState

Next == TableStep \/ Tick \/ SetBack

Spec == Init /\ [][Next]_vars

-----------------------------------------------------------------------------
\* Properties.

EntryType == [key : Keys \cup {NoKey}, version : Versions,
              value : Values \cup {NoValue}]
MetaType == [age : Ages, timeout_ms : Ttls, hits : 0 .. MaxHits,
             version : Versions]
IssuedType == [handle : [version : Versions, slot : Slots], key : Keys,
               birth : Nat]

\* The variables have the types of the members they stand for.  That the slots in
\* use lie inside the vectors is a consequence of the whole of the invariant: no
\* line of add_entry_ compares a slot with the size of the vectors it indexes.
TypeOK ==
    /\ handles \subseteq Slots
    /\ num_entries \in 0 .. Size
    /\ entries \in [Slots -> EntryType]
    /\ entry_meta \in [Slots -> MetaType]
    /\ lookup_structure \in [Keys -> Slots \cup {None}]
    /\ generation \in [Slots -> Nat]
    /\ issued \subseteq IssuedType

\* The handle manager, the entry count, the slots and the lookup structure tell
\* the same story: a key leads to a slot exactly when the slot is in use and holds
\* that key.  (A deletion or a failed addition that forgot one of the four would
\* leave a packet matching a freed slot, or an entry nobody can match.)
LookupConsistent ==
    /\ num_entries = Cardinality(handles)
    /\ \A s \in handles :
          entries[s].key \in Keys /\ lookup_structure[entries[s].key] = s
    /\ \A k \in Keys : entry_exists(k) =>
          /\ lookup_structure[k] \in handles
          /\ entries[lookup_structure[k]].key = k

\* A handle is honoured by delete, modify and get only while the entry it was
\* returned for is in the table: the handle of a deleted entry never reaches the
\* entry that took over its slot.  Exact until the version of the slot wraps.
StaleHandlesRefused ==
    \A i \in issued :
        LET s == i.handle.slot IN
        generation[s] < VersionMod /\ handle_status(i.handle) = "SUCCESS" =>
            i.birth = generation[s] /\ entries[s].key = i.key

\* The version of a slot counts the deletions from it, until it wraps.
VersionsCount ==
    \A s \in Slots : generation[s] < VersionMod => entries[s].version = generation[s]

\* What is known of every handle returned since the last reset: it was made at a
\* time when its slot had seen no more deletions than now, its version is that
\* count, and if there was no deletion since then its entry is still there.
HandlesAccounted ==
    \A i \in issued :
        /\ i.birth <= generation[i.handle.slot]
        /\ i.birth < VersionMod => i.handle.version = i.birth
        /\ i.birth = generation[i.handle.slot] =>
              /\ i.handle.slot \in handles
              /\ entries[i.handle.slot].key = i.key

\* The inductive invariant: StaleHandlesRefused speaks of the entry now in the
\* slot, and is preserved by an addition only because nothing that was issued
\* for the slot before can have the slot's present version.
IInv == TypeOK /\ LookupConsistent /\ VersionsCount /\ HandlesAccounted

\* The version kept with the metadata, from which the ageing sweep builds the
\* handles it reports, is the version of the entry: the controller can delete
\* what it is told has expired.
SweptHandlesUsable == \A h \in Expired : handle_status(h) = "SUCCESS"

\* The entry in a slot as its clients see it, and the handles they were given.
EntryOf(s) ==
    [handle |-> [version |-> entries[s].version, slot |-> s],
     key |-> entries[s].key, value |-> entries[s].value]
AbsTable == {EntryOf(s) : s \in handles}
AbsSpent == {i.handle : i \in issued}

\* What the match unit promises its clients, with slots, versions and lookup
\* structure hidden: an abstract table whose handles are never used twice.
Abstract == INSTANCE AbstractTable WITH
    Capacity <- Size,
    Handles <- ClientHandles,
    table <- AbsTable,
    spent <- AbsSpent,
    outcome <- ret

\* Every step of the match unit is a step of the abstract table, as long as no
\* slot is deleted from so often that its version wraps (MaxGeneration).
ImplementsAbstractTable == Abstract!Spec
=============================================================================
