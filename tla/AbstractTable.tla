---------------------------- MODULE AbstractTable ----------------------------
(***************************************************************************)
(* What a match table promises: a set of at most Capacity entries with     *)
(* distinct keys, each named by a handle that no other entry had since the *)
(* last reset.  A call with a handle acts on the entry the handle was      *)
(* returned for, or fails and changes nothing; a packet gets the value of  *)
(* the best entry it matches.                                              *)
(***************************************************************************)
EXTENDS Naturals, FiniteSets, Sequences

CONSTANTS Keys, UserKeys, Canonical, BadKeys, Packets, Prefers, Values,
          Capacity, Handles

VARIABLES table,   \* the entries: [handle, key, value]
          spent,   \* handles returned since the last reset
          outcome  \* what the last call returned

vars == <<table, spent, outcome>>

KeysIn(t) == {e.key : e \in t}
Live(h) == \E e \in table : e.handle = h

Init == table = {} /\ spent = {} /\ outcome = [op |-> <<"reset_state">>, rc |-> "SUCCESS"]

Fail(op, code) == outcome' = [op |-> op, rc |-> code] /\ UNCHANGED <<table, spent>>

Add(uk, v) ==
    \/ uk \in BadKeys /\ Fail(<<"add_entry", uk>>, "BAD_MATCH_KEY")
    \/ /\ uk \notin BadKeys
       /\ Canonical[uk] \in KeysIn(table)
       /\ Fail(<<"add_entry", uk>>, "DUPLICATE_ENTRY")
    \/ /\ uk \notin BadKeys
       /\ Canonical[uk] \notin KeysIn(table)
       /\ Cardinality(table) = Capacity
       /\ Fail(<<"add_entry", uk>>, "TABLE_FULL")
    \/ /\ uk \notin BadKeys
       /\ Canonical[uk] \notin KeysIn(table)
       /\ Cardinality(table) < Capacity
       /\ \E h \in Handles \ spent :
            /\ table' = table \cup {[handle |-> h, key |-> Canonical[uk], value |-> v]}
            /\ spent' = spent \cup {h}
            /\ outcome' = [op |-> <<"add_entry", uk>>, rc |-> "SUCCESS", handle |-> h]

Dead(op, h) ==
    /\ ~Live(h)
    /\ \E code \in {"INVALID_HANDLE", "EXPIRED_HANDLE"} : Fail(op, code)

Delete(h) ==
    \/ Dead(<<"delete_entry", h>>, h)
    \/ /\ Live(h)
       /\ table' = {e \in table : e.handle # h}
       /\ outcome' = [op |-> <<"delete_entry", h>>, rc |-> "SUCCESS"]
       /\ UNCHANGED spent

Modify(h, v) ==
    \/ Dead(<<"modify_entry", h>>, h)
    \/ /\ Live(h)
       /\ table' = {IF e.handle = h THEN [e EXCEPT !.value = v] ELSE e : e \in table}
       /\ outcome' = [op |-> <<"modify_entry", h>>, rc |-> "SUCCESS"]
       /\ UNCHANGED spent

Get(h) ==
    \/ Dead(<<"get_entry", h>>, h)
    \/ \E e \in table :
          /\ e.handle = h
          /\ outcome' = [op |-> <<"get_entry", h>>, rc |-> "SUCCESS",
                         key |-> e.key, value |-> e.value]
          /\ UNCHANGED <<table, spent>>

\* e is the entry that packet p must hit: no key p prefers is in the table.
Best(p, e) ==
    \E i \in DOMAIN Prefers[p] :
        /\ e.key = Prefers[p][i]
        /\ \A j \in 1 .. i - 1 : Prefers[p][j] \notin KeysIn(table)

Lookup(p) ==
    \/ /\ ~\E e \in table : Best(p, e)
       /\ Fail(<<"lookup", p>>, "MISS")
    \/ \E e \in table :
          /\ Best(p, e)
          /\ outcome' = [op |-> <<"lookup", p>>, rc |-> "HIT", value |-> e.value,
                         handle |-> e.handle]
          /\ UNCHANGED <<table, spent>>

\* Calls on the metadata of entries leave the entries themselves alone.
Metadata ==
    \E op \in {<<"set_entry_ttl">>, <<"write_counters">>, <<"reset_counters">>},
       code \in {"SUCCESS", "INVALID_HANDLE"} : Fail(op, code)

Reset ==
    /\ table' = {}
    /\ spent' = {}
    /\ outcome' = [op |-> <<"reset_state">>, rc |-> "SUCCESS"]

Next ==
    \/ \E uk \in UserKeys, v \in Values : Add(uk, v)
    \/ \E h \in Handles : Delete(h) \/ Get(h)
    \/ \E h \in Handles, v \in Values : Modify(h, v)
    \/ \E p \in Packets : Lookup(p)
    \/ Metadata
    \/ Reset

Spec == Init /\ [][Next]_vars
=============================================================================
