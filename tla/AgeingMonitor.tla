---------------------------- MODULE AgeingMonitor ----------------------------
(***************************************************************************)
(* The ageing monitor (ageing.h, ageing.cpp) at work on a match table.     *)
(*                                                                         *)
(* A sweep thread wakes up at every interval, asks the table for the       *)
(* entries whose timeout has passed and sends the controller a message     *)
(* with the handles it did not report at the previous sweep.  The thread   *)
(* holds the monitor's mutex from one wait to the next, and the table's    *)
(* read lock while it collects the handles: it reads the clock once and    *)
(* looks at one slot after the other, while packets go on hitting entries. *)
(* Clients may change the table again before the handles are reported.  A  *)
(* reset of the context first resets the tables and later the monitor.     *)
(***************************************************************************)
EXTENDS MatchUnit

VARIABLES
    prev_sweep_entries, \* TableData: what the previous sweep reported
    stop_sweep_thread,  \* set by the destructor
    sweeper,            \* "waiting" on stop_condvar, "sweeping", "swept", "joined",
                        \* or "asserted": the process is gone
    todo,               \* slots that sweep_entries has yet to look at
    entries_tmp,        \* handles it has found
    since,              \* ticks since it read the clock
    resetting,          \* P4Objects::reset_state is past the tables
    reported,           \* history: handles of the last sweep's message
    skipped             \* history: expired at the last sweep, not reported

sweep == <<todo, entries_tmp, since>>
monitor == <<prev_sweep_entries, stop_sweep_thread, sweeper, sweep, resetting>>
observed == <<reported, skipped>>
avars == <<vars, monitor, observed>>

AInit ==
    /\ Init
    /\ prev_sweep_entries = {}
    /\ stop_sweep_thread = FALSE
    /\ sweeper = "waiting"
    /\ todo = {} /\ entries_tmp = {} /\ since = 0
    /\ resetting = FALSE
    /\ reported = {}
    /\ skipped = {}

-----------------------------------------------------------------------------
\* The handles a sweep reports: found now, and not reported last time.
News == entries_tmp \ prev_sweep_entries

\* Mutant: what was reported is never forgotten.
RememberForever == prev_sweep_entries' = prev_sweep_entries \cup News

\* do_sweep keeps in prev_sweep_entries the handles it reports, and nothing of
\* what was there before.
Remember == prev_sweep_entries' = News

\* The read lock is taken and the clock read.
SweepBegins ==
    /\ sweeper = "waiting" /\ ~stop_sweep_thread
    /\ sweeper' = "sweeping"
    /\ todo' = handles /\ since' = 0
    /\ UNCHANGED <<vars, prev_sweep_entries, stop_sweep_thread, entries_tmp, resetting, observed>>

\* The next slot in use.  An entry may have been hit by a packet that is younger
\* than the reading of the clock, or the clock may have been set back since its
\* last hit: the assertion fails.
SweepEntry ==
    /\ sweeper = "sweeping" /\ todo # {}
    /\ LET s == CHOOSE t \in todo : \A u \in todo : t <= u
       IN  IF InThePast(s, since)
           THEN /\ todo' = todo \ {s}
                /\ entries_tmp' = entries_tmp \cup
                                  {SweptHandle(t) : t \in {u \in {s} : TimedOut(u, since)}}
                /\ UNCHANGED sweeper
           ELSE sweeper' = "asserted" /\ UNCHANGED <<todo, entries_tmp>>
    /\ UNCHANGED <<vars, prev_sweep_entries, stop_sweep_thread, since, resetting, observed>>

\* The read lock is released.
SweepUnlocks ==
    /\ sweeper = "sweeping" /\ todo = {}
    /\ sweeper' = "swept" /\ since' = 0
    /\ UNCHANGED <<vars, prev_sweep_entries, stop_sweep_thread, todo, entries_tmp, resetting,
                   observed>>

\* The rest of do_sweep touches nothing but the monitor.
Report ==
    /\ sweeper = "swept"
    /\ Remember
    /\ reported' = News
    /\ skipped' = entries_tmp \ News
    /\ entries_tmp' = {}
    /\ sweeper' = "waiting"
    /\ UNCHANGED <<vars, stop_sweep_thread, todo, since, resetting>>

\* The thread finds the flag when it wakes up, and is joined.
SweepLoopExits ==
    /\ sweeper = "waiting"
    /\ stop_sweep_thread
    /\ sweeper' = "joined"
    /\ UNCHANGED <<vars, prev_sweep_entries, stop_sweep_thread, sweep, resetting, observed>>

\* ~AgeingMonitor, when the P4Objects it belongs to is destroyed, and its tables
\* with it.  The flag is set under the mutex, so never during a sweep.
Destroy ==
    /\ sweeper = "waiting" /\ ~stop_sweep_thread /\ ~resetting
    /\ stop_sweep_thread' = TRUE
    /\ UNCHANGED <<vars, prev_sweep_entries, sweeper, sweep, resetting, observed>>

\* Tables and packets are there, and the process is.
Running == ~stop_sweep_thread /\ sweeper # "asserted"

\* P4Objects::reset_state resets the tables, under their write locks, and then the
\* monitor, under its mutex.
ResetTables ==
    /\ Running /\ ~resetting /\ sweeper # "sweeping"
    /\ ResetState
    /\ resetting' = TRUE
    /\ UNCHANGED <<prev_sweep_entries, stop_sweep_thread, sweeper, sweep, observed>>

ResetMonitor ==
    /\ resetting /\ sweeper = "waiting"
    /\ prev_sweep_entries' = {}
    /\ resetting' = FALSE
    /\ reported' = {}
    /\ skipped' = {}
    /\ UNCHANGED <<vars, stop_sweep_thread, sweeper, sweep>>

\* Clients go on beside the monitor, but for the time the sweep holds the lock.  Calls
\* that are refused and packets that miss change nothing, and are left out here.
ClientCalls ==
    /\ Running /\ sweeper # "sweeping"
    /\ \/ \E uk \in UserKeys, v \in Values : AddEntrySucceeds(uk, v)
       \/ \E h \in ClientHandles : handle_status(h) = "SUCCESS" /\ DeleteEntry(h)
       \/ \E h \in ClientHandles, ttl \in Ttls : valid_handle(h.slot) /\ SetEntryTtl(h, ttl)
    /\ UNCHANGED <<monitor, observed>>

PacketHits ==
    /\ Running
    /\ \E p \in Packets, lag \in 0 .. MaxAge : lookup(p) # None /\ Lookup(p, lag)
    /\ UNCHANGED <<monitor, observed>>

Clock ==
    /\ Running
    /\ \E ticks \in {-1, 1} :
          /\ ClockMoves(ticks)
          /\ since' = IF sweeper = "sweeping" THEN since + ticks ELSE since
          /\ since' \in Ages
    /\ UNCHANGED <<prev_sweep_entries, stop_sweep_thread, sweeper, todo, entries_tmp, resetting,
                   observed>>

SweepThread == SweepBegins \/ SweepEntry \/ SweepUnlocks \/ Report \/ SweepLoopExits

ANext ==
    \/ SweepBegins \/ SweepEntry \/ SweepUnlocks \/ Report \/ SweepLoopExits
    \/ Destroy \/ ResetTables \/ ResetMonitor
    \/ ClientCalls \/ PacketHits \/ Clock

\* The sweep thread waits with a deadline, so it keeps waking up; the clock runs.
ASpec == AInit /\ [][ANext]_avars /\ WF_avars(SweepThread)

-----------------------------------------------------------------------------
\* Properties.

\* Two successive sweeps never report the same handle (test_ageing.cpp,
\* NoDuplicate), and never both pass over an expired one: a notification the
\* controller lost or ignored is repeated as long as the entry stays expired.
SweepsAlternate ==
    [][Report => reported \cap reported' = {} /\ skipped \cap skipped' = {}]_avars

\* An entry that stays expired is reported, while the monitor lives and the
\* assertion of sweep_entries does not end the process.
ExpiredIsReported ==
    \A h \in [version : Versions, slot : Slots] :
        h \in Expired ~> \/ h \in reported \/ h \notin Expired
                         \/ stop_sweep_thread \/ sweeper = "asserted"
=============================================================================
