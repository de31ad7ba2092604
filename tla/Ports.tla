-------------------------------- MODULE Ports --------------------------------
(***************************************************************************)
(* The ports of a device: the device managers (dev_mgr.cpp,                *)
(* dev_mgr_bmi.cpp, dev_mgr_packet_in.cpp) and the port monitor beside     *)
(* each (port_monitor.cpp).  RPC clients add and remove ports, the packet- *)
(* in manager is also told by messages, and the active monitor of the BMI  *)
(* manager polls the state of the interfaces.                              *)
(*                                                                         *)
(* The monitor is told before the manager tries, and each has a mutex of   *)
(* its own; the listeners are called when the mutex of the monitor is free *)
(* again.  What is sent over the notification socket follows the calls of  *)
(* the listeners and is left out, and so is the end of the process.        *)
(***************************************************************************)
EXTENDS Naturals, Sequences, FiniteSets

CONSTANTS
    PortNums,      \* port numbers
    Clients,       \* connections of the RPC server
    Managers,      \* [kind, enforce]: the managers a switch may be started with
    MaxPortCalls,  \* bound: calls and messages about ports
    MaxFlips       \* bound: times an interface goes up or down

Loop == "receive loop"   \* the thread of the packet-in manager
Threads == Clients \cup {Loop}

VARIABLES
    manager,     \* the manager of this switch
    started,
    curr_ports,  \* of the monitor: port -> it is up
    port_info,   \* of the manager: port -> it is up (the BMI manager asks the BMI)
    bmi,         \* external: the ports the BMI library has
    link,        \* external: [up: the interfaces that are up, flips]
    caller,      \* thread -> the operation it is in
    todo,        \* cbs_todo of the active monitor: port -> event
    heard,       \* port -> the event its listeners were called with last
    crossed,     \* history: ports whose last event was made while another was on its way
    torn,        \* history: ports whose last operation failed half way or met another
    port_calls   \* operations so far

portVars == <<manager, started, curr_ports, port_info, bmi, link, caller, todo, heard,
              crossed, torn, port_calls>>

Idle == [at |-> "idle"]
Nothing == [n \in {} |-> n]
With(f, x, v) == [y \in DOMAIN f \cup {x} |-> IF y = x THEN v ELSE f[y]]
Without(f, x) == [y \in DOMAIN f \ {x} |-> f[y]]

Init ==
    /\ manager \in Managers
    /\ started = FALSE
    /\ curr_ports = Nothing /\ port_info = Nothing /\ bmi = {}
    /\ link = [up |-> {}, flips |-> 0]
    /\ caller = [t \in Threads |-> Idle]
    /\ todo = Nothing
    /\ heard = [n \in PortNums |-> "none"]
    /\ crossed = {} /\ torn = {}
    /\ port_calls = 0

-----------------------------------------------------------------------------
\* Events.

OnItsWay(n) ==
    n \in DOMAIN todo \/ \E t \in Threads : caller[t].at = "event" /\ caller[t].port = n

\* Events were made for the ports in ports.
Made(ports) ==
    crossed' = {n \in PortNums : IF n \in ports THEN OnItsWay(n) ELSE n \in crossed}

\* What notify_ makes of the event: the ports of the monitor afterwards, or those of
\* before when the event does not fit ("Invalid event").
Noted(n, evt) ==
    CASE evt = "ADDED" /\ n \notin DOMAIN curr_ports -> With(curr_ports, n, FALSE)
      [] evt = "REMOVED" /\ n \in DOMAIN curr_ports -> Without(curr_ports, n)
      [] evt \in {"UP", "DOWN"} /\ n \in DOMAIN curr_ports -> With(curr_ports, n, evt = "UP")
      [] OTHER -> curr_ports

Busy(t) == caller[t].at # "idle"
Become(t, r) == caller' = [caller EXCEPT ![t] = r]

\* notify_, under port_mutex.  The dummy monitor of the files manager does nothing.
notify_(t) ==
    LET c == caller[t]
        ports == IF manager.kind = "files" THEN curr_ports ELSE Noted(c.port, Head(c.evts))
    IN /\ c.at = "notify" /\ c.evts # <<>>
       /\ curr_ports' = ports
       /\ IF ports # curr_ports
          THEN Become(t, [c EXCEPT !.at = "event", !.told = TRUE]) /\ Made({c.port})
          ELSE Become(t, [c EXCEPT !.evts = Tail(@)]) /\ UNCHANGED crossed
       /\ UNCHANGED <<manager, started, port_info, bmi, link, todo, heard, torn, port_calls>>

\* event_handler, under cb_map_mutex.
event_handler(t) ==
    LET c == caller[t] IN
    /\ c.at = "event"
    /\ heard' = [heard EXCEPT ![c.port] = Head(c.evts)]
    /\ Become(t, [c EXCEPT !.at = "notify", !.evts = Tail(@)])
    /\ UNCHANGED <<manager, started, curr_ports, port_info, bmi, link, todo, crossed, torn,
                   port_calls>>

-----------------------------------------------------------------------------
\* Operations on a port.

\* An operation begins: it and the ones it meets are not alone with the port.  told:
\* the monitor has taken an event of the operation.
Begin(t, n, op, evts) ==
    LET met == {u \in Threads \ {t} : Busy(u) /\ caller[u].port = n} IN
    /\ port_calls < MaxPortCalls
    /\ port_calls' = port_calls + 1
    /\ caller' = [u \in Threads |->
         IF u = t THEN [at |-> "notify", port |-> n, op |-> op, evts |-> evts,
                        alone |-> met = {}, told |-> FALSE]
         ELSE IF u \in met THEN [caller[u] EXCEPT !.alone = FALSE] ELSE caller[u]]

\* It ends: well, or it failed, and then the monitor may know more than the manager.
End(t, well) ==
    LET c == caller[t] IN
    /\ Become(t, Idle)
    /\ torn' = IF c.alone /\ well THEN torn \ {c.port}
               ELSE IF c.alone /\ ~c.told THEN torn
               ELSE torn \cup {c.port}

\* DevMgrIface::port_add and port_remove, called over RPC or from the command line: the
\* monitor hears first.
port_add(t, n) ==
    /\ ~Busy(t)
    /\ Begin(t, n, "add", <<"ADDED">>)
    /\ UNCHANGED <<manager, started, curr_ports, port_info, bmi, link, todo, heard,
                   crossed, torn>>

port_remove(t, n) ==
    /\ ~Busy(t)
    /\ Begin(t, n, "remove", <<"REMOVED">>)
    /\ UNCHANGED <<manager, started, curr_ports, port_info, bmi, link, todo, heard,
                   crossed, torn>>

\* The manager's turn: port_add_ and port_remove_.
Turn(t, kind, op) ==
    /\ caller[t].at = "notify" /\ caller[t].evts = <<>> /\ t # Loop
    /\ manager.kind = kind /\ caller[t].op = op
    /\ UNCHANGED <<manager, started, curr_ports, link, todo, heard, crossed, port_calls>>

\* The library refuses a number that it has and an interface it cannot open; the
\* manager's map follows in a step of its own.
port_add_bmi(t) ==
    LET n == caller[t].port IN
    /\ Turn(t, "bmi", "add")
    /\ \/ /\ n \notin bmi
          /\ bmi' = bmi \cup {n}
          /\ Become(t, [caller[t] EXCEPT !.at = "info"])
          /\ UNCHANGED torn
       \/ End(t, FALSE) /\ UNCHANGED bmi
    /\ UNCHANGED port_info

port_remove_bmi(t) ==
    LET n == caller[t].port IN
    /\ Turn(t, "bmi", "remove")
    /\ IF n \in bmi
       THEN /\ bmi' = bmi \ {n}
            /\ Become(t, [caller[t] EXCEPT !.at = "info"])
            /\ UNCHANGED torn
       ELSE End(t, FALSE) /\ UNCHANGED bmi
    /\ UNCHANGED port_info

\* port_info.emplace or erase, under the mutex of the manager.
UpdateInfo(t) ==
    LET n == caller[t].port IN
    /\ caller[t].at = "info"
    /\ port_info' = IF caller[t].op = "remove" THEN Without(port_info, n)
                    ELSE IF n \in DOMAIN port_info THEN port_info
                    ELSE With(port_info, n, TRUE)
    /\ End(t, TRUE)
    /\ UNCHANGED <<manager, started, curr_ports, bmi, link, todo, heard, crossed, port_calls>>

\* With packet-in, ports are added and removed by messages: UNSUPPORTED.
port_unsupported(t) ==
    /\ \E op \in {"add", "remove"} : Turn(t, "packet in", op)
    /\ End(t, FALSE)
    /\ UNCHANGED <<port_info, bmi>>

\* std::string of a missing file name throws.
port_add_files(t) ==
    LET n == caller[t].port IN
    /\ Turn(t, "files", "add")
    /\ \/ /\ port_info' = IF n \in DOMAIN port_info THEN port_info ELSE With(port_info, n, TRUE)
          /\ End(t, TRUE)
       \/ End(t, FALSE) /\ UNCHANGED port_info
    /\ UNCHANGED bmi

port_remove_files(t) ==
    /\ Turn(t, "files", "remove")
    /\ End(t, FALSE)
    /\ UNCHANGED <<port_info, bmi>>

\* DevMgrIface::start: the monitor and the receive loop run.
start ==
    /\ ~started
    /\ started' = TRUE
    /\ UNCHANGED <<manager, curr_ports, port_info, bmi, link, caller, todo, heard, crossed,
                   torn, port_calls>>

-----------------------------------------------------------------------------
\* Messages of the packet-in manager.  The map of the manager changes first; a message
\* that does not fit is ignored, and without enforce_ports the monitor is not told.

Told(evts) == IF manager.enforce THEN evts ELSE <<>>

Message(n, op, info, evts) ==
    /\ manager.kind = "packet in" /\ started /\ ~Busy(Loop)
    /\ Begin(Loop, n, op, Told(evts))
    /\ port_info' = info
    /\ UNCHANGED <<manager, started, curr_ports, bmi, link, todo, heard, crossed, torn>>

do_port_add(n) ==
    n \notin DOMAIN port_info
        /\ Message(n, "add", With(port_info, n, TRUE), <<"ADDED", "UP">>)

do_port_remove(n) ==
    n \in DOMAIN port_info /\ Message(n, "remove", Without(port_info, n), <<"REMOVED">>)

do_port_set_status(n, status) ==
    n \in DOMAIN port_info
        /\ Message(n, "status", With(port_info, n, status = "UP"), <<status>>)

\* A message about the status repairs nothing that went wrong before.
Handled ==
    LET c == caller[Loop] IN
    /\ Busy(Loop) /\ c.at = "notify" /\ c.evts = <<>>
    /\ End(Loop, c.op # "status" \/ c.port \notin torn)
    /\ UNCHANGED <<manager, started, curr_ports, port_info, bmi, link, todo, heard, crossed,
                   port_calls>>

-----------------------------------------------------------------------------
\* The active monitor.

flip(n) ==
    /\ link.flips < MaxFlips
    /\ link' = [up |-> IF n \in link.up THEN link.up \ {n} ELSE link.up \cup {n},
                flips |-> link.flips + 1]
    /\ UNCHANGED <<manager, started, curr_ports, port_info, bmi, caller, todo, heard,
                   crossed, torn, port_calls>>

\* port_is_up_ of the BMI manager; a port the library does not have is down.
port_is_up_(n) == n \in bmi /\ n \in link.up

Changed == {n \in DOMAIN curr_ports : port_is_up_(n) # curr_ports[n]}

\* Mutant: the status is not remembered.
PolledForgotten == curr_ports

Polled == [n \in DOMAIN curr_ports |-> port_is_up_(n)]

\* A round of monitor(): all ports under port_mutex.
poll ==
    /\ manager.kind = "bmi" /\ started /\ todo = Nothing
    /\ Changed # {}
    /\ todo' = [n \in Changed |-> IF port_is_up_(n) THEN "UP" ELSE "DOWN"]
    /\ curr_ports' = Polled
    /\ Made(Changed)
    /\ UNCHANGED <<manager, started, port_info, bmi, link, caller, heard, torn, port_calls>>

\* The callbacks, without the lock, in the order of the ports.
callback ==
    \E n \in DOMAIN todo :
        /\ \A k \in DOMAIN todo : n <= k
        /\ heard' = [heard EXCEPT ![n] = todo[n]]
        /\ todo' = Without(todo, n)
        /\ UNCHANGED <<manager, started, curr_ports, port_info, bmi, link, caller, crossed,
                       torn, port_calls>>

-----------------------------------------------------------------------------
Operate(t) ==
    \/ notify_(t) \/ event_handler(t) \/ UpdateInfo(t)
    \/ port_add_bmi(t) \/ port_remove_bmi(t) \/ port_unsupported(t)
    \/ port_add_files(t) \/ port_remove_files(t)

Next ==
    \/ \E t \in Clients, n \in PortNums : port_add(t, n) \/ port_remove(t, n)
    \/ \E t \in Threads : Operate(t)
    \/ start
    \/ \E n \in PortNums :
         \/ do_port_add(n) \/ do_port_remove(n)
         \/ \E status \in {"UP", "DOWN"} : do_port_set_status(n, status)
         \/ flip(n)
    \/ Handled \/ poll \/ callback

-----------------------------------------------------------------------------
\* What the listeners of a port heard last is what the monitor has, once everything
\* made for the port has been heard, unless its last two events were on their way at
\* the same time: they may then arrive in either order.
ListenersInStep ==
    \A n \in PortNums \ crossed : ~OnItsWay(n) =>
        heard[n] \in IF n \notin DOMAIN curr_ports THEN {"none", "REMOVED"}
                     ELSE IF curr_ports[n] THEN {"UP"} ELSE {"ADDED", "DOWN"}

\* Monitor and manager have the same ports, and the BMI library too, except where a
\* call failed after the monitor had been told, or met another call for the port.
ManagerInStep ==
    \A n \in PortNums \ torn : (\A t \in Threads : Busy(t) => caller[t].port # n) =>
        /\ manager.kind = "bmi" =>
              /\ n \in DOMAIN curr_ports <=> n \in bmi
              /\ n \in DOMAIN port_info <=> n \in bmi
        /\ manager.kind = "packet in" /\ manager.enforce =>
              /\ n \in DOMAIN curr_ports <=> n \in DOMAIN port_info
              /\ n \in DOMAIN port_info => curr_ports[n] = port_info[n]

\* The three views of the ports agree: the manager's, the monitor's, the listeners'.
PortsInStep == ListenersInStep /\ ManagerInStep

=============================================================================
