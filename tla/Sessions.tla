------------------------------ MODULE Sessions ------------------------------
(***************************************************************************)
(* One user's connections to the daemon: the daemon's per-user limit and   *)
(* per-connection task (client/mod.rs), the event bus (events.rs), and the *)
(* client library's reconnect task, requests and event reader              *)
(* (puncture-client/src/lib.rs).                                           *)
(*                                                                         *)
(* The user's ledger is a version number that every commit increases; the  *)
(* commit and its event on the bus are one step because the database mutex *)
(* is held over both (module Payments, FeedCurrent).  An event is the      *)
(* version it reports, and the snapshot of balance and payments that opens *)
(* a feed is one event.  The connection task serves one thing at a time:   *)
(* while it writes an event it serves no request.  A lost connection is    *)
(* noticed by each side in a step of its own, so that the client may be    *)
(* back before the daemon has given up the old connection.                 *)
(***************************************************************************)
EXTENDS Integers, Sequences, FiniteSets

CONSTANTS
  MaxConns,        \* bound: connections that exist at the same time
  Limit,           \* simultaneous connections per user (10 in the code)
  Capacity,        \* capacity of the event bus (1000 in the code)
  Credit,          \* streams the client lets the daemon open unread (QUIC)
  RequestKinds,    \* subset of Kinds: what the client's requests run into
  Clones,          \* does the application clone the client's connection?
  MaxCommits,      \* bound: commits to the user's ledger
  MaxOthers,       \* bound: events of other users on the bus
  MaxRequests,     \* bound: requests of the client
  MaxFaults        \* bound: lost connections and daemon restarts

(* "served": answered, with or without a commit; "rejected": too long to   *)
(* read or not a request; "panics": the handler panics (module Payments).  *)
Kinds == {"served", "rejected", "panics"}

ASSUME SessionsConstants ==
  /\ MaxConns \in Nat \ {0} /\ Limit \in Nat \ {0}
  /\ Capacity \in Nat \ {0} /\ Credit \in Nat \ {0}
  /\ RequestKinds \subseteq Kinds /\ Clones \in BOOLEAN
  /\ MaxCommits \in Nat /\ MaxOthers \in Nat
  /\ MaxRequests \in Nat /\ MaxFaults \in Nat

Conns == 1..MaxConns
None == 0          \* no connection
Empty == -1        \* no event in hand
Other == 0         \* an event of another user on the bus

VARIABLES
  version,   \* the user's ledger; 0 before any commit
  bus,       \* every event sent on the broadcast channel since the start
  phase,     \* the daemon's task for a connection
  up,        \* is the QUIC connection open?
  cursor,    \* the task's position on the bus
  hand,      \* event the task took and is writing, or Empty
  wire,      \* events written and not yet read by the client
  counter,   \* the user's entry of the semaphore map
  leaked,    \* history: permits whose task died without giving them back
  aborted,   \* was the client's reconnect task aborted?
  cur,       \* connection in the client's watch channel, or None
  shown,     \* version the client shows
  req,       \* the client's outstanding request
  requests, faults

daemon == <<phase, cursor, hand>>
net == <<up, wire>>
permits == <<counter, leaked>>
client == <<aborted, cur, shown, req, requests>>
vars == <<version, bus, daemon, net, permits, client, faults>>

NoRequest == [state |-> "none", conn |-> None, kind |-> "served"]

(* The permits counted stay within the limit, and every cursor, event and  *)
(* request is one the daemon or the client can hold (client/mod.rs).       *)
TypeOK ==
  /\ version \in 0..MaxCommits
  /\ bus \in Seq(0..MaxCommits)
  /\ phase \in [Conns -> {"none", "incoming", "admitted", "opening", "driving",
                      "stopped"}]
  /\ up \in [Conns -> BOOLEAN]
  /\ cursor \in [Conns -> Nat \ {0}]
  /\ hand \in [Conns -> Empty..MaxCommits]
  /\ wire \in [Conns -> Seq(0..MaxCommits)]
  /\ counter \in 0..Limit /\ leaked \in Nat
  /\ aborted \in BOOLEAN
  /\ cur \in Conns \cup {None}
  /\ shown \in 0..MaxCommits
  /\ req \in [state : {"none", "sent", "answered"}, conn : Conns \cup {None},
              kind : Kinds]
  /\ requests \in 0..MaxRequests /\ faults \in 0..MaxFaults

Init ==
  /\ version = 0 /\ bus = <<>>
  /\ phase = [c \in Conns |-> "none"] /\ up = [c \in Conns |-> FALSE]
  /\ cursor = [c \in Conns |-> 1] /\ hand = [c \in Conns |-> Empty]
  /\ wire = [c \in Conns |-> <<>>]
  /\ counter = 0 /\ leaked = 0
  /\ aborted = FALSE /\ cur = None /\ shown = 0
  /\ req = NoRequest /\ requests = 0 /\ faults = 0

-----------------------------------------------------------------------------
(* The ledger and the bus.                                                 *)

send_event(v) == bus' = Append(bus, v)

Commit ==
  /\ version < MaxCommits
  /\ version' = version + 1
  /\ send_event(version + 1)

(* A payment of this user is received, settled or transferred elsewhere.   *)
LedgerChanges ==
  /\ Commit
  /\ UNCHANGED <<daemon, net, permits, client, faults>>

OtherUsersEvent ==
  /\ Cardinality({i \in 1..Len(bus) : bus[i] = Other}) < MaxOthers
  /\ send_event(Other)
  /\ UNCHANGED <<version, daemon, net, permits, client, faults>>

-----------------------------------------------------------------------------
(* The daemon's task for connection c: handle_connection_inner.            *)

(* The permit of a connection is counted while its task is in one of these.*)
Holding == {"admitted", "opening", "driving", "stopped"}

(* Faulty variant: one connection too many is let in.                      *)
admit_late(c) ==
  /\ phase[c] = "incoming"
  /\ counter <= Limit
  /\ counter' = counter + 1
  /\ phase' = [phase EXCEPT ![c] = "admitted"]
  /\ UNCHANGED <<version, bus, cursor, hand, net, leaked, client, faults>>

(* The map entry stays locked over the test and the increment.             *)
admit(c) ==
  /\ phase[c] = "incoming"
  /\ counter < Limit
  /\ counter' = counter + 1
  /\ phase' = [phase EXCEPT ![c] = "admitted"]
  /\ UNCHANGED <<version, bus, cursor, hand, net, leaked, client, faults>>

(* `ensure!` fails; dropping the connection closes it.                     *)
refuse(c) ==
  /\ phase[c] = "incoming"
  /\ counter >= Limit
  /\ phase' = [phase EXCEPT ![c] = "none"]
  /\ up' = [up EXCEPT ![c] = FALSE]
  /\ UNCHANGED <<version, bus, cursor, hand, wire, permits, client, faults>>

subscribe_to_events(c) ==
  /\ cursor' = [cursor EXCEPT ![c] = Len(bus) + 1]
  /\ UNCHANGED hand

(* Balance and payments, read under the database mutex; the snapshot is    *)
(* the first thing the task writes.                                        *)
take_snapshot(c) ==
  /\ hand' = [hand EXCEPT ![c] = version]
  /\ UNCHANGED cursor

(* Faulty variant: the database is read before the subscription is made.   *)
events_swapped(c) ==
  \/ /\ phase[c] = "admitted"
     /\ phase' = [phase EXCEPT ![c] = "opening"]
     /\ take_snapshot(c)
  \/ /\ phase[c] = "opening"
     /\ phase' = [phase EXCEPT ![c] = "driving"]
     /\ subscribe_to_events(c)

(* The feed is opened in two steps: the task may wait for the database     *)
(* mutex between them.                                                     *)
events(c) ==
  \/ /\ phase[c] = "admitted"
     /\ phase' = [phase EXCEPT ![c] = "opening"]
     /\ subscribe_to_events(c)
  \/ /\ phase[c] = "opening"
     /\ phase' = [phase EXCEPT ![c] = "driving"]
     /\ take_snapshot(c)

open_feed(c) ==
  /\ events(c)
  /\ UNCHANGED <<version, bus, net, permits, client, faults>>

(* The broadcast channel has overwritten an event the task had not read.   *)
Lagged(c) == Len(bus) + 1 - cursor[c] > Capacity

(* Idle: in the select of drive_connection.                                *)
Idle(c) == phase[c] = "driving" /\ hand[c] = Empty

(* The next event of the bus; `filter` drops those of other users.         *)
next_event(c) ==
  /\ Idle(c)
  /\ cursor[c] <= Len(bus)
  /\ ~Lagged(c)
  /\ cursor' = [cursor EXCEPT ![c] = @ + 1]
  /\ hand' = [hand EXCEPT ![c] = IF bus[cursor[c]] = Other
                                 THEN Empty ELSE bus[cursor[c]]]
  /\ UNCHANGED <<version, bus, phase, net, permits, client, faults>>

(* Faulty variant: an event is dropped when no stream can be opened.       *)
write_event_lossy(c) ==
  /\ phase[c] = "driving" /\ hand[c] # Empty
  /\ up[c]
  /\ wire' = IF Len(wire[c]) < Credit
             THEN [wire EXCEPT ![c] = Append(@, hand[c])] ELSE wire
  /\ hand' = [hand EXCEPT ![c] = Empty]
  /\ UNCHANGED <<version, bus, phase, cursor, up, permits, client, faults>>

(* open_uni, write_all, finish: waits for the client's stream credit.      *)
write_event(c) ==
  /\ phase[c] = "driving" /\ hand[c] # Empty
  /\ up[c] /\ Len(wire[c]) < Credit
  /\ wire' = [wire EXCEPT ![c] = Append(@, hand[c])]
  /\ hand' = [hand EXCEPT ![c] = Empty]
  /\ UNCHANGED <<version, bus, phase, cursor, up, permits, client, faults>>

Requested(c, kind) ==
  /\ Idle(c) /\ up[c]
  /\ req.state = "sent" /\ req.conn = c /\ req.kind = kind

(* handle_request: the answer is written whether or not something was      *)
(* committed (an error is an answer too).                                  *)
serve(c) ==
  /\ Requested(c, "served")
  /\ Commit \/ UNCHANGED <<version, bus>>
  /\ req' = [req EXCEPT !.state = "answered"]
  /\ UNCHANGED <<daemon, net, permits, aborted, cur, shown, requests, faults>>

(* The ways out of drive_connection: the connection is gone, the event     *)
(* stream reports a lag, or a request cannot be read.                      *)
DriveEnds(c) ==
  \/ ~up[c]
  \/ Idle(c) /\ Lagged(c)
  \/ Requested(c, "rejected")

(* Faulty variant: the error is returned with `?`, so that the task ends    *)
(* and drops the connection before it gives the permit back.               *)
drive_ends_returns(c) ==
  /\ phase[c] = "driving"
  /\ DriveEnds(c)
  /\ phase' = [phase EXCEPT ![c] = "none"]
  /\ up' = [up EXCEPT ![c] = FALSE]
  /\ hand' = [hand EXCEPT ![c] = Empty]
  /\ UNCHANGED <<version, bus, cursor, wire, permits, client, faults>>

(* The task stops serving the connection but does not close it: it waits   *)
(* in connection.closed().                                                 *)
drive_ends(c) ==
  /\ phase[c] = "driving"
  /\ DriveEnds(c)
  /\ phase' = [phase EXCEPT ![c] = "stopped"]
  /\ hand' = [hand EXCEPT ![c] = Empty]
  /\ UNCHANGED <<version, bus, cursor, net, permits, client, faults>>

(* The permit is given back once the connection is closed.                 *)
connection_closed(c) ==
  /\ phase[c] = "stopped" /\ ~up[c]
  /\ counter' = counter - 1
  /\ phase' = [phase EXCEPT ![c] = "none"]
  /\ UNCHANGED <<version, bus, cursor, hand, net, leaked, client, faults>>

(* The handler panics: the task unwinds, which drops and so closes the     *)
(* connection, and never reaches fetch_sub.                                *)
task_panics(c) ==
  /\ Requested(c, "panics")
  /\ phase' = [phase EXCEPT ![c] = "none"]
  /\ up' = [up EXCEPT ![c] = FALSE]
  /\ leaked' = leaked + 1
  /\ UNCHANGED <<version, bus, cursor, hand, wire, counter, client, faults>>

handle_connection(c) ==
  \/ admit(c) \/ refuse(c) \/ open_feed(c) \/ next_event(c) \/ write_event(c)
  \/ serve(c) \/ drive_ends(c) \/ connection_closed(c) \/ task_panics(c)

-----------------------------------------------------------------------------
(* The client: the reconnect task, the event reader, one request at a time.*)

reconnect(c) ==
  /\ ~aborted /\ cur = None
  /\ phase[c] = "none" /\ ~up[c] /\ req.conn # c
  /\ \A d \in Conns : d < c => phase[d] # "none" \/ req.conn = d
  /\ cur' = c
  /\ phase' = [phase EXCEPT ![c] = "incoming"]
  /\ up' = [up EXCEPT ![c] = TRUE]
  /\ wire' = [wire EXCEPT ![c] = <<>>]
  /\ UNCHANGED <<version, bus, cursor, hand, permits, aborted, shown, req,
                 requests, faults>>

notice_closed ==
  /\ ~aborted /\ cur # None
  /\ ~up[cur]
  /\ cur' = None
  /\ UNCHANGED <<version, bus, daemon, net, permits, aborted, shown, req,
                 requests, faults>>

accept_event ==
  /\ cur # None
  /\ up[cur] /\ wire[cur] # <<>>
  /\ shown' = Head(wire[cur])
  /\ wire' = [wire EXCEPT ![cur] = Tail(@)]
  /\ UNCHANGED <<version, bus, daemon, up, permits, aborted, cur, req, requests,
                 faults>>

(* Without a connection the request fails at once ("Disconnected").        *)
request ==
  /\ cur # None /\ up[cur]
  /\ req.state = "none" /\ requests < MaxRequests
  /\ requests' = requests + 1
  /\ \E k \in RequestKinds :
       req' = [state |-> "sent", conn |-> cur, kind |-> k]
  /\ UNCHANGED <<version, bus, daemon, net, permits, aborted, cur, shown, faults>>

(* Faulty variant: only an answer ends a request.                          *)
Finished_answer == req.state = "answered"

(* The answer is read, or the connection closes first ("Request failed",   *)
(* whether or not the daemon has carried the request out).                 *)
Finished == req.state = "answered" \/ ~up[req.conn]

request_ends ==
  /\ req.state # "none"
  /\ Finished
  /\ req' = NoRequest
  /\ UNCHANGED <<version, bus, daemon, net, permits, aborted, cur, shown,
                 requests, faults>>

(* Drop of any clone of PunctureConnection aborts the task that all clones *)
(* share; the watch channel keeps its last value.                          *)
drop_clone ==
  /\ Clones /\ ~aborted
  /\ aborted' = TRUE
  /\ UNCHANGED <<version, bus, daemon, net, permits, cur, shown, req, requests,
                 faults>>

-----------------------------------------------------------------------------
(* The environment.                                                        *)

ConnectionLost(c) ==
  /\ up[c] /\ faults < MaxFaults
  /\ faults' = faults + 1
  /\ up' = [up EXCEPT ![c] = FALSE]
  /\ UNCHANGED <<version, bus, daemon, wire, permits, client>>

(* A new process: no connection, an empty semaphore map, an empty bus.     *)
DaemonRestarts ==
  /\ faults < MaxFaults
  /\ faults' = faults + 1
  /\ up' = [c \in Conns |-> FALSE]
  /\ phase' = [c \in Conns |-> "none"] /\ hand' = [c \in Conns |-> Empty]
  /\ cursor' = [c \in Conns |-> 1] /\ bus' = <<>>
  /\ counter' = 0 /\ leaked' = 0
  /\ UNCHANGED <<version, wire, client>>

Next ==
  \/ LedgerChanges \/ OtherUsersEvent \/ DaemonRestarts
  \/ \E c \in Conns : handle_connection(c) \/ reconnect(c) \/ ConnectionLost(c)
  \/ notice_closed \/ accept_event \/ request \/ request_ends \/ drop_clone

Spec == Init /\ [][Next]_vars

(* tokio runs every task that is ready, the reconnect loop never gives up, *)
(* and the application keeps calling next_event and awaits its requests.   *)
Fairness ==
  /\ \A c \in Conns : WF_vars(handle_connection(c))
  /\ WF_vars(\E c \in Conns : reconnect(c))
  /\ WF_vars(notice_closed) /\ WF_vars(accept_event) /\ WF_vars(request_ends)

FairSpec == Spec /\ Fairness

-----------------------------------------------------------------------------
(* Properties.                                                             *)

(* The semaphore entry counts the connections whose tasks hold a permit    *)
(* and the permits lost to panics, and nothing else: admitting, refusing,  *)
(* giving up and closing in any order neither lose nor invent a permit     *)
(* (client/mod.rs handle_connection_inner).                                *)
PermitsExact ==
  counter = Cardinality({c \in Conns : phase[c] \in Holding}) + leaked

(* When a task has nothing left to write and the client nothing left to    *)
(* read on the connection it uses, the client shows the ledger as it is:   *)
(* no commit falls between the snapshot and the live events, and no old    *)
(* event is the last one shown (client/mod.rs events, events.rs filter).   *)
DrainedIsCurrent ==
  \A c \in Conns :
    (cur = c /\ up[c] /\ Idle(c) /\ cursor[c] = Len(bus) + 1 /\ wire[c] = <<>>)
      => shown = version

(* A connection the daemon has stopped serving while it is open.           *)
Deserted == \E c \in Conns : phase[c] = "stopped" /\ up[c]

(* The client ends up showing the ledger, whatever was lost on the way, if *)
(* no connection is left deserted for good, the reconnect task lives and   *)
(* panics have not used up the permits (lib.rs reconnect, next_event;      *)
(* client/mod.rs drive_connection).                                        *)
ClientCatchesUp ==
  (<>[](~Deserted) /\ [](~aborted /\ leaked < Limit)) => <>[](shown = version)

(* If no connection is left deserted for good, every request ends: with    *)
(* its answer, or with the error of a closed connection (lib.rs            *)
(* request_json; client/mod.rs handle_request).                            *)
RequestsEnd ==
  <>[](~Deserted) => [](req.state # "none" => <>(req = NoRequest))

(* A connection is refused only while the user has Limit connections, as   *)
(* the error message says (client/mod.rs handle_connection_inner).         *)
RefusedOnlyAtLimit ==
  (\E c \in Conns : phase[c] = "incoming") /\ counter >= Limit
    => Cardinality({c \in Conns : phase[c] \in Holding}) >= Limit
=============================================================================
