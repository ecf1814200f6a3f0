------------------------------- MODULE Daemon -------------------------------
(***************************************************************************)
(* The life of the daemon's process, main.rs: the steps of its start, the  *)
(* four tasks it spawns, SIGTERM and the order in which it stops them,     *)
(* crashes at every step, and the start after that.  Composed with module  *)
(* Operator, whose front ends are two of the tasks.                        *)
(*                                                                         *)
(* Payments are reduced to what a stop can cut in two: a client's handler  *)
(* between the node's answer and its INSERT, and the event loop between    *)
(* the effect of an event and event_handled (module Payments has both in   *)
(* full).  Neither has a point at which a task is dropped in between: the  *)
(* database calls are synchronous and a dropped runtime waits for what is  *)
(* running.                                                                *)
(***************************************************************************)
EXTENDS Operator, Sequences

CONSTANTS
  Public,        \* public nodes connected to on the first start
  Mainnet,       \* bitcoin_network is Network::Bitcoin
  EventKinds,    \* "ok", "missing" (of a payment without a row), "old" (no id)
  MaxKeys, MaxPayments, MaxEvents, MaxStops, MaxCrashes,   \* bounds
  MaxWork        \* bound: requests, payments and events together

ASSUME DaemonConstants ==
  /\ Public \subseteq Peers /\ Mainnet \in BOOLEAN
  /\ EventKinds \subseteq {"ok", "missing", "old"}
  /\ {MaxKeys, MaxPayments, MaxEvents, MaxStops, MaxCrashes, MaxWork}
       \subseteq Nat

VARIABLES
  phase,      \* main's place
  key,        \* the secret key in memory, 0 if none
  keyFile,    \* puncture_secret.key: 0 if there is none, -1 if it is cut short
  task,       \* the tasks: "none", "running", "ended", "panicked"
  cancelled,  \* the CancellationToken
  handler,    \* a client's send: "none", "waiting", "accepted" by the node
  events,     \* the node's persistent queue of events
  loop,       \* process_ldk_events: "idle", "applying", "applied"
  headApplied,              \* history: the effect of events[1] is stored
  paid, recorded,           \* history: payments accepted, and their rows
  redelivered, served, tried, drawn, emitted, stops, crashes

disk == <<keyFile, events>>
history == <<paid, recorded, redelivered, served, tried>>
bounds == <<drawn, emitted, stops, crashes>>
place == <<phase, key, task, cancelled>>
work == <<handler, loop, headApplied>>
daemonVars == <<opVars, place, disk, work, history, bounds>>

Tasks == {"client", "cli", "ui", "events"}

DaemonInit ==
  /\ OperatorInit
  /\ phase = "down" /\ key = 0 /\ keyFile = 0
  /\ task = [t \in Tasks |-> "none"] /\ cancelled = FALSE
  /\ handler = "none" /\ events = <<>> /\ loop = "idle" /\ headApplied = FALSE
  /\ paid = 0 /\ recorded = 0 /\ redelivered = 0
  /\ served = {} /\ tried = FALSE
  /\ drawn = 0 /\ emitted = 0 /\ stops = 0 /\ crashes = 0

-----------------------------------------------------------------------------
(* The start.  Whoever runs the daemon starts it again when it is down.    *)

Quiet == UNCHANGED <<disk, work, history, bounds>>
Opened == UNCHANGED <<wallet, channels, req, requests, raced,
                      ordered, cutOff>>

(* builder.build, node.start_with_runtime.                                 *)
start_node ==
  /\ phase = "down"
  /\ phase' = "started" /\ running' = TRUE
  /\ UNCHANGED <<peer, key, task, cancelled>>
  /\ Opened /\ Quiet

(* Faulty variant: the negation is dropped.                                *)
FirstStart_key == keyFile # 0

(* secret::exists                                                          *)
FirstStart == keyFile = 0

(* A connection that fails is logged; the node forgets it.                 *)
connect_public ==
  /\ phase = "started" /\ phase' = "connected"
  /\ IF FirstStart /\ Mainnet
       THEN /\ tried' = TRUE
            /\ \E S \in SUBSET Public :
                 peer' = [p \in Peers |->
                            IF p \in S THEN "persisted" ELSE peer[p]]
       ELSE UNCHANGED <<peer, tried>>
  /\ UNCHANGED <<running, key, task, cancelled, disk, work, bounds,
                 paid, recorded, redelivered, served>>
  /\ Opened

(* Database::new: the migrations are one transaction each.                 *)
open_database ==
  /\ phase = "connected" /\ phase' = "opened"
  /\ UNCHANGED <<running, peer, key, task, cancelled>>
  /\ Opened /\ Quiet

(* read_or_generate: a file of 32 bytes is the key.                        *)
read_key ==
  /\ phase = "opened" /\ keyFile > 0
  /\ phase' = "keyed" /\ key' = keyFile
  /\ UNCHANGED <<running, peer, task, cancelled>>
  /\ Opened /\ Quiet

(* fs::write creates the file and then fills it.                           *)
create_key ==
  /\ phase = "opened" /\ keyFile = 0 /\ drawn < MaxKeys
  /\ phase' = "writing" /\ key' = drawn + 1 /\ drawn' = drawn + 1
  /\ keyFile' = -1
  /\ UNCHANGED <<running, peer, task, cancelled, events, work, history,
                 emitted, stops, crashes>>
  /\ Opened

(* Faulty variant: the key is generated and never saved.                   *)
KeySaved_not == 0

KeySaved == key

write_key ==
  /\ phase = "writing"
  /\ phase' = "keyed" /\ keyFile' = KeySaved
  /\ UNCHANGED <<running, peer, key, task, cancelled, events, work,
                 history, bounds>>
  /\ Opened

(* The endpoint is bound and the tasks are spawned.  A front end that      *)
(* cannot bind its address panics, and the daemon goes on without it.      *)
spawn_tasks ==
  /\ phase = "keyed" /\ phase' = "serving"
  /\ \E failed \in SUBSET FrontEnds :
       task' = [t \in Tasks |-> IF t \in failed THEN "panicked" ELSE "running"]
  /\ served' = served \cup {key}
  /\ loop' = "idle"
  /\ UNCHANGED <<running, peer, key, cancelled, disk, handler,
                 headApplied, paid, recorded, redelivered, tried, bounds>>
  /\ Opened

-----------------------------------------------------------------------------
(* A process that is gone.  What is on disk stays: the key, the queue of   *)
(* events, the node's peers and channels.                                  *)
ProcessGone ==
  /\ phase' = "down" /\ key' = 0
  /\ running' = FALSE
  /\ task' = [t \in Tasks |-> "none"] /\ cancelled' = FALSE
  /\ req' = [f \in FrontEnds |-> "none"]
  /\ peer' = [p \in Peers |->
                IF peer[p] = "transient" THEN "none" ELSE peer[p]]
  /\ handler' = "none" /\ loop' = "idle"
  /\ UNCHANGED <<wallet, channels, requests, raced, ordered, cutOff,
                 disk, headApplied, history, drawn, emitted>>

Crash ==
  /\ phase # "down" /\ crashes < MaxCrashes
  /\ crashes' = crashes + 1 /\ UNCHANGED stops
  /\ ProcessGone

(* An error of a start step ends main; a key file that is cut short is one *)
(* (`try_into().unwrap()`).                                                *)
start_fails ==
  /\ phase \in {"started", "connected", "opened", "keyed"}
  /\ UNCHANGED <<stops, crashes>>
  /\ ProcessGone

-----------------------------------------------------------------------------
(* Work.                                                                   *)

MoreWork == requests + paid + emitted < MaxWork

(* The database connection is free.                                        *)
DbFree == handler # "accepted"

Client == UNCHANGED <<opVars, place, disk, loop, headApplied, redelivered,
                      served, tried, bounds>>

send_requested ==
  /\ task["client"] = "running" /\ ~cancelled
  /\ handler = "none" /\ paid < MaxPayments /\ MoreWork
  /\ handler' = "waiting"
  /\ UNCHANGED <<paid, recorded>> /\ Client

(* The handler has the connection and calls the node; one that has stopped *)
(* refuses.                                                                *)
send_accepted ==
  /\ handler = "waiting"
  /\ IF running THEN handler' = "accepted" /\ paid' = paid + 1
                ELSE handler' = "none" /\ UNCHANGED paid
  /\ UNCHANGED recorded /\ Client

create_send_payment ==
  /\ handler = "accepted"
  /\ handler' = "none" /\ recorded' = recorded + 1
  /\ UNCHANGED paid /\ Client

NodeEmits(e) ==
  /\ running /\ emitted < MaxEvents /\ MoreWork
  /\ events' = Append(events, e) /\ emitted' = emitted + 1
  /\ UNCHANGED <<opVars, place, keyFile, work, history, drawn, stops, crashes>>

LoopRuns == task["events"] = "running"

(* A sleeping loop wakes up: the event that next_event_async returns.      *)
next_event ==
  /\ LoopRuns /\ loop = "idle" /\ events # <<>>
  /\ loop' = "applying"
  /\ UNCHANGED <<opVars, place, disk, handler, headApplied, history, bounds>>

(* Faulty variant: an error ends the task.                                 *)
AfterError_ends == "ended"

(* An error is logged, and the loop goes on.                               *)
AfterError == "running"

process_ldk_event ==
  /\ LoopRuns /\ loop = "applying" /\ DbFree
  /\ CASE Head(events) = "ok" ->
            /\ loop' = "applied" /\ headApplied' = TRUE /\ UNCHANGED task
            /\ redelivered' = redelivered + (IF headApplied THEN 1 ELSE 0)
       [] Head(events) = "missing" ->
            /\ loop' = "applied"
            /\ task' = [task EXCEPT !["events"] = AfterError]
            /\ UNCHANGED <<headApplied, redelivered>>
       [] OTHER ->
            /\ loop' = "idle"
            /\ task' = [task EXCEPT !["events"] = "panicked"]
            /\ UNCHANGED <<headApplied, redelivered>>
  /\ UNCHANGED <<opVars, phase, key, cancelled, disk, handler, paid,
                 recorded, served, tried, bounds>>

event_handled ==
  /\ LoopRuns /\ loop = "applied"
  /\ loop' = "idle" /\ events' = Tail(events) /\ headApplied' = FALSE
  /\ UNCHANGED <<opVars, place, keyFile, handler, history, bounds>>

-----------------------------------------------------------------------------
(* The stop.                                                               *)

Main == UNCHANGED <<key, opVars, disk, work, history, drawn, emitted, crashes>>

(* SIGTERM, then node.stop.                                                *)
shutdown_signal ==
  /\ phase = "serving" /\ stops < MaxStops
  /\ phase' = "stopping" /\ running' = FALSE /\ stops' = stops + 1
  /\ UNCHANGED <<key, task, cancelled, peer, disk, work, history, drawn,
                 emitted, crashes>>
  /\ Opened

(* Faulty variant: the tasks are waited for before they are told to end.   *)
CancelledFirst_after == FALSE

CancelledFirst == TRUE

cancel ==
  /\ phase = "stopping"
  /\ phase' = "joining" /\ cancelled' = CancelledFirst
  /\ UNCHANGED <<task, stops>> /\ Main

TaskEnds(t) ==
  /\ task' = [task EXCEPT ![t] = "ended"]
  /\ UNCHANGED <<phase, cancelled, stops>> /\ Main

(* run_api leaves its loop and closes the endpoint; the tasks of the       *)
(* connections are not waited for.                                         *)
run_api_ends == task["client"] = "running" /\ cancelled /\ TaskEnds("client")

(* axum's graceful shutdown waits for the request in hand.                 *)
server_ends(f) ==
  task[f] = "running" /\ cancelled /\ req[f] = "none" /\ TaskEnds(f)

(* Faulty variant: the cancellation cuts an event in two.                  *)
MayBreak_anywhere == TRUE

(* select! looks at the token only between events.                         *)
MayBreak == loop = "idle"

loop_ends ==
  /\ LoopRuns /\ cancelled /\ MayBreak
  /\ TaskEnds("events")

(* Faulty variant: the process exits under the handlers' feet.             *)
RuntimeIdle_exit == TRUE

(* Dropping the runtime waits for the handler that is running and drops    *)
(* the ones that wait.                                                     *)
RuntimeIdle == handler # "accepted"

(* main waits for the four tasks one after the other; one that panicked is *)
(* joined with a warning.                                                  *)
exit ==
  /\ phase = "joining"
  /\ \A t \in Tasks : task[t] \in {"ended", "panicked"}
  /\ RuntimeIdle
  /\ UNCHANGED <<stops, crashes>>
  /\ ProcessGone

-----------------------------------------------------------------------------
(* The front ends take requests while their task runs; they finish the     *)
(* ones they have after the cancellation.                                  *)
FrontEndWorks ==
  /\ ~cancelled /\ MoreWork
  /\ \/ task["cli"] = "running" /\ cli_router
     \/ task["ui"] = "running" /\ ui_router
  /\ UNCHANGED <<place, disk, work, history, bounds>>

FrontEndAnswers(f) ==
  /\ task[f] = "running"
  /\ RequestEnds(f)
  /\ UNCHANGED <<place, disk, work, history, bounds>>

NodeWorks ==
  MoreWork /\ NodeActs /\ UNCHANGED <<place, disk, work, history, bounds>>

Starting ==
  \/ start_node \/ connect_public \/ open_database \/ read_key
  \/ create_key \/ write_key \/ spawn_tasks

EventLoop == next_event \/ process_ldk_event \/ event_handled

HandlerRuns == send_accepted \/ create_send_payment

TasksEnd == run_api_ends \/ loop_ends \/ \E f \in FrontEnds : server_ends(f)

Stopping == cancel \/ TasksEnd \/ exit

DaemonNext ==
  \/ Starting \/ start_fails \/ Crash
  \/ send_requested \/ HandlerRuns
  \/ \E e \in EventKinds : NodeEmits(e)
  \/ EventLoop
  \/ shutdown_signal \/ Stopping
  \/ FrontEndWorks \/ \E f \in FrontEnds : FrontEndAnswers(f)
  \/ NodeWorks

(* Threads that are ready run.  The web service of the LSP need not        *)
(* answer; the command line gives up after 30 seconds.                     *)
DaemonFairness ==
  /\ WF_daemonVars(HandlerRuns) /\ WF_daemonVars(Stopping)
  /\ WF_daemonVars(next_event) /\ SF_daemonVars(process_ldk_event)
  /\ WF_daemonVars(event_handled)
  /\ \A f \in FrontEnds :
       WF_daemonVars((req[f] = "drain" \/ f = "cli") /\ FrontEndAnswers(f))

DaemonSpec == DaemonInit /\ [][DaemonNext]_daemonVars /\ DaemonFairness

-----------------------------------------------------------------------------
(* Properties.                                                             *)

(* A payment without a row costs a crash: a stop on SIGTERM never falls    *)
(* between the node's answer and the INSERT, although nobody waits for the *)
(* tasks of the connections (main.rs, client/mod.rs run_api).              *)
StopLeavesNoOrphan ==
  paid <= recorded + crashes + (IF handler = "accepted" THEN 1 ELSE 0)

(* An event is applied a second time only after a crash: a stop finishes   *)
(* the event in hand and tells the node (main.rs process_ldk_events).      *)
RedeliveredOnlyAfterCrash == redelivered <= crashes

(* Users reach the daemon under one key for ever, and a crash that leaves  *)
(* an unusable key file happens only before anybody knew the daemon        *)
(* (puncture-core secret.rs read_or_generate).                             *)
IdentityStable ==
  /\ Cardinality(served) <= 1
  /\ keyFile = -1 => served = {}

(* "On first startup, connect to public nodes": no daemon on the main      *)
(* network serves users that has not tried, whichever of its starts failed *)
(* or crashed (main.rs, secret::exists).                                   *)
PublicNodesTried == Mainnet /\ served # {} => tried

(* A stop comes to its end, with requests in hand, events queued, tasks    *)
(* that panicked and handlers waiting, unless a web page waits for the     *)
(* LSP for ever or the process crashes (main.rs, the order of stop, cancel *)
(* and joins).                                                             *)
ShutdownCompletes ==
  (\A f \in FrontEnds : []<>(req[f] # "order"))
    => (phase = "stopping" ~> phase = "down")

(* A daemon that keeps serving empties the queue: an event whose payment   *)
(* is missing does not stop the loop.  One without a payment id does       *)
(* (main.rs process_ldk_events, process_ldk_event).                        *)
EventsHandled ==
  (<>[](phase = "serving") /\ [](\A i \in DOMAIN events : events[i] # "old"))
    => <>[](events = <<>>)
=============================================================================
