--------------------------- MODULE SessionsProofs ---------------------------
(***************************************************************************)
(* Theorems about module Sessions, for any number of connections, any      *)
(* limit, capacity of the bus and stream credit, and any number of         *)
(* commits, faults and requests.                                           *)
(*                                                                         *)
(* DrainedIsCurrent speaks of the end of a pipeline: the bus from the      *)
(* task's cursor on, the event in the task's hand, the streams on the      *)
(* wire, what the client shows.  What is inductive is that the youngest    *)
(* thing in the pipeline of a connection that is up is the ledger's        *)
(* version (PipelineCurrent), because the last event of this user on the   *)
(* bus always is (BusCurrent), the task's cursor never runs ahead of the   *)
(* bus (CursorsBehind), and the only connection that is up is the one the  *)
(* client uses (UpIsUsed).                                                 *)
(***************************************************************************)
EXTENDS Sessions, FiniteSetTheorems, SequenceTheorems, TLAPS

(* The client gives a connection up only after it was lost                 *)
(* (puncture-client lib.rs, the reconnect task).                           *)
UpIsUsed == \A c \in Conns : up[c] => cur = c

(* A task reads what was sent after it subscribed (events.rs).             *)
CursorsBehind ==
  \A c \in Conns :
    phase[c] \in {"opening", "driving"} => cursor[c] <= Len(bus) + 1

(* The last event of this user on the bus is of the last commit.           *)
BusCurrent ==
  \A i \in 1..Len(bus) :
    bus[i] # Other /\ (\A j \in (i + 1)..Len(bus) : bus[j] = Other)
      => bus[i] = version

(* An event of this user that the task has not taken.                      *)
Waiting(c) == \E i \in cursor[c]..Len(bus) : bus[i] # Other

(* The youngest of what the task took.                                     *)
Taken(c) ==
  IF hand[c] # Empty THEN hand[c]
  ELSE IF wire[c] # <<>> THEN wire[c][Len(wire[c])]
  ELSE shown

PipelineCurrent ==
  \A c \in Conns :
    phase[c] = "driving" /\ up[c] => Waiting(c) \/ Taken(c) = version

PermitsInv == TypeOK /\ PermitsExact

PipelineInv == UpIsUsed /\ CursorsBehind /\ BusCurrent /\ PipelineCurrent

-----------------------------------------------------------------------------
(* Permits.                                                                *)

Holders == {c \in Conns : phase[c] \in Holding}

(* The holders of permits can be counted.                                  *)
LEMMA HoldersFinite == IsFiniteSet(Holders) /\ Cardinality(Holders) \in Nat
<1>1. IsFiniteSet(Conns)
  BY SessionsConstants, FS_Interval DEF Conns
<1>2. Holders \subseteq Conns
  BY DEF Holders
<1> QED BY <1>1, <1>2, FS_Subset, FS_CardinalityType

(* A task that is admitted is one holder more.                             *)
LEMMA HoldersGain ==
  ASSUME TypeOK, NEW c \in Conns, phase[c] \notin Holding,
         phase' = [phase EXCEPT ![c] = "admitted"]
  PROVE  Cardinality(Holders') = Cardinality(Holders) + 1
<1>1. Holders' = Holders \cup {c} /\ c \notin Holders
  BY DEF Holders, Holding, TypeOK
<1> QED BY <1>1, HoldersFinite, FS_AddElement

(* A task that ends is one holder less.                                    *)
LEMMA HoldersLose ==
  ASSUME TypeOK, NEW c \in Conns, phase[c] \in Holding,
         phase' = [phase EXCEPT ![c] = "none"]
  PROVE  /\ Cardinality(Holders') = Cardinality(Holders) - 1
         /\ Cardinality(Holders) \in Nat \ {0}
<1>1. Holders' = Holders \ {c} /\ c \in Holders
  BY DEF Holders, Holding, TypeOK
<1>2. Cardinality(Holders') = Cardinality(Holders) - 1
  BY <1>1, HoldersFinite, FS_RemoveElement
<1>3. Cardinality(Holders) # 0
  BY <1>1, HoldersFinite, FS_EmptySet
<1> QED BY <1>2, <1>3, HoldersFinite

(* A task that moves on keeps its permit.                                  *)
LEMMA HoldersSame ==
  ASSUME TypeOK, NEW c \in Conns, NEW s, s \in Holding <=> phase[c] \in Holding,
         phase' = [phase EXCEPT ![c] = s]
  PROVE  Holders' = Holders
BY DEF Holders, Holding, TypeOK

(* Which steps touch the permits, and how.                                 *)
LEMMA PermitKinds ==
  ASSUME TypeOK, [Next]_vars
  PROVE  \/ UNCHANGED <<counter, leaked>> /\ Holders' = Holders
         \/ \E c \in Conns : admit(c) \/ connection_closed(c) \/ task_panics(c)
         \/ DaemonRestarts
<1>1. CASE UNCHANGED <<permits, phase>>
  BY <1>1 DEF permits, Holders
<1>2. ASSUME NEW c \in Conns, NEW s, s \in Holding <=> phase[c] \in Holding,
             phase' = [phase EXCEPT ![c] = s], UNCHANGED permits
      PROVE  UNCHANGED <<counter, leaked>> /\ Holders' = Holders
  BY <1>2, HoldersSame DEF permits
<1>3. ASSUME NEW c \in Conns, refuse(c) \/ open_feed(c) \/ drive_ends(c) \/ reconnect(c)
      PROVE  UNCHANGED <<counter, leaked>> /\ Holders' = Holders
  <2>1. UNCHANGED permits
    BY <1>3 DEF refuse, open_feed, drive_ends, reconnect
  <2>2. CASE refuse(c) \/ reconnect(c)
    BY <1>2, <2>1, <2>2 DEF refuse, reconnect, Holding
  <2>3. CASE open_feed(c)
    BY <1>2, <2>1, <2>3 DEF open_feed, events, Holding
  <2>4. CASE drive_ends(c)
    BY <1>2, <2>1, <2>4 DEF drive_ends, Holding
  <2> QED BY <1>3, <2>2, <2>3, <2>4
<1>4. ASSUME NEW c \in Conns,
             next_event(c) \/ write_event(c) \/ serve(c) \/ ConnectionLost(c)
      PROVE  UNCHANGED <<permits, phase>>
  BY <1>4 DEF next_event, write_event, serve, ConnectionLost, daemon
<1>5. ASSUME \/ LedgerChanges \/ OtherUsersEvent \/ notice_closed \/ accept_event
             \/ request \/ request_ends \/ drop_clone \/ UNCHANGED vars
      PROVE  UNCHANGED <<permits, phase>>
  BY <1>5 DEF LedgerChanges, OtherUsersEvent, notice_closed, accept_event, request,
              request_ends, drop_clone, vars, daemon
<1> QED BY <1>1, <1>3, <1>4, <1>5 DEF Next, handle_connection

(* Every step keeps the count of permits exact, and in range.              *)
LEMMA PermitsStep == TypeOK /\ PermitsExact /\ [Next]_vars =>
                       PermitsExact' /\ counter' \in 0..Limit /\ leaked' \in Nat
<1> SUFFICES ASSUME TypeOK, PermitsExact, [Next]_vars
             PROVE  PermitsExact' /\ counter' \in 0..Limit /\ leaked' \in Nat
  OBVIOUS
<1>1. /\ counter \in 0..Limit /\ leaked \in Nat /\ Limit \in Nat
      /\ counter = Cardinality(Holders) + leaked
      /\ Cardinality(Holders) \in Nat
  BY HoldersFinite, SessionsConstants DEF TypeOK, PermitsExact, Holders
<1>2. SUFFICES /\ counter' = Cardinality(Holders') + leaked'
               /\ counter' \in 0..Limit /\ leaked' \in Nat
  BY DEF PermitsExact, Holders
<1>3. CASE UNCHANGED <<counter, leaked>> /\ Holders' = Holders
  BY <1>1, <1>3
<1>4. ASSUME NEW c \in Conns, admit(c)
      PROVE  /\ counter' = Cardinality(Holders') + leaked'
             /\ counter' \in 0..Limit /\ leaked' \in Nat
  <2>1. Cardinality(Holders') = Cardinality(Holders) + 1
    BY <1>4, HoldersGain DEF admit, Holding
  <2>2. counter < Limit /\ counter' = counter + 1 /\ leaked' = leaked
    BY <1>4 DEF admit
  <2> QED BY <1>1, <2>1, <2>2
<1>5. ASSUME NEW c \in Conns, connection_closed(c)
      PROVE  /\ counter' = Cardinality(Holders') + leaked'
             /\ counter' \in 0..Limit /\ leaked' \in Nat
  <2>1. /\ Cardinality(Holders') = Cardinality(Holders) - 1
        /\ Cardinality(Holders) \in Nat \ {0}
    BY <1>5, HoldersLose DEF connection_closed, Holding
  <2>2. counter' = counter - 1 /\ leaked' = leaked
    BY <1>5 DEF connection_closed
  <2> QED BY <1>1, <2>1, <2>2
<1>6. ASSUME NEW c \in Conns, task_panics(c)
      PROVE  /\ counter' = Cardinality(Holders') + leaked'
             /\ counter' \in 0..Limit /\ leaked' \in Nat
  <2>1. /\ Cardinality(Holders') = Cardinality(Holders) - 1
        /\ Cardinality(Holders) \in Nat \ {0}
    BY <1>6, HoldersLose DEF task_panics, Requested, Idle, Holding
  <2>2. counter' = counter /\ leaked' = leaked + 1
    BY <1>6 DEF task_panics
  <2> QED BY <1>1, <2>1, <2>2
<1>7. CASE DaemonRestarts
  <2>1. Holders' = {}
    BY <1>7 DEF DaemonRestarts, Holders, Holding
  <2>2. counter' = 0 /\ leaked' = 0
    BY <1>7 DEF DaemonRestarts
  <2> QED BY <1>1, <2>1, <2>2, FS_EmptySet
<1> QED BY <1>3, <1>4, <1>5, <1>6, <1>7, PermitKinds

-----------------------------------------------------------------------------
(* Types.                                                                  *)

(* Versions of the ledger are naturals.                                    *)
LEMMA Versions == \A v : v \in 0..MaxCommits => v \in Nat /\ v \in Empty..MaxCommits
BY SessionsConstants DEF Empty

(* A commit keeps version and bus typed.                                   *)
LEMMA CommitTypes ==
  ASSUME TypeOK, Commit
  PROVE  version' \in 0..MaxCommits /\ bus' \in Seq(0..MaxCommits)
<1>1. version + 1 \in 0..MaxCommits
  BY SessionsConstants DEF Commit, TypeOK
<1> QED BY <1>1, AppendProperties DEF Commit, send_event, TypeOK

(* Every step preserves the types.                                         *)
LEMMA SessionsTypeStep == TypeOK /\ PermitsExact /\ [Next]_vars => TypeOK'
<1> SUFFICES ASSUME TypeOK, PermitsExact, [Next]_vars PROVE TypeOK'
  OBVIOUS
<1>1. counter' \in 0..Limit /\ leaked' \in Nat
  BY PermitsStep
<1> USE DEF TypeOK
<1>2. CASE LedgerChanges
  BY <1>2, CommitTypes DEF LedgerChanges, daemon, net, permits, client
<1>3. CASE OtherUsersEvent
  <2>1. bus' \in Seq(0..MaxCommits)
    BY <1>3, SessionsConstants, AppendProperties DEF OtherUsersEvent, send_event, Other
  <2> QED BY <1>3, <2>1 DEF OtherUsersEvent, daemon, net, permits, client
<1>4. ASSUME NEW c \in Conns,
             admit(c) \/ refuse(c) \/ drive_ends(c) \/ connection_closed(c)
               \/ task_panics(c)
      PROVE  TypeOK'
  <2>1. \E s \in {"none", "admitted", "stopped"} : phase' = [phase EXCEPT ![c] = s]
    BY <1>4 DEF admit, refuse, drive_ends, connection_closed, task_panics
  <2>2. phase' \in [Conns -> {"none", "incoming", "admitted", "opening",
                              "driving", "stopped"}]
    BY <2>1
  <2>3. up' = up \/ up' = [up EXCEPT ![c] = FALSE]
    BY <1>4 DEF admit, refuse, drive_ends, connection_closed, task_panics, net
  <2>4. up' \in [Conns -> BOOLEAN]
    BY <2>3
  <2>5. hand' = hand \/ hand' = [hand EXCEPT ![c] = Empty]
    BY <1>4 DEF admit, refuse, drive_ends, connection_closed, task_panics
  <2>6. hand' \in [Conns -> Empty..MaxCommits]
    <3>1. Empty \in Empty..MaxCommits
      BY SessionsConstants DEF Empty
    <3> QED BY <2>5, <3>1
  <2>7. UNCHANGED <<version, bus, cursor, wire, client, faults>>
    <3>1. CASE admit(c) \/ drive_ends(c) \/ connection_closed(c)
      BY <3>1 DEF admit, drive_ends, connection_closed, net
    <3>2. CASE refuse(c) \/ task_panics(c)
      BY <3>2 DEF refuse, task_panics
    <3> QED BY <1>4, <3>1, <3>2
  <2> QED BY <1>1, <2>2, <2>4, <2>6, <2>7 DEF client
<1>5. ASSUME NEW c \in Conns, open_feed(c) PROVE TypeOK'
  <2>1. Len(bus) + 1 \in Nat \ {0} /\ version \in Empty..MaxCommits
    <3>1. version \in Empty..MaxCommits
      BY Versions
    <3>2. Len(bus) \in Nat
      BY LenProperties
    <3> QED BY <3>1, <3>2
  <2>2. /\ phase' \in [Conns -> {"none", "incoming", "admitted", "opening",
                                 "driving", "stopped"}]
        /\ cursor' \in [Conns -> Nat \ {0}]
        /\ hand' \in [Conns -> Empty..MaxCommits]
    <3>1. CASE phase[c] = "admitted"
      BY <1>5, <2>1, <3>1, ZenonT(30) DEF open_feed, events, subscribe_to_events
    <3>2. CASE phase[c] = "opening"
      BY <1>5, <2>1, <3>2, ZenonT(30) DEF open_feed, events, take_snapshot
    <3> QED BY <1>5, <3>1, <3>2 DEF open_feed, events
  <2> QED BY <1>5, <2>2 DEF open_feed, net, permits, client
<1>6. ASSUME NEW c \in Conns, next_event(c) PROVE TypeOK'
  <2>1. bus[cursor[c]] \in Empty..MaxCommits /\ Empty \in Empty..MaxCommits
    <3>1. cursor[c] \in 1..Len(bus)
      BY <1>6 DEF next_event
    <3> QED BY <3>1, Versions, SessionsConstants, SMTT(30) DEF Empty
  <2>2. cursor[c] + 1 \in Nat \ {0}
    BY SMTT(30)
  <2>3. hand' \in [Conns -> Empty..MaxCommits] /\ cursor' \in [Conns -> Nat \ {0}]
    BY <1>6, <2>1, <2>2 DEF next_event
  <2> QED BY <1>6, <2>3 DEF next_event, net, permits, client
<1>7. ASSUME NEW c \in Conns, write_event(c) PROVE TypeOK'
  <2>1. hand[c] \in 0..MaxCommits /\ Empty \in Empty..MaxCommits
    BY <1>7, SessionsConstants DEF write_event, Empty
  <2>2. Append(wire[c], hand[c]) \in Seq(0..MaxCommits)
    BY <2>1, AppendProperties
  <2>3. hand' \in [Conns -> Empty..MaxCommits] /\ wire' \in [Conns -> Seq(0..MaxCommits)]
    BY <1>7, <2>1, <2>2 DEF write_event
  <2> QED BY <1>7, <2>3 DEF write_event, permits, client
<1>8. ASSUME NEW c \in Conns, serve(c) PROVE TypeOK'
  <2>1. version' \in 0..MaxCommits /\ bus' \in Seq(0..MaxCommits)
    BY <1>8, CommitTypes DEF serve
  <2>2. req' \in [state : {"none", "sent", "answered"}, conn : Conns \cup {None},
                  kind : Kinds]
    BY <1>8 DEF serve
  <2> QED BY <1>8, <2>1, <2>2 DEF serve, daemon, net, permits
<1>9. ASSUME NEW c \in Conns, reconnect(c) PROVE TypeOK'
  <2>1. <<>> \in Seq(0..MaxCommits)
    OBVIOUS
  <2> QED BY <1>9, <2>1 DEF reconnect, permits
<1>10. CASE notice_closed \/ drop_clone
  BY <1>10 DEF notice_closed, drop_clone, daemon, net, permits
<1>11. CASE accept_event
  <2>1. cur \in Conns /\ wire[cur] # <<>>
    BY <1>11 DEF accept_event
  <2>2. Head(wire[cur]) \in 0..MaxCommits /\ Tail(wire[cur]) \in Seq(0..MaxCommits)
    BY <2>1, HeadTailProperties
  <2>3. shown' \in 0..MaxCommits /\ wire' \in [Conns -> Seq(0..MaxCommits)]
    BY <1>11, <2>1, <2>2 DEF accept_event
  <2> QED BY <1>11, <2>3 DEF accept_event, daemon, permits
<1>12. CASE request
  BY <1>12, SessionsConstants DEF request, daemon, net, permits
<1>13. CASE request_ends
  BY <1>13, SessionsConstants DEF request_ends, NoRequest, Kinds, daemon, net, permits
<1>14. ASSUME NEW c \in Conns, ConnectionLost(c) PROVE TypeOK'
  BY <1>14, SessionsConstants DEF ConnectionLost, daemon, permits, client
<1>15. CASE DaemonRestarts
  <2>1. Empty \in Empty..MaxCommits /\ <<>> \in Seq(0..MaxCommits)
    BY SessionsConstants DEF Empty
  <2> QED BY <1>1, <1>15, <2>1, SessionsConstants DEF DaemonRestarts, client
<1>16. CASE UNCHANGED vars
  BY <1>16 DEF vars, daemon, net, permits, client
<1> QED
  BY <1>2, <1>3, <1>4, <1>5, <1>6, <1>7, <1>8, <1>9, <1>10, <1>11, <1>12, <1>13,
     <1>14, <1>15, <1>16
  DEF Next, handle_connection

-----------------------------------------------------------------------------
(* The connection the client uses.                                         *)

(* Every step preserves UpIsUsed.                                          *)
LEMMA UpIsUsedStep == TypeOK /\ UpIsUsed /\ [Next]_vars => UpIsUsed'
<1> SUFFICES ASSUME TypeOK, UpIsUsed, [Next]_vars PROVE UpIsUsed'
  OBVIOUS
<1>1. ASSUME UNCHANGED cur,
             UNCHANGED up \/ (\E c \in Conns : up' = [up EXCEPT ![c] = FALSE])
               \/ up' = [c \in Conns |-> FALSE]
      PROVE  UpIsUsed'
  BY <1>1 DEF UpIsUsed, TypeOK
<1>2. ASSUME NEW c \in Conns, reconnect(c) PROVE UpIsUsed'
  <2>1. cur = None /\ cur' = c /\ up' = [up EXCEPT ![c] = TRUE]
    BY <1>2 DEF reconnect
  <2>2. \A d \in Conns : ~up[d]
    BY <2>1 DEF UpIsUsed, Conns, None
  <2> QED BY <2>1, <2>2 DEF UpIsUsed, TypeOK
<1>3. CASE notice_closed
  BY <1>3 DEF notice_closed, net, UpIsUsed
<1>4. ASSUME NEW c \in Conns, handle_connection(c) \/ ConnectionLost(c)
      PROVE  /\ UNCHANGED cur
             /\ UNCHANGED up \/ up' = [up EXCEPT ![c] = FALSE]
  BY <1>4 DEF handle_connection, ConnectionLost, admit, refuse, open_feed,
              next_event, write_event, serve, drive_ends, connection_closed,
              task_panics, net, client
<1>5. ASSUME \/ LedgerChanges \/ OtherUsersEvent \/ accept_event \/ request
             \/ request_ends \/ drop_clone \/ UNCHANGED vars
      PROVE  UNCHANGED <<cur, up>>
  BY <1>5 DEF LedgerChanges, OtherUsersEvent, accept_event, request, request_ends,
              drop_clone, vars, net, client
<1>6. ASSUME DaemonRestarts PROVE up' = [c \in Conns |-> FALSE] /\ UNCHANGED cur
  BY <1>6 DEF DaemonRestarts, client
<1> QED BY <1>1, <1>2, <1>3, <1>4, <1>5, <1>6 DEF Next

-----------------------------------------------------------------------------
(* The bus.                                                                *)

(* The bus grows by a commit or by an event of another user, or is empty   *)
(* after a restart.                                                        *)
LEMMA BusKinds ==
  ASSUME [Next]_vars
  PROVE  \/ UNCHANGED <<bus, version>>
         \/ Commit
         \/ bus' = Append(bus, Other) /\ UNCHANGED version
         \/ DaemonRestarts
BY DEF Next, LedgerChanges, OtherUsersEvent, send_event, handle_connection,
       ConnectionLost, reconnect, admit, refuse, open_feed, next_event,
       write_event, serve, drive_ends, connection_closed, task_panics,
       notice_closed, accept_event, request, request_ends, drop_clone, vars

(* What Append does, place by place.                                       *)
LEMMA Appended ==
  ASSUME TypeOK, NEW v \in 0..MaxCommits, bus' = Append(bus, v)
  PROVE  /\ Len(bus') = Len(bus) + 1 /\ Len(bus) \in Nat
         /\ \A i \in 1..Len(bus) : bus'[i] = bus[i]
         /\ bus'[Len(bus) + 1] = v
BY AppendProperties, LenProperties DEF TypeOK

(* Every step preserves BusCurrent.                                        *)
LEMMA BusStep == TypeOK /\ BusCurrent /\ [Next]_vars => BusCurrent'
<1> SUFFICES ASSUME TypeOK, BusCurrent, [Next]_vars PROVE BusCurrent'
  OBVIOUS
<1>1. CASE UNCHANGED <<bus, version>>
  BY <1>1 DEF BusCurrent
<1>2. CASE Commit
  <2>1. version + 1 \in 0..MaxCommits /\ version + 1 # Other
    BY <1>2, SessionsConstants DEF Commit, TypeOK, Other
  <2>2. /\ Len(bus') = Len(bus) + 1 /\ Len(bus) \in Nat
        /\ bus'[Len(bus) + 1] = version + 1
    BY <1>2, <2>1, Appended DEF Commit, send_event
  <2>3. version' = version + 1
    BY <1>2 DEF Commit
  <2>4. ASSUME NEW i \in 1..Len(bus'),
               \A j \in (i + 1)..Len(bus') : bus'[j] = Other
        PROVE  bus'[i] = version'
    <3>1. i = Len(bus) + 1
      BY <2>1, <2>2, <2>4
    <3> QED BY <2>2, <2>3, <3>1
  <2> QED BY <2>4 DEF BusCurrent
<1>3. CASE bus' = Append(bus, Other) /\ UNCHANGED version
  <2>1. Other \in 0..MaxCommits
    BY SessionsConstants DEF Other
  <2>2. /\ Len(bus') = Len(bus) + 1 /\ Len(bus) \in Nat
        /\ \A i \in 1..Len(bus) : bus'[i] = bus[i]
        /\ bus'[Len(bus) + 1] = Other
    BY <1>3, <2>1, Appended
  <2>3. ASSUME NEW i \in 1..Len(bus'), bus'[i] # Other,
               \A j \in (i + 1)..Len(bus') : bus'[j] = Other
        PROVE  bus'[i] = version'
    <3>1. i \in 1..Len(bus) /\ bus[i] # Other
      BY <2>2, <2>3
    <3>2. \A j \in (i + 1)..Len(bus) : bus[j] = Other
      BY <2>2, <2>3
    <3> QED BY <1>3, <2>2, <3>1, <3>2 DEF BusCurrent
  <2> QED BY <2>3 DEF BusCurrent
<1>4. CASE DaemonRestarts
  BY <1>4 DEF DaemonRestarts, BusCurrent
<1> QED BY <1>1, <1>2, <1>3, <1>4, BusKinds

(* The bus never shrinks under a task.                                     *)
LEMMA BusGrows ==
  ASSUME TypeOK, [Next]_vars, ~DaemonRestarts
  PROVE  /\ Len(bus) \in Nat /\ Len(bus') \in Nat /\ Len(bus') >= Len(bus)
         /\ \A i \in 1..Len(bus) : bus'[i] = bus[i]
<1>1. Len(bus) \in Nat
  BY LenProperties DEF TypeOK
<1>2. CASE Commit
  <2>1. version + 1 \in 0..MaxCommits
    BY <1>2, SessionsConstants DEF Commit, TypeOK
  <2> QED BY <1>1, <1>2, <2>1, Appended DEF Commit, send_event
<1>3. CASE bus' = Append(bus, Other)
  <2>1. Other \in 0..MaxCommits
    BY SessionsConstants DEF Other
  <2> QED BY <1>1, <1>3, <2>1, Appended
<1>4. CASE UNCHANGED bus
  BY <1>1, <1>4
<1> QED BY <1>2, <1>3, <1>4, BusKinds

(* The tasks that may be behind, and who moves a cursor.                   *)
LEMMA CursorKinds ==
  ASSUME TypeOK, [Next]_vars, ~DaemonRestarts, NEW d \in Conns,
         phase'[d] \in {"opening", "driving"}
  PROVE  \/ open_feed(d) \/ next_event(d)
         \/ UNCHANGED <<phase[d], cursor[d]>>
<1>1. ASSUME NEW c \in Conns, handle_connection(c), ~open_feed(c), ~next_event(c)
      PROVE  UNCHANGED <<phase[d], cursor[d]>>
  BY <1>1 DEF handle_connection, admit, refuse, write_event, serve, drive_ends,
              connection_closed, task_panics, daemon, TypeOK
<1>2. ASSUME NEW c \in Conns, open_feed(c) \/ next_event(c), c # d
      PROVE  UNCHANGED <<phase[d], cursor[d]>>
  BY <1>2 DEF open_feed, events, subscribe_to_events, take_snapshot, next_event,
              TypeOK
<1>3. ASSUME NEW c \in Conns, reconnect(c) PROVE UNCHANGED <<phase[d], cursor[d]>>
  BY <1>3 DEF reconnect, TypeOK
<1>4. ASSUME \/ LedgerChanges \/ OtherUsersEvent \/ notice_closed \/ accept_event
             \/ request \/ request_ends \/ drop_clone \/ UNCHANGED vars
             \/ \E c \in Conns : ConnectionLost(c)
      PROVE  UNCHANGED <<phase[d], cursor[d]>>
  BY <1>4 DEF LedgerChanges, OtherUsersEvent, notice_closed, accept_event, request,
              request_ends, drop_clone, ConnectionLost, vars, daemon
<1> QED BY <1>1, <1>2, <1>3, <1>4 DEF Next

(* Every step preserves CursorsBehind.                                     *)
LEMMA CursorsStep == TypeOK /\ CursorsBehind /\ [Next]_vars => CursorsBehind'
<1> SUFFICES ASSUME TypeOK, CursorsBehind, [Next]_vars,
                    NEW d \in Conns, phase'[d] \in {"opening", "driving"}
             PROVE  cursor'[d] <= Len(bus') + 1
  BY DEF CursorsBehind
<1>1. ~DaemonRestarts
  BY DEF DaemonRestarts
<1>2. Len(bus) \in Nat /\ Len(bus') \in Nat /\ Len(bus') >= Len(bus)
  BY <1>1, BusGrows
<1>3. cursor[d] \in Nat
  BY DEF TypeOK
<1>4. CASE open_feed(d)
  <2>1. CASE phase[d] = "admitted"
    BY <1>2, <1>4, <2>1 DEF open_feed, events, subscribe_to_events, TypeOK
  <2>2. CASE phase[d] = "opening"
    BY <1>2, <1>3, <1>4, <2>2 DEF open_feed, events, take_snapshot, CursorsBehind
  <2> QED BY <1>4, <2>1, <2>2 DEF open_feed, events
<1>5. CASE next_event(d)
  BY <1>2, <1>3, <1>5 DEF next_event, TypeOK
<1>6. CASE UNCHANGED <<phase[d], cursor[d]>>
  BY <1>2, <1>3, <1>6 DEF CursorsBehind
<1> QED BY <1>1, <1>4, <1>5, <1>6, CursorKinds

-----------------------------------------------------------------------------
(* The pipeline.                                                           *)

(* Who moves something along the pipeline of a connection that is served.  *)
LEMMA PipelineKinds ==
  ASSUME TypeOK, [Next]_vars, NEW d \in Conns, phase'[d] = "driving", up'[d]
  PROVE  \/ open_feed(d) \/ next_event(d) \/ write_event(d) \/ accept_event
         \/ /\ phase[d] = "driving" /\ up[d]
            /\ UNCHANGED <<cursor[d], hand[d], wire[d], shown>>
<1>1. ASSUME NEW c \in Conns, c # d, handle_connection(c) \/ reconnect(c)
      PROVE  UNCHANGED <<phase[d], up[d], cursor[d], hand[d], wire[d], shown>>
  <2>1. CASE admit(c) \/ refuse(c) \/ drive_ends(c) \/ connection_closed(c)
             \/ task_panics(c)
    BY <1>1, <2>1 DEF admit, refuse, drive_ends, connection_closed, task_panics,
                      net, client, TypeOK
  <2>2. CASE open_feed(c) \/ next_event(c)
    BY <1>1, <2>2 DEF open_feed, events, subscribe_to_events, take_snapshot,
                      next_event, net, client, TypeOK
  <2>3. CASE write_event(c) \/ serve(c)
    BY <1>1, <2>3 DEF write_event, serve, daemon, net, client, TypeOK
  <2>4. CASE reconnect(c)
    BY <1>1, <2>4 DEF reconnect, TypeOK
  <2> QED BY <1>1, <2>1, <2>2, <2>3, <2>4 DEF handle_connection
<1>2. ASSUME handle_connection(d), ~open_feed(d), ~next_event(d), ~write_event(d)
      PROVE  UNCHANGED <<phase[d], up[d], cursor[d], hand[d], wire[d], shown>>
  <2>1. serve(d)
    BY <1>2 DEF handle_connection, admit, refuse, drive_ends, connection_closed,
                task_panics, TypeOK
  <2> QED BY <2>1 DEF serve, daemon, net
<1>3. ~reconnect(d)
  BY DEF reconnect, TypeOK
<1>4. ASSUME NEW c \in Conns, ConnectionLost(c)
      PROVE  UNCHANGED <<phase[d], up[d], cursor[d], hand[d], wire[d], shown>>
  BY <1>4 DEF ConnectionLost, daemon, client, TypeOK
<1>5. ASSUME \/ LedgerChanges \/ OtherUsersEvent \/ notice_closed
             \/ request \/ request_ends \/ drop_clone \/ UNCHANGED vars
      PROVE  UNCHANGED <<phase[d], up[d], cursor[d], hand[d], wire[d], shown>>
  BY <1>5 DEF LedgerChanges, OtherUsersEvent, notice_closed, request, request_ends,
              drop_clone, vars, daemon, net, client
<1>6. ~DaemonRestarts
  BY DEF DaemonRestarts
<1>7. UNCHANGED <<phase[d], up[d], cursor[d], hand[d], wire[d], shown>>
        => phase[d] = "driving" /\ up[d]
           /\ UNCHANGED <<cursor[d], hand[d], wire[d], shown>>
  OBVIOUS
<1> QED BY <1>1, <1>2, <1>3, <1>4, <1>5, <1>6, <1>7 DEF Next

(* Every step preserves PipelineCurrent.                                   *)
LEMMA PipelineStep ==
  TypeOK /\ PipelineInv /\ [Next]_vars => PipelineCurrent'
<1> SUFFICES ASSUME TypeOK, PipelineInv, [Next]_vars,
                    NEW d \in Conns, phase'[d] = "driving", up'[d]
             PROVE  Waiting(d)' \/ Taken(d)' = version'
  BY DEF PipelineCurrent
<1>1. UpIsUsed /\ CursorsBehind /\ BusCurrent /\ PipelineCurrent
  BY DEF PipelineInv
<1>2. ~DaemonRestarts
  BY DEF DaemonRestarts
<1>3. /\ Len(bus) \in Nat /\ Len(bus') \in Nat /\ Len(bus') >= Len(bus)
      /\ \A i \in 1..Len(bus) : bus'[i] = bus[i]
  BY <1>2, BusGrows
<1>4. /\ cursor[d] \in Nat \ {0} /\ version \in 0..MaxCommits
      /\ hand[d] \in Empty..MaxCommits /\ MaxCommits \in Nat
      /\ wire[d] \in Seq(0..MaxCommits)
  BY SessionsConstants DEF TypeOK
<1>5. version # Empty
  BY <1>4 DEF Empty
<1>6. CASE open_feed(d)
  <2>1. phase[d] = "opening" /\ hand' = [hand EXCEPT ![d] = version] /\ version' = version
    BY <1>6 DEF open_feed, events, take_snapshot, TypeOK
  <2>2. hand'[d] = version'
    BY <2>1 DEF TypeOK
  <2> QED BY <1>5, <2>1, <2>2 DEF Taken
<1>7. CASE next_event(d)
  <2> DEFINE e == bus[cursor[d]]
  <2>1. /\ hand[d] = Empty /\ phase[d] = "driving" /\ up[d]
        /\ cursor[d] \in 1..Len(bus) /\ cursor'[d] = cursor[d] + 1
        /\ hand'[d] = IF e = Other THEN Empty ELSE e
        /\ UNCHANGED <<bus, version, wire, shown>>
    BY <1>4, <1>7 DEF next_event, Idle, net, client, TypeOK
  <2>2. CASE e = Other
    <3>1. Waiting(d) => Waiting(d)'
      <4>1. ASSUME NEW i \in cursor[d]..Len(bus), bus[i] # Other
            PROVE  i \in (cursor[d] + 1)..Len(bus)
        BY <1>3, <1>4, <2>2, <4>1
      <4> QED BY <2>1, <4>1 DEF Waiting
    <3>2. Taken(d)' = Taken(d)
      BY <2>1, <2>2 DEF Taken
    <3> QED BY <1>1, <2>1, <3>1, <3>2 DEF PipelineCurrent
  <2>3. CASE e # Other
    <3>1. CASE \E i \in (cursor[d] + 1)..Len(bus) : bus[i] # Other
      BY <2>1, <3>1 DEF Waiting
    <3>2. CASE ~ \E i \in (cursor[d] + 1)..Len(bus) : bus[i] # Other
      <4>1. e = version
        BY <1>1, <2>1, <2>3, <3>2 DEF BusCurrent
      <4>2. hand'[d] = version'
        BY <2>1, <2>3, <4>1
      <4> QED BY <1>5, <2>1, <4>2 DEF Taken
    <3> QED BY <3>1, <3>2
  <2> QED BY <2>2, <2>3
<1>8. CASE write_event(d)
  <2>1. /\ phase[d] = "driving" /\ up[d] /\ hand[d] # Empty
        /\ hand'[d] = Empty /\ wire'[d] = Append(wire[d], hand[d])
        /\ UNCHANGED <<bus, version>> /\ cursor'[d] = cursor[d]
    BY <1>8 DEF write_event, TypeOK
  <2>2. hand[d] \in 0..MaxCommits
    BY <1>4, <2>1 DEF Empty
  <2>3. wire'[d] # <<>> /\ wire'[d][Len(wire'[d])] = hand[d]
    BY <1>4, <2>1, <2>2, AppendProperties, LenProperties
  <2>4. Taken(d)' = Taken(d)
    BY <2>1, <2>3 DEF Taken
  <2>5. Waiting(d)' <=> Waiting(d)
    BY <2>1 DEF Waiting
  <2> QED BY <1>1, <2>1, <2>4, <2>5 DEF PipelineCurrent
<1>9. CASE accept_event
  <2>1. /\ UNCHANGED <<bus, version, cursor, hand, phase, up>>
        /\ cur \in Conns /\ wire[cur] # <<>>
        /\ shown' = Head(wire[cur])
        /\ wire' = [wire EXCEPT ![cur] = Tail(wire[cur])]
    BY <1>9 DEF accept_event, daemon, TypeOK
  <2>2. cur = d
    BY <1>1, <2>1 DEF UpIsUsed
  <2>3. wire'[d] = Tail(wire[d]) /\ shown' = Head(wire[d]) /\ wire[d] # <<>>
    BY <2>1, <2>2 DEF TypeOK
  <2>4. /\ Len(wire[d]) \in Nat \ {0} /\ Len(wire'[d]) = Len(wire[d]) - 1
        /\ \A i \in 1..Len(wire'[d]) : wire'[d][i] = wire[d][i + 1]
        /\ wire'[d] \in Seq(0..MaxCommits) /\ Head(wire[d]) = wire[d][1]
    <3>1. /\ Len(wire[d]) \in Nat \ {0} /\ wire'[d] \in Seq(0..MaxCommits)
          /\ Len(wire'[d]) = Len(wire[d]) - 1
          /\ \A i \in 1..Len(wire'[d]) : wire'[d][i] = wire[d][i + 1]
      <4>1. /\ Tail(wire[d]) \in Seq(0..MaxCommits)
            /\ Len(Tail(wire[d])) = Len(wire[d]) - 1
            /\ \A i \in 1..Len(Tail(wire[d])) : Tail(wire[d])[i] = wire[d][i + 1]
        BY <1>4, <2>3, HeadTailProperties
      <4>2. Len(wire[d]) \in Nat \ {0}
        BY <1>4, <2>3, EmptySeq
      <4> QED BY <2>3, <4>1, <4>2
    <3>2. Head(wire[d]) = wire[d][1]
      BY <1>4, <2>3
    <3> QED BY <3>1, <3>2
  <2>5. wire'[d] # <<>> => wire'[d][Len(wire'[d])] = wire[d][Len(wire[d])]
    <3>1. wire'[d] # <<>> => Len(wire'[d]) \in 1..Len(wire'[d])
      BY <2>4, EmptySeq
    <3> QED BY <2>4, <3>1
  <2>6. wire'[d] = <<>> => wire[d][Len(wire[d])] = shown'
    <3>1. wire'[d] = <<>> => Len(wire[d]) = 1
      BY <2>4
    <3> QED BY <2>3, <2>4, <3>1
  <2>7. Taken(d)' = Taken(d)
    BY <2>1, <2>3, <2>5, <2>6 DEF Taken
  <2>8. Waiting(d)' <=> Waiting(d)
    BY <2>1 DEF Waiting
  <2> QED BY <1>1, <2>1, <2>7, <2>8 DEF PipelineCurrent
<1>10. CASE /\ phase[d] = "driving" /\ up[d]
            /\ UNCHANGED <<cursor[d], hand[d], wire[d], shown>>
  <2>1. Waiting(d) => Waiting(d)'
    <3>1. ASSUME NEW i \in cursor[d]..Len(bus), bus[i] # Other
          PROVE  i \in cursor'[d]..Len(bus') /\ bus'[i] # Other
      BY <1>3, <1>4, <1>10, <3>1
    <3> QED BY <3>1 DEF Waiting
  <2>2. Taken(d)' = Taken(d)
    BY <1>10 DEF Taken
  <2>3. CASE UNCHANGED version
    BY <1>1, <1>10, <2>1, <2>2, <2>3 DEF PipelineCurrent
  <2>4. CASE Commit
    <3>1. version + 1 \in 0..MaxCommits /\ version + 1 # Other
      BY <1>4, <2>4 DEF Commit, Other
    <3>2. Len(bus') = Len(bus) + 1 /\ bus'[Len(bus) + 1] = version + 1
      BY <2>4, <3>1, Appended DEF Commit, send_event
    <3>3. cursor'[d] <= Len(bus) + 1
      BY <1>1, <1>10 DEF CursorsBehind
    <3>4. Len(bus) + 1 \in cursor'[d]..Len(bus')
      BY <1>3, <1>4, <1>10, <3>2, <3>3
    <3> QED BY <3>1, <3>2, <3>4 DEF Waiting
  <2> QED BY <1>2, <2>3, <2>4, BusKinds
<1> QED BY <1>6, <1>7, <1>8, <1>9, <1>10, PipelineKinds

-----------------------------------------------------------------------------
(* The theorems.                                                           *)

(* The two invariants hold always.                                         *)
LEMMA SessionsInvariant == Spec => [](PermitsInv /\ PipelineInv)
<1>1. Init => PermitsInv /\ PipelineInv
  <2> SUFFICES ASSUME Init PROVE PermitsInv /\ PipelineInv
    OBVIOUS
  <2>1. <<>> \in Seq(0..MaxCommits) /\ Empty \in Empty..MaxCommits
    BY SessionsConstants DEF Empty
  <2>2. TypeOK
    <3>1. NoRequest \in [state : {"none", "sent", "answered"},
                         conn : Conns \cup {None}, kind : Kinds]
      BY DEF NoRequest, Kinds
    <3>2. /\ version \in 0..MaxCommits /\ shown \in 0..MaxCommits
          /\ counter \in 0..Limit /\ leaked \in Nat
          /\ requests \in 0..MaxRequests /\ faults \in 0..MaxFaults
      BY SessionsConstants DEF Init
    <3>3. /\ phase \in [Conns -> {"none", "incoming", "admitted", "opening",
                                  "driving", "stopped"}]
          /\ up \in [Conns -> BOOLEAN] /\ cursor \in [Conns -> Nat \ {0}]
          /\ hand \in [Conns -> Empty..MaxCommits]
          /\ wire \in [Conns -> Seq(0..MaxCommits)]
      BY <2>1 DEF Init
    <3> QED BY <2>1, <3>1, <3>2, <3>3 DEF Init, TypeOK
  <2>3. {c \in Conns : phase[c] \in Holding} = {}
    BY DEF Init, Holding
  <2>4. PermitsExact
    <3>1. Cardinality({c \in Conns : phase[c] \in Holding}) = 0
      BY <2>3, FS_EmptySet
    <3> QED BY <3>1 DEF Init, PermitsExact
  <2>5. PipelineInv
    BY DEF Init, PipelineInv, UpIsUsed, CursorsBehind, BusCurrent, PipelineCurrent
  <2> QED BY <2>2, <2>4, <2>5 DEF PermitsInv
<1>2. PermitsInv /\ PipelineInv /\ [Next]_vars => (PermitsInv /\ PipelineInv)'
  BY SessionsTypeStep, PermitsStep, UpIsUsedStep, CursorsStep, BusStep, PipelineStep
  DEF PermitsInv, PipelineInv
<1> QED BY <1>1, <1>2, PTL DEF Spec

(* Permits, cursors, events and requests are of the kinds the daemon and   *)
(* the client can hold; the limit of connections is never exceeded         *)
(* (client/mod.rs handle_connection_inner).                                *)
THEOREM SessionsTypes == Spec => []TypeOK
<1>1. PermitsInv => TypeOK
  BY DEF PermitsInv
<1> QED BY <1>1, SessionsInvariant, PTL

(* A permit is held by a connection's task or was lost to a panic, for any *)
(* number of connections and any limit (client/mod.rs                      *)
(* handle_connection_inner).                                               *)
THEOREM PermitsAlwaysExact == Spec => []PermitsExact
<1>1. PermitsInv => PermitsExact
  BY DEF PermitsInv
<1> QED BY <1>1, SessionsInvariant, PTL

(* A client that has read all there is shows the ledger, for any capacity  *)
(* of the bus and any credit: subscribing before the snapshot loses        *)
(* nothing (client/mod.rs events, events.rs).                              *)
THEOREM DrainedAlwaysCurrent == Spec => []DrainedIsCurrent
<1>1. PermitsInv /\ PipelineInv => DrainedIsCurrent
  <2> SUFFICES ASSUME TypeOK, PipelineCurrent, NEW c \in Conns, up[c], Idle(c),
                      cursor[c] = Len(bus) + 1, wire[c] = <<>>
               PROVE  shown = version
    BY DEF PermitsInv, PipelineInv, DrainedIsCurrent
  <2>1. Len(bus) \in Nat
    BY LenProperties DEF TypeOK
  <2>2. ~Waiting(c)
    BY <2>1 DEF Waiting
  <2>3. Taken(c) = version
    BY <2>2 DEF PipelineCurrent, Idle
  <2> QED BY <2>3 DEF Taken, Idle
<1> QED BY <1>1, SessionsInvariant, PTL

(* Only panics can make the daemon refuse a user who has fewer connections *)
(* than the limit (client/mod.rs handle_connection_inner).                 *)
THEOREM RefusalsJustified == Spec => [](leaked = 0 => RefusedOnlyAtLimit)
<1>1. PermitsInv => (leaked = 0 => RefusedOnlyAtLimit)
  <2> SUFFICES ASSUME PermitsInv, leaked = 0 PROVE RefusedOnlyAtLimit
    OBVIOUS
  <2>1. counter = Cardinality({c \in Conns : phase[c] \in Holding})
    BY HoldersFinite DEF PermitsInv, PermitsExact, Holders
  <2> QED BY <2>1 DEF RefusedOnlyAtLimit
<1> QED BY <1>1, SessionsInvariant, PTL
=============================================================================
