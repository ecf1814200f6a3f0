---------------------------- MODULE Registration ----------------------------
(***************************************************************************)
(* Who may use the daemon: invites and recovery codes handed out by the    *)
(* operator (cli/rpc.rs, ui/users.rs), registration and the recovery name  *)
(* (client/rpc.rs), and the client library's list of daemons               *)
(* (puncture-client/src/lib.rs).                                           *)
(*                                                                         *)
(* A registration travels over a connection that can be lost before or     *)
(* after the daemon has carried it out.  The daemon's handler reads the    *)
(* clock for its checks and again for the row it inserts, and holds the    *)
(* database mutex from the former to the latter: two steps.  Time is in    *)
(* milliseconds, as unix_time() has it.                                    *)
(***************************************************************************)
EXTENDS Integers, FiniteSets

CONSTANTS
  Users,        \* public keys of client installations
  Invites,      \* identifiers of invites (random in the code)
  Recoveries,   \* identifiers of recovery codes (random in the code)
  NULL,
  Names,        \* recovery names users ask for, NULL among them
  ValidNames,   \* those set_recovery_name accepts
  Limits,       \* user limits the operator asks for
  ExpiryDays,   \* expiry times the operator asks for
  SecsPerDay,   \* seconds of a day (86400 in the code)
  MsPerSec,     \* 1000 in the code
  U32,          \* 2^32 in the code
  MaxHold,      \* bound: milliseconds from a handler's checks to its insert
  MaxTime,      \* bound: the clock
  MaxCalls      \* bound: registrations tried

ASSUME RegistrationConstants ==
  /\ IsFiniteSet(Users)
  /\ Limits \subseteq Nat /\ ExpiryDays \subseteq Nat
  /\ SecsPerDay \in Nat \ {0} /\ MsPerSec \in Nat \ {0} /\ U32 \in Nat \ {0}
  /\ MaxHold \in Nat /\ MaxTime \in Nat /\ MaxCalls \in Nat
  /\ NULL \notin Invites /\ NULL \in Names /\ ValidNames \subseteq Names
  /\ NULL \in ValidNames

InviteRow == [user_limit : Limits, expires_at : Nat, created_at : 0..MaxTime]
UserRow == [invite_id : Invites, created_at : 0..MaxTime, recovery_name : ValidNames]
RecoveryRow == [user_pk : Users, expires_at : Nat, created_at : 0..MaxTime]

(* A registration in flight: the invite it names and how far it got.       *)
NoCall == [state |-> "none", invite_id |-> NULL]
Call == {NoCall} \cup [state : {"sent", "handled", "accepted", "rejected"},
                      invite_id : Invites]

(* A handler between its checks and its insert.                            *)
Handler == [invite_id : Invites, checked_at : 0..MaxTime]

ASSUME NullIsNoRow ==
  NULL \notin InviteRow \cup UserRow \cup RecoveryRow \cup Handler

VARIABLES
  now,       \* unix_time()
  invite,    \* table invite
  user,      \* table user
  recovery,  \* table recovery
  saved,     \* clients that have the daemon in their own table daemon
  call,      \* the registration each client is waiting for
  calls,
  handler    \* the handler of each user's registration that has the mutex

db == <<invite, user, recovery>>

vars == <<now, db, saved, call, calls, handler>>

(* Rows have the shape of their tables, users only accepted names          *)
(* (models.rs, client/rpc.rs set_recovery_name).                           *)
TypeOK ==
  /\ now \in 0..MaxTime
  /\ invite \in [Invites -> InviteRow \cup {NULL}]
  /\ user \in [Users -> UserRow \cup {NULL}]
  /\ recovery \in [Recoveries -> RecoveryRow \cup {NULL}]
  /\ saved \subseteq Users
  /\ call \in [Users -> Call]
  /\ calls \in 0..MaxCalls
  /\ handler \in [Users -> Handler \cup {NULL}]

Init ==
  /\ now = 0
  /\ invite = [i \in Invites |-> NULL]
  /\ user = [u \in Users |-> NULL]
  /\ recovery = [r \in Recoveries |-> NULL]
  /\ saved = {}
  /\ call = [u \in Users |-> NoCall]
  /\ calls = 0
  /\ handler = [u \in Users |-> NULL]

(* Faulty variant: register lets go of the mutex before it inserts.        *)
LockFree_unheld == TRUE

(* Every other access to the database waits for the mutex.                 *)
LockFree == \A u \in Users : handler[u] = NULL

-----------------------------------------------------------------------------
(* The operator.                                                           *)

(* expiry_days * 60 * 60 * 24, in u32 arithmetic.                          *)
expiry_secs(days) == (days * SecsPerDay) % U32

create_invite(i, limit, secs) ==
  /\ LockFree
  /\ invite[i] = NULL
  /\ invite' = [invite EXCEPT ![i] = [user_limit |-> limit,
                                      expires_at |-> now + secs * MsPerSec,
                                      created_at |-> now]]
  /\ UNCHANGED <<now, user, recovery, saved, call, calls, handler>>

create_recovery(r, u, secs) ==
  /\ LockFree
  /\ recovery[r] = NULL
  /\ recovery' = [recovery EXCEPT ![r] = [user_pk |-> u,
                                          expires_at |-> now + secs * MsPerSec,
                                          created_at |-> now]]
  /\ UNCHANGED <<now, invite, user, saved, call, calls, handler>>

user_exists(u) == user[u] # NULL

(* The command line and the web page hand out the same codes.              *)
user_invite(i, limit, days) == create_invite(i, limit, expiry_secs(days))

invite_submit(i, limit, days) == create_invite(i, limit, expiry_secs(days))

(* A day, whatever expiry the request asks for.                            *)
user_recover(r, u) ==
  /\ user_exists(u)
  /\ create_recovery(r, u, SecsPerDay)

(* The web page offers a day and nothing else.                             *)
recovery_submit(r, u) ==
  /\ user_exists(u)
  /\ create_recovery(r, u, SecsPerDay)

-----------------------------------------------------------------------------
(* The daemon.                                                             *)

count_invite_users(i) ==
  Cardinality({u \in Users : user[u] # NULL /\ user[u].invite_id = i})

LimitReached(i) == invite[i].user_limit <= count_invite_users(i)

(* Faulty variant: an invite never expires.                                *)
InviteExpired_never(i) == FALSE

InviteExpired(i) == invite[i].expires_at < now

Admissible(i) == invite[i] # NULL /\ ~InviteExpired(i) /\ ~LimitReached(i)

NewUser(i) == [invite_id |-> i, created_at |-> now, recovery_name |-> NULL]

(* Faulty variant: a second registration replaces the first.               *)
register_user_with_invite_replace(u, i) == [user EXCEPT ![u] = NewUser(i)]

(* On conflict do nothing.                                                 *)
register_user_with_invite(u, i) ==
  [user EXCEPT ![u] = IF @ = NULL THEN NewUser(i) ELSE @]

(* register takes the mutex and checks the invite.                         *)
register_check(u) ==
  /\ LockFree
  /\ call[u].state = "sent"
  /\ LET i == call[u].invite_id IN
       \/ /\ Admissible(i)
          /\ handler' = [handler EXCEPT ![u] = [invite_id |-> i, checked_at |-> now]]
          /\ call' = [call EXCEPT ![u].state = "handled"]
       \/ /\ ~Admissible(i)
          /\ call' = [call EXCEPT ![u].state = "rejected"]
          /\ UNCHANGED handler
  /\ UNCHANGED <<now, db, saved, calls>>

(* It inserts the user, lets go of the mutex and answers, if the client is *)
(* still there.                                                            *)
register_insert(u) ==
  /\ handler[u] # NULL
  /\ user' = register_user_with_invite(u, handler[u].invite_id)
  /\ call' = IF call[u].state = "handled" THEN [call EXCEPT ![u].state = "accepted"]
             ELSE call
  /\ handler' = [handler EXCEPT ![u] = NULL]
  /\ UNCHANGED <<now, invite, recovery, saved, calls>>

(* Faulty variant: any name is written.                                    *)
set_recovery_name_unchecked(u, name) ==
  /\ LockFree
  /\ user_exists(u)
  /\ user' = [user EXCEPT ![u].recovery_name = name]
  /\ UNCHANGED <<now, invite, recovery, saved, call, calls, handler>>

(* Users are never removed, so that the check for a registered user, which *)
(* takes the mutex on its own, is still true when the name is written.     *)
set_recovery_name(u, name) ==
  /\ LockFree
  /\ user_exists(u)
  /\ name \in ValidNames
  /\ user' = [user EXCEPT ![u].recovery_name = name]
  /\ UNCHANGED <<now, invite, recovery, saved, call, calls, handler>>

(* The daemon stops, with whatever it had in hand, and starts again.       *)
Crash ==
  /\ handler' = [u \in Users |-> NULL]
  /\ call' = [u \in Users |-> NoCall]
  /\ UNCHANGED <<now, db, saved, calls>>

-----------------------------------------------------------------------------
(* The client.                                                             *)

client_register(u, i) ==
  /\ call[u] = NoCall /\ calls < MaxCalls
  /\ calls' = calls + 1
  /\ call' = [call EXCEPT ![u] = [state |-> "sent", invite_id |-> i]]
  /\ UNCHANGED <<now, db, saved, handler>>

(* Faulty variant: the daemon is saved whatever it answered.               *)
save_daemon_any(u) == saved \cup {u}

(* The answer arrives; the daemon is saved only if it accepted.            *)
save_daemon(u) == IF call[u].state = "accepted" THEN saved \cup {u} ELSE saved

client_answered(u) ==
  /\ call[u].state \in {"accepted", "rejected"}
  /\ saved' = save_daemon(u)
  /\ call' = [call EXCEPT ![u] = NoCall]
  /\ UNCHANGED <<now, db, calls, handler>>

(* "Failed to register": before, while or after the daemon carries it out; *)
(* a handler that has the mutex does not await anything any more.          *)
ConnectionLost(u) ==
  /\ call[u] # NoCall
  /\ call' = [call EXCEPT ![u] = NoCall]
  /\ UNCHANGED <<now, db, saved, calls, handler>>

delete_daemon(u) ==
  /\ u \in saved
  /\ saved' = saved \ {u}
  /\ UNCHANGED <<now, db, call, calls, handler>>

(* Time passes, between the checks and the insert of a handler too.        *)
Tick ==
  /\ now < MaxTime
  /\ \A u \in Users : handler[u] # NULL => now < handler[u].checked_at + MaxHold
  /\ now' = now + 1
  /\ UNCHANGED <<db, saved, call, calls, handler>>

Next ==
  \/ \E i \in Invites, l \in Limits, d \in ExpiryDays :
       user_invite(i, l, d) \/ invite_submit(i, l, d)
  \/ \E r \in Recoveries, u \in Users :
       recovery_submit(r, u) \/ user_recover(r, u)
  \/ \E u \in Users :
       \/ register_check(u) \/ register_insert(u)
       \/ client_answered(u) \/ ConnectionLost(u) \/ delete_daemon(u)
       \/ \E i \in Invites : client_register(u, i)
       \/ \E n \in Names : set_recovery_name(u, n)
  \/ Tick \/ Crash

Spec == Init /\ [][Next]_vars

-----------------------------------------------------------------------------
(* Properties.                                                             *)

(* No invite ever has more users than the operator allowed, with any       *)
(* number of registrations, repeated and lost ones too, in flight          *)
(* (client/rpc.rs register: the check and the insert under one lock).      *)
InviteLimitKept ==
  \A i \in Invites :
    invite[i] # NULL => count_invite_users(i) <= invite[i].user_limit

(* Every user came in on an invite that existed and had not expired when   *)
(* it was checked, which the insert, with a clock of its own, follows by   *)
(* MaxHold at most (client/rpc.rs register, client/db.rs get_invite).      *)
RegisteredInTime ==
  \A u \in Users :
    user[u] # NULL =>
      LET i == user[u].invite_id IN
        /\ invite[i] # NULL
        /\ invite[i].created_at <= user[u].created_at
        /\ user[u].created_at <= invite[i].expires_at + MaxHold

(* A client lists the daemon only if the daemon knows its user: whatever   *)
(* was lost or repeated, a saved daemon serves this client                 *)
(* (puncture-client lib.rs register, db.rs save_daemon).                   *)
SavedIsRegistered == \A u \in saved : user[u] # NULL

(* A user, once registered, keeps the invite and the date of the first     *)
(* registration: registering again never frees a place on an invite        *)
(* (client/db.rs register_user_with_invite, on_conflict do_nothing).       *)
RegistrationPermanent ==
  [][\A u \in Users : user[u] # NULL =>
       /\ user'[u] # NULL
       /\ user'[u].invite_id = user[u].invite_id
       /\ user'[u].created_at = user[u].created_at]_vars
=============================================================================
