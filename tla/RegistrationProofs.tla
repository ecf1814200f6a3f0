------------------------- MODULE RegistrationProofs -------------------------
(***************************************************************************)
(* Theorems about module Registration, for any finite set of users and any *)
(* invites, limits, expiry times, clock, width of integers and time a      *)
(* handler may take.                                                       *)
(*                                                                         *)
(* RegisteredInTime is inductive once no invite is from the future         *)
(* (InvitesPast).  It is what makes an unused invite identifier have no    *)
(* users, so that a new invite starts from zero of them.                   *)
(* What a handler checked is still true when it inserts, because nobody    *)
(* else has the mutex in between (HandlersSound): the limit and the expiry *)
(* rest on it.  SavedIsRegistered needs that an accepted call belongs to a *)
(* registered user until its answer arrives (CallsTruthful).               *)
(***************************************************************************)
EXTENDS Registration, FiniteSetTheorems, TLAPS

(* An answer on its way that says "accepted" is true (client/rpc.rs        *)
(* register, puncture-client lib.rs register).                             *)
CallsTruthful == \A u \in Users : call[u].state = "accepted" => user[u] # NULL

(* A lifetime is a natural number, the wrapped ones included.              *)
LEMMA ExpiryIsNat == \A d \in ExpiryDays : expiry_secs(d) \in Nat
BY RegistrationConstants DEF expiry_secs

(* NULL is no row, so that a table entry is NULL or has the row's fields.  *)
LEMMA RowOrNull ==
  ASSUME TypeOK
  PROVE  /\ \A i \in Invites : invite[i] # NULL => invite[i] \in InviteRow
         /\ \A u \in Users : user[u] # NULL => user[u] \in UserRow
         /\ \A u \in Users : handler[u] # NULL => handler[u] \in Handler
         /\ \A i \in Invites, l \in Limits, secs \in Nat :
              [user_limit |-> l, expires_at |-> now + secs * MsPerSec,
               created_at |-> now] \in InviteRow
         /\ \A i \in Invites : NewUser(i) \in UserRow
         /\ NULL \notin InviteRow /\ NULL \notin UserRow /\ NULL \notin Handler
<1>1. /\ \A i \in Invites : invite[i] # NULL => invite[i] \in InviteRow
      /\ \A u \in Users : user[u] # NULL => user[u] \in UserRow
      /\ \A u \in Users : handler[u] # NULL => handler[u] \in Handler
      /\ NULL \notin InviteRow /\ NULL \notin UserRow /\ NULL \notin Handler
  BY NullIsNoRow DEF TypeOK
<1>2. \A secs \in Nat : now + secs * MsPerSec \in Nat
  BY RegistrationConstants DEF TypeOK
<1> QED
  BY <1>1, <1>2, RegistrationConstants DEF TypeOK, InviteRow, UserRow, NewUser

-----------------------------------------------------------------------------
(* Types.                                                                  *)

(* Every step preserves the types.                                         *)
LEMMA TypeStep == TypeOK /\ [Next]_vars => TypeOK'
<1> SUFFICES ASSUME TypeOK, [Next]_vars PROVE TypeOK'
  OBVIOUS
<1> USE RegistrationConstants
<1>1. ASSUME NEW i \in Invites, NEW l \in Limits, NEW d \in ExpiryDays,
             create_invite(i, l, expiry_secs(d))
      PROVE  TypeOK'
  <2>1. [user_limit |-> l, expires_at |-> now + expiry_secs(d) * MsPerSec,
         created_at |-> now] \in InviteRow
    BY RowOrNull, ExpiryIsNat
  <2>2. invite' \in [Invites -> InviteRow \cup {NULL}]
    BY <1>1, <2>1 DEF TypeOK, create_invite
  <2> QED BY <1>1, <2>2 DEF TypeOK, create_invite
<1>2. ASSUME NEW r \in Recoveries, NEW u \in Users, create_recovery(r, u, SecsPerDay)
      PROVE  TypeOK'
  <2>1. now + SecsPerDay * MsPerSec \in Nat
    BY DEF TypeOK
  <2>2. [user_pk |-> u, expires_at |-> now + SecsPerDay * MsPerSec, created_at |-> now]
          \in RecoveryRow
    BY <2>1 DEF RecoveryRow, TypeOK
  <2>3. recovery' \in [Recoveries -> RecoveryRow \cup {NULL}]
    BY <1>2, <2>2 DEF TypeOK, create_recovery
  <2> QED BY <1>2, <2>3 DEF TypeOK, create_recovery
<1>3. ASSUME NEW u \in Users, register_check(u) PROVE TypeOK'
  <2>1. /\ call[u] \in [state : {"sent", "handled", "accepted", "rejected"},
                        invite_id : Invites]
        /\ call[u].invite_id \in Invites
    BY <1>3 DEF register_check, TypeOK, Call, NoCall
  <2>2. call' \in [Users -> Call]
    <3>1. \A s \in {"handled", "rejected"} : [call[u] EXCEPT !.state = s] \in Call
      BY <2>1 DEF Call
    <3>2. \E s \in {"handled", "rejected"} :
            call' = [call EXCEPT ![u] = [call[u] EXCEPT !.state = s]]
      BY <1>3 DEF register_check, TypeOK
    <3> QED BY <3>1, <3>2 DEF TypeOK
  <2>3. handler' \in [Users -> Handler \cup {NULL}]
    <3>1. [invite_id |-> call[u].invite_id, checked_at |-> now] \in Handler
      BY <2>1 DEF Handler, TypeOK
    <3> QED BY <1>3, <3>1 DEF register_check, TypeOK
  <2> QED BY <1>3, <2>2, <2>3 DEF TypeOK, register_check, db
<1>4. ASSUME NEW u \in Users, register_insert(u) PROVE TypeOK'
  <2>1. handler[u].invite_id \in Invites
    BY <1>4, RowOrNull DEF register_insert, Handler
  <2>2. call' \in [Users -> Call]
    <3>1. ASSUME call[u].state = "handled" PROVE [call[u] EXCEPT !.state = "accepted"] \in Call
      <4>1. call[u] \in [state : {"sent", "handled", "accepted", "rejected"},
                         invite_id : Invites]
        BY <3>1 DEF TypeOK, Call, NoCall
      <4> QED BY <4>1 DEF Call
    <3>2. \/ call' = call
          \/ /\ call[u].state = "handled"
             /\ call' = [call EXCEPT ![u] = [call[u] EXCEPT !.state = "accepted"]]
      BY <1>4 DEF register_insert, TypeOK
    <3> QED BY <3>1, <3>2 DEF TypeOK
  <2>3. user' \in [Users -> UserRow \cup {NULL}]
    BY <1>4, <2>1, RowOrNull DEF register_insert, register_user_with_invite, TypeOK
  <2>4. handler' \in [Users -> Handler \cup {NULL}]
    BY <1>4 DEF register_insert, TypeOK
  <2> QED BY <1>4, <2>2, <2>3, <2>4 DEF TypeOK, register_insert
<1>5. ASSUME NEW u \in Users, client_answered(u) PROVE TypeOK'
  BY <1>5 DEF TypeOK, client_answered, save_daemon, Call, NoCall, db
<1>6. ASSUME NEW u \in Users, ConnectionLost(u) PROVE TypeOK'
  BY <1>6 DEF TypeOK, ConnectionLost, Call, NoCall, db
<1>7. ASSUME NEW u \in Users, delete_daemon(u) PROVE TypeOK'
  BY <1>7 DEF TypeOK, delete_daemon, db
<1>8. ASSUME NEW u \in Users, NEW i \in Invites, client_register(u, i)
      PROVE  TypeOK'
  BY <1>8 DEF TypeOK, client_register, Call, db
<1>9. ASSUME NEW u \in Users, NEW n \in Names, set_recovery_name(u, n)
      PROVE  TypeOK'
  <2>1. [user[u] EXCEPT !.recovery_name = n] \in UserRow
    BY <1>9, RowOrNull DEF set_recovery_name, user_exists, UserRow
  <2> QED BY <1>9, <2>1 DEF TypeOK, set_recovery_name
<1>10. CASE Tick
  BY <1>10 DEF TypeOK, Tick, db
<1>11. CASE Crash
  BY <1>11 DEF TypeOK, Crash, Call, NoCall, db
<1>12. CASE UNCHANGED vars
  BY <1>12 DEF TypeOK, vars, db
<1> QED
  BY <1>1, <1>2, <1>3, <1>4, <1>5, <1>6, <1>7, <1>8, <1>9, <1>10, <1>11, <1>12
  DEF Next, user_invite, invite_submit, recovery_submit, user_recover

-----------------------------------------------------------------------------
(* Which step writes which user's row: all but two steps leave the table.  *)

(* Users change by a registration or by a new recovery name.               *)
LEMMA UserChange ==
  ASSUME TypeOK, [Next]_vars
  PROVE  \/ UNCHANGED user
         \/ \E u \in Users : register_insert(u)
         \/ \E u \in Users, n \in Names : set_recovery_name(u, n)
BY DEF Next, vars, db, user_invite, invite_submit, recovery_submit, user_recover,
       create_invite, create_recovery, register_check, client_answered,
       ConnectionLost, delete_daemon, client_register, Tick, Crash

(* An insert adds its user, or nobody.                                     *)
LEMMA RegisterEffect ==
  ASSUME TypeOK, NEW u \in Users, register_insert(u)
  PROVE  /\ handler[u] # NULL /\ handler[u].invite_id \in Invites
         /\ \A w \in Users : user[w] # NULL => user'[w] = user[w]
         /\ user[u] = NULL => user'[u] = NewUser(handler[u].invite_id)
         /\ user'[u] # NULL
         /\ \A w \in Users : w # u => user'[w] = user[w]
         /\ invite' = invite /\ now' = now
<1>1. handler[u] # NULL /\ handler[u].invite_id \in Invites
  BY RowOrNull DEF register_insert, Handler
<1>2. /\ user' = register_user_with_invite(u, handler[u].invite_id)
      /\ invite' = invite /\ now' = now
  BY DEF register_insert
<1>3. NewUser(handler[u].invite_id) # NULL
  BY <1>1, RowOrNull
<1> QED BY <1>1, <1>2, <1>3 DEF register_user_with_invite, TypeOK

(* A new name keeps the rest of the row.                                   *)
LEMMA NameEffect ==
  ASSUME TypeOK, NEW u \in Users, NEW n \in Names, set_recovery_name(u, n)
  PROVE  \A w \in Users :
           /\ user'[w] = NULL <=> user[w] = NULL
           /\ user[w] # NULL => /\ user'[w].invite_id = user[w].invite_id
                                /\ user'[w].created_at = user[w].created_at
<1>1. user[u] # NULL /\ user[u] \in UserRow /\ n \in ValidNames
  BY RowOrNull DEF set_recovery_name, user_exists
<1>2. user'[u] = [user[u] EXCEPT !.recovery_name = n]
  BY DEF set_recovery_name, TypeOK
<1>3. /\ user'[u] \in UserRow
      /\ user'[u].invite_id = user[u].invite_id
      /\ user'[u].created_at = user[u].created_at
  BY <1>1, <1>2 DEF UserRow
<1>4. \A w \in Users : w # u => user'[w] = user[w]
  BY DEF set_recovery_name, TypeOK
<1> QED BY <1>1, <1>3, <1>4, RowOrNull

(* An invite that exists keeps its row, and a new one replaces nothing.    *)
LEMMA InviteChange ==
  ASSUME TypeOK, [Next]_vars
  PROVE  \A i \in Invites : invite[i] # NULL => invite'[i] = invite[i]
<1>1. ASSUME NEW j \in Invites, NEW l \in Limits, NEW secs \in Nat,
             create_invite(j, l, secs)
      PROVE  \A i \in Invites : invite[i] # NULL => invite'[i] = invite[i]
  BY <1>1 DEF create_invite, TypeOK
<1>2. \/ \E i \in Invites, l \in Limits, d \in ExpiryDays :
           create_invite(i, l, expiry_secs(d))
      \/ UNCHANGED invite
  BY DEF Next, vars, db, user_invite, invite_submit, recovery_submit, user_recover,
         create_recovery, register_check, register_insert, client_answered,
         ConnectionLost, delete_daemon, client_register, set_recovery_name, Tick, Crash
<1> QED BY <1>1, <1>2, ExpiryIsNat

(* No invite was made in the future.                                       *)
InvitesPast ==
  \A i \in Invites : invite[i] # NULL => invite[i].created_at <= now

(* No invite is created in the future.                                     *)
LEMMA PastStep == TypeOK /\ InvitesPast /\ [Next]_vars => InvitesPast'
<1> SUFFICES ASSUME TypeOK, InvitesPast, [Next]_vars PROVE InvitesPast'
  OBVIOUS
<1> USE RegistrationConstants
<1>1. ASSUME NEW j \in Invites, NEW l \in Limits, NEW secs \in Nat,
             create_invite(j, l, secs)
      PROVE  InvitesPast'
  <2>1. /\ invite'[j].created_at = now /\ now' = now /\ now \in Int
        /\ \A i \in Invites : i # j => invite'[i] = invite[i]
    BY <1>1 DEF create_invite, TypeOK
  <2> QED BY <2>1 DEF InvitesPast
<1>2. CASE UNCHANGED invite /\ (now' = now \/ now' = now + 1)
  <2>1. ASSUME NEW i \in Invites, invite[i] # NULL
        PROVE  invite[i].created_at <= now'
    <3>1. invite[i].created_at \in 0..MaxTime /\ invite[i].created_at <= now
      BY <2>1, RowOrNull DEF InviteRow, InvitesPast
    <3>2. now \in Int
      BY DEF TypeOK
    <3> QED BY <1>2, <3>1, <3>2
  <2> QED BY <1>2, <2>1 DEF InvitesPast
<1>3. \/ \E i \in Invites, l \in Limits, d \in ExpiryDays :
           create_invite(i, l, expiry_secs(d))
      \/ UNCHANGED invite /\ (now' = now \/ now' = now + 1)
  BY DEF Next, vars, db, user_invite, invite_submit, recovery_submit, user_recover,
         create_recovery, register_check, register_insert, client_answered,
         ConnectionLost, delete_daemon, client_register, set_recovery_name, Tick, Crash
<1> QED BY <1>1, <1>2, <1>3, ExpiryIsNat

(* The handler that has the mutex is alone; its invite had not expired     *)
(* when it was checked, MaxHold ago at most, and still has room.           *)
HandlersSound ==
  \A u \in Users : handler[u] # NULL =>
    LET i == handler[u].invite_id
        c == handler[u].checked_at
    IN /\ \A w \in Users : handler[w] # NULL => w = u
       /\ invite[i] # NULL /\ invite[i].created_at <= c /\ c <= invite[i].expires_at
       /\ c <= now /\ now <= c + MaxHold
       /\ ~LimitReached(i)

(* Every step preserves HandlersSound: while a handler has the mutex no    *)
(* other step writes the tables.                                           *)
LEMMA HandlerStep ==
  TypeOK /\ InvitesPast /\ HandlersSound /\ [Next]_vars => HandlersSound'
<1> SUFFICES ASSUME TypeOK, InvitesPast, HandlersSound, [Next]_vars PROVE HandlersSound'
  OBVIOUS
<1>1. CASE \A u \in Users : handler'[u] = NULL
  BY <1>1 DEF HandlersSound
<1>2. CASE UNCHANGED <<invite, user, handler, now>>
  <2>1. \A i : LimitReached(i)' = LimitReached(i)
    BY <1>2 DEF LimitReached, count_invite_users
  <2> QED BY <1>2, <2>1 DEF HandlersSound
<1>3. CASE Tick
  <2>1. UNCHANGED <<invite, user, handler>> /\ now' = now + 1
    BY <1>3 DEF Tick, db
  <2>2. \A i : LimitReached(i)' = LimitReached(i)
    BY <2>1 DEF LimitReached, count_invite_users
  <2>3. ASSUME NEW u \in Users, handler[u] # NULL
        PROVE  handler[u].checked_at <= now' /\ now' <= handler[u].checked_at + MaxHold
    <3>1. handler[u].checked_at \in Int /\ now \in Int /\ MaxHold \in Int
      BY <2>3, RowOrNull, RegistrationConstants DEF Handler, TypeOK
    <3>2. handler[u].checked_at <= now /\ now < handler[u].checked_at + MaxHold
      BY <1>3, <2>3 DEF Tick, HandlersSound
    <3> QED BY <2>1, <3>1, <3>2
  <2> QED BY <2>1, <2>2, <2>3 DEF HandlersSound
<1>4. ASSUME NEW u \in Users, register_check(u), handler' # handler PROVE HandlersSound'
  <2> PICK i : i = call[u].invite_id
    OBVIOUS
  <2>1. /\ handler' = [handler EXCEPT ![u] = [invite_id |-> i, checked_at |-> now]]
        /\ Admissible(i) /\ \A w \in Users : handler[w] = NULL
        /\ UNCHANGED <<now, invite, user>> /\ i \in Invites
    BY <1>4 DEF register_check, LockFree, db, TypeOK, Call, NoCall
  <2>2. /\ handler'[u] = [invite_id |-> i, checked_at |-> now]
        /\ \A w \in Users : handler'[w] # NULL => w = u
    BY <2>1 DEF TypeOK
  <2>3. /\ invite[i] # NULL /\ invite[i] \in InviteRow
        /\ ~(invite[i].expires_at < now) /\ ~LimitReached(i)
    BY <2>1, RowOrNull DEF Admissible, InviteExpired
  <2>4. /\ invite[i].created_at <= now /\ now <= invite[i].expires_at
        /\ now <= now /\ now <= now + MaxHold
    BY <2>1, <2>3, RegistrationConstants DEF InviteRow, TypeOK, InvitesPast
  <2>5. \A j : LimitReached(j)' = LimitReached(j)
    BY <2>1 DEF LimitReached, count_invite_users
  <2> QED BY <2>1, <2>2, <2>3, <2>4, <2>5 DEF HandlersSound
<1>5. ASSUME NEW u \in Users, register_insert(u)
      PROVE  \A w \in Users : handler'[w] = NULL
  BY <1>5 DEF register_insert, HandlersSound, TypeOK
<1>6. CASE Crash
  BY <1>1, <1>6 DEF Crash
<1>7. \/ UNCHANGED <<invite, user, handler, now>> \/ Tick \/ Crash
      \/ \E u \in Users : register_insert(u)
      \/ \E u \in Users : register_check(u) /\ handler' # handler
      \/ handler' = handler /\ \A u \in Users : handler[u] = NULL
  BY DEF Next, vars, db, user_invite, invite_submit, recovery_submit, user_recover,
         create_invite, create_recovery, register_check, client_answered,
         ConnectionLost, delete_daemon, client_register, set_recovery_name, LockFree
<1> QED BY <1>1, <1>2, <1>3, <1>4, <1>5, <1>6, <1>7

(* Every step preserves RegisteredInTime.                                  *)
LEMMA InTimeStep ==
  TypeOK /\ HandlersSound /\ RegisteredInTime /\ [Next]_vars => RegisteredInTime'
<1> SUFFICES ASSUME TypeOK, HandlersSound, RegisteredInTime, [Next]_vars,
                    NEW u \in Users, user'[u] # NULL
             PROVE  LET i == user'[u].invite_id IN
                      /\ invite'[i] # NULL
                      /\ invite'[i].created_at <= user'[u].created_at
                      /\ user'[u].created_at <= invite'[i].expires_at + MaxHold
  BY DEF RegisteredInTime
<1>1. CASE /\ user[u] # NULL
           /\ user'[u].invite_id = user[u].invite_id
           /\ user'[u].created_at = user[u].created_at
  <2>1. user[u].invite_id \in Invites
    BY <1>1, RowOrNull DEF UserRow
  <2> QED BY <1>1, <2>1, InviteChange DEF RegisteredInTime
<1>2. CASE UNCHANGED user
  BY <1>1, <1>2
<1>3. ASSUME NEW w \in Users, NEW n \in Names, set_recovery_name(w, n)
      PROVE  user[u] # NULL /\ user'[u].invite_id = user[u].invite_id
                            /\ user'[u].created_at = user[u].created_at
  BY <1>3, NameEffect
<1>4. ASSUME NEW w \in Users, register_insert(w)
      PROVE  LET i == user'[u].invite_id IN
               /\ invite'[i] # NULL
               /\ invite'[i].created_at <= user'[u].created_at
               /\ user'[u].created_at <= invite'[i].expires_at + MaxHold
  <2>1. CASE user[u] # NULL
    BY <2>1, <1>1, <1>4, RegisterEffect
  <2>2. CASE user[u] = NULL
    <3> DEFINE i == handler[w].invite_id
               c == handler[w].checked_at
    <3>1. u = w /\ user'[u] = NewUser(i) /\ i \in Invites /\ invite' = invite
      BY <1>4, <2>2, RegisterEffect
    <3>2. /\ invite[i] # NULL /\ invite[i].created_at <= c /\ c <= invite[i].expires_at
          /\ c <= now /\ now <= c + MaxHold
      BY <1>4, RegisterEffect DEF HandlersSound
    <3>3. user'[u].invite_id = i /\ user'[u].created_at = now
      BY <3>1 DEF NewUser
    <3>4. /\ invite[i].created_at <= now
          /\ now <= invite[i].expires_at + MaxHold
      <4>1. invite[i].created_at \in Int /\ invite[i].expires_at \in Int
        BY <3>1, <3>2, RowOrNull DEF InviteRow
      <4>2. c \in Int /\ now \in Int /\ MaxHold \in Int
        BY <1>4, RowOrNull, RegisterEffect, RegistrationConstants DEF Handler, TypeOK
      <4> QED BY <3>2, <4>1, <4>2
    <3> QED BY <3>1, <3>2, <3>3, <3>4
  <2> QED BY <2>1, <2>2
<1> QED BY <1>1, <1>2, <1>3, <1>4, UserChange

-----------------------------------------------------------------------------
(* The limit.                                                              *)

UsersOf(i) == {u \in Users : user[u] # NULL /\ user[u].invite_id = i}

(* The query counts the users of an invite.                                *)
LEMMA UsersCounted ==
  \A i : /\ count_invite_users(i) = Cardinality(UsersOf(i))
         /\ IsFiniteSet(UsersOf(i)) /\ count_invite_users(i) \in Nat
<1>1. \A i : UsersOf(i) \subseteq Users
  BY DEF UsersOf
<1> QED BY <1>1, RegistrationConstants, FS_Subset, FS_CardinalityType
        DEF UsersOf, count_invite_users

(* Whoever keeps the rows' invites keeps the counts.                       *)
LEMMA SameCount ==
  ASSUME \A w \in Users :
           /\ user'[w] = NULL <=> user[w] = NULL
           /\ user[w] # NULL => user'[w].invite_id = user[w].invite_id
  PROVE  \A i : count_invite_users(i)' = count_invite_users(i)
BY DEF count_invite_users

(* Every step preserves InviteLimitKept.                                   *)
LEMMA LimitStep ==
  TypeOK /\ HandlersSound /\ RegisteredInTime /\ InviteLimitKept /\ [Next]_vars
    => InviteLimitKept'
<1> SUFFICES ASSUME TypeOK, HandlersSound, RegisteredInTime, InviteLimitKept, [Next]_vars,
                    NEW i \in Invites, invite'[i] # NULL
             PROVE  count_invite_users(i)' <= invite'[i].user_limit
  BY DEF InviteLimitKept
<1>1. ASSUME invite[i] # NULL,
             count_invite_users(i)' = count_invite_users(i)
      PROVE  count_invite_users(i)' <= invite'[i].user_limit
  BY <1>1, InviteChange DEF InviteLimitKept
<1>2. CASE \E u \in Users : register_insert(u)
  <2> PICK u \in Users : register_insert(u)
    BY <1>2
  <2>1. /\ invite' = invite
        /\ \A w \in Users : user[w] # NULL => user'[w] = user[w]
        /\ user[u] = NULL => user'[u] = NewUser(handler[u].invite_id)
        /\ \A w \in Users : w # u => user'[w] = user[w]
    BY RegisterEffect
  <2>2. CASE user[u] # NULL
    <3>1. \A w \in Users : user'[w] = user[w]
      BY <2>1, <2>2
    <3> QED BY <1>1, <2>1, <3>1, SameCount
  <2>3. CASE user[u] = NULL /\ i # handler[u].invite_id
    <3>1. UsersOf(i)' = UsersOf(i)
      BY <2>1, <2>3 DEF UsersOf, NewUser
    <3>2. count_invite_users(i)' = count_invite_users(i)
      BY <3>1 DEF UsersOf, count_invite_users
    <3> QED BY <1>1, <2>1, <3>2
  <2>4. CASE user[u] = NULL /\ i = handler[u].invite_id
    <3>1. UsersOf(i)' \subseteq UsersOf(i) \cup {u}
      BY <2>1, <2>4 DEF UsersOf
    <3>2. /\ IsFiniteSet(UsersOf(i) \cup {u})
          /\ Cardinality(UsersOf(i) \cup {u}) <= count_invite_users(i) + 1
          /\ Cardinality(UsersOf(i)') <= Cardinality(UsersOf(i) \cup {u})
      <4>1. u \notin UsersOf(i)
        BY <2>4 DEF UsersOf
      <4>2. IsFiniteSet(UsersOf(i) \cup {u})
        BY UsersCounted, FS_AddElement
      <4>3. Cardinality(UsersOf(i) \cup {u}) = count_invite_users(i) + 1
        BY <4>1, UsersCounted, FS_AddElement
      <4>4. Cardinality(UsersOf(i)') <= Cardinality(UsersOf(i) \cup {u})
        BY <3>1, <4>2, FS_Subset
      <4> QED BY <4>2, <4>3, <4>4, UsersCounted
    <3>3. ~(invite[i].user_limit <= count_invite_users(i)) /\ invite[i] # NULL
      BY <2>4, RegisterEffect DEF HandlersSound, LimitReached
    <3>4. invite[i].user_limit \in Nat
      BY <3>3, RowOrNull, RegistrationConstants DEF InviteRow
    <3>5. count_invite_users(i)' = Cardinality(UsersOf(i)')
      BY DEF count_invite_users, UsersOf
    <3>6. Cardinality(UsersOf(i)') \in Nat /\ count_invite_users(i) \in Nat
      BY <3>1, <3>2, UsersCounted, FS_Subset, FS_CardinalityType
    <3>7. Cardinality(UsersOf(i) \cup {u}) \in Nat
      BY <3>2, FS_CardinalityType
    <3> QED BY <2>1, <3>2, <3>3, <3>4, <3>5, <3>6, <3>7
  <2> QED BY <2>2, <2>3, <2>4
<1>3. CASE \E u \in Users, n \in Names : set_recovery_name(u, n)
  <2>1. \A w \in Users :
           /\ user'[w] = NULL <=> user[w] = NULL
           /\ user[w] # NULL => user'[w].invite_id = user[w].invite_id
    BY <1>3, NameEffect
  <2>2. invite' = invite
    BY <1>3 DEF set_recovery_name
  <2>3. count_invite_users(i)' = count_invite_users(i)
    BY <2>1, SameCount
  <2> QED BY <1>1, <2>2, <2>3
<1>4. CASE UNCHANGED user
  <2>1. count_invite_users(i)' = count_invite_users(i)
    BY <1>4, SameCount
  <2>2. CASE invite[i] # NULL
    BY <1>1, <2>1, <2>2
  <2>3. CASE invite[i] = NULL
    <3>1. UsersOf(i) = {}
      BY <2>3 DEF UsersOf, RegisteredInTime
    <3>2. count_invite_users(i) = 0
      BY <3>1, UsersCounted, FS_EmptySet
    <3>3. invite'[i] \in InviteRow
      BY TypeStep DEF TypeOK
    <3>4. invite'[i].user_limit \in Nat
      BY <3>3, RegistrationConstants DEF InviteRow
    <3> QED BY <2>1, <3>2, <3>4
  <2> QED BY <2>2, <2>3
<1> QED BY <1>2, <1>3, <1>4, UserChange

-----------------------------------------------------------------------------
(* The client's list.                                                      *)

(* No step removes a user or changes when and by which invite it came.     *)
LEMMA UsersStay ==
  ASSUME TypeOK, [Next]_vars
  PROVE  \A u \in Users : user[u] # NULL =>
           /\ user'[u] # NULL
           /\ user'[u].invite_id = user[u].invite_id
           /\ user'[u].created_at = user[u].created_at
<1>1. ASSUME NEW w \in Users, register_insert(w)
      PROVE  \A u \in Users : user[u] # NULL => user'[u] = user[u]
  BY <1>1, RegisterEffect
<1>2. ASSUME NEW w \in Users, NEW n \in Names, set_recovery_name(w, n)
      PROVE  \A u \in Users :
               /\ user'[u] = NULL <=> user[u] = NULL
               /\ user[u] # NULL => /\ user'[u].invite_id = user[u].invite_id
                                    /\ user'[u].created_at = user[u].created_at
  BY <1>2, NameEffect
<1> QED BY <1>1, <1>2, UserChange

(* Every step preserves what calls and clients' lists say.                 *)
LEMMA ListStep ==
  TypeOK /\ CallsTruthful /\ SavedIsRegistered /\ [Next]_vars
    => CallsTruthful' /\ SavedIsRegistered'
<1> SUFFICES ASSUME TypeOK, CallsTruthful, SavedIsRegistered, [Next]_vars
             PROVE  CallsTruthful' /\ SavedIsRegistered'
  OBVIOUS
<1>1. \A u \in Users : user[u] # NULL => user'[u] # NULL
  BY UsersStay
<1>2. ASSUME NEW u \in Users, call'[u].state = "accepted"
      PROVE  user'[u] # NULL
  <2>1. CASE call[u].state = "accepted"
    BY <1>1, <2>1 DEF CallsTruthful
  <2>2. CASE call[u].state # "accepted"
    <3>1. register_insert(u)
      <4>1. ASSUME NEW w \in Users, register_insert(w) PROVE register_insert(u)
        BY <1>2, <2>2, <4>1 DEF register_insert, TypeOK
      <4>2. ~ \E w \in Users : register_check(w)
        <5> SUFFICES ASSUME NEW w \in Users, register_check(w) PROVE FALSE
          OBVIOUS
        <5>1. w = u
          BY <1>2, <2>2 DEF register_check, TypeOK
        <5>2. PICK s \in {"handled", "rejected"} :
                call' = [call EXCEPT ![u] = [call[u] EXCEPT !.state = s]]
          BY <5>1 DEF register_check, TypeOK
        <5>3. call[u] \in [state : {"sent", "handled", "accepted", "rejected"},
                           invite_id : Invites]
          BY <5>1 DEF register_check, TypeOK, Call, NoCall
        <5>4. call'[u].state = s
          BY <5>2, <5>3 DEF TypeOK
        <5> QED BY <1>2, <5>4
      <4>3. ~ \E w \in Users : client_answered(w) \/ ConnectionLost(w)
        BY <1>2, <2>2 DEF client_answered, ConnectionLost, TypeOK, NoCall
      <4>4. ~ \E w \in Users, i \in Invites : client_register(w, i)
        BY <1>2, <2>2 DEF client_register, TypeOK
      <4>5. ~Crash
        BY <1>2 DEF Crash, NoCall
      <4>6. call' # call
        BY <1>2, <2>2
      <4> QED BY <4>1, <4>2, <4>3, <4>4, <4>5, <4>6
              DEF Next, vars, user_invite, invite_submit, recovery_submit,
                  user_recover, create_invite, create_recovery,
                  delete_daemon, set_recovery_name, Tick
    <3> QED BY <3>1, RegisterEffect
  <2> QED BY <2>1, <2>2
<1>3. ASSUME NEW u \in saved' PROVE user'[u] # NULL
  <2>1. CASE u \in saved
    BY <1>1, <2>1 DEF SavedIsRegistered, TypeOK
  <2>2. CASE u \notin saved
    <3>1. u \in Users /\ call[u].state = "accepted"
      <4>1. saved' = saved \/ (\E w \in Users : saved' = saved \ {w})
              \/ \E w \in Users : saved' = save_daemon(w)
        BY DEF Next, vars, user_invite, invite_submit, recovery_submit,
               user_recover, create_invite, create_recovery, register_check,
               register_insert, client_answered, ConnectionLost, delete_daemon,
               client_register, set_recovery_name, Tick, Crash
      <4> QED BY <1>3, <2>2, <4>1 DEF save_daemon
    <3> QED BY <1>1, <3>1 DEF CallsTruthful
  <2> QED BY <2>1, <2>2
<1> QED BY <1>2, <1>3 DEF CallsTruthful, SavedIsRegistered

-----------------------------------------------------------------------------
(* The theorems.                                                           *)

RegistrationInv ==
  /\ TypeOK
  /\ InvitesPast
  /\ HandlersSound
  /\ RegisteredInTime
  /\ InviteLimitKept
  /\ CallsTruthful
  /\ SavedIsRegistered

(* RegistrationInv is an invariant.                                        *)
LEMMA RegistrationInvariant == Spec => []RegistrationInv
<1>1. Init => RegistrationInv
  BY RegistrationConstants
  DEF Init, RegistrationInv, TypeOK, InvitesPast, HandlersSound, RegisteredInTime,
      InviteLimitKept, CallsTruthful, SavedIsRegistered, Call, NoCall
<1>2. RegistrationInv /\ [Next]_vars => RegistrationInv'
  BY TypeStep, PastStep, HandlerStep, InTimeStep, LimitStep, ListStep DEF RegistrationInv
<1> QED BY <1>1, <1>2, PTL DEF Spec

(* Tables keep the shape of their rows, and a call that is on its way      *)
(* names an invite (models.rs, client/rpc.rs).                             *)
THEOREM RegistrationTypes == Spec => []TypeOK
<1>1. RegistrationInv => TypeOK
  BY DEF RegistrationInv
<1> QED BY <1>1, RegistrationInvariant, PTL

(* No invite ever has more users than the operator allowed, for any number *)
(* of clients, invites and registrations in flight (client/rpc.rs          *)
(* register).                                                              *)
THEOREM LimitAlwaysKept == Spec => []InviteLimitKept
<1>1. RegistrationInv => InviteLimitKept
  BY DEF RegistrationInv
<1> QED BY <1>1, RegistrationInvariant, PTL

(* Every user came in on an invite that existed and had not expired when   *)
(* the handler, at most MaxHold before the insert, looked (client/rpc.rs   *)
(* register, client/db.rs register_user_with_invite).                      *)
THEOREM AlwaysRegisteredInTime == Spec => []RegisteredInTime
<1>1. RegistrationInv => RegisteredInTime
  BY DEF RegistrationInv
<1> QED BY <1>1, RegistrationInvariant, PTL

(* A client that lists the daemon is known to it, whatever calls and       *)
(* answers were lost (puncture-client lib.rs register, db.rs save_daemon). *)
THEOREM SavedAlwaysRegistered == Spec => []SavedIsRegistered
<1>1. RegistrationInv => SavedIsRegistered
  BY DEF RegistrationInv
<1> QED BY <1>1, RegistrationInvariant, PTL

(* No step takes a user away or moves it to another invite or date         *)
(* (client/db.rs register_user_with_invite).                               *)
THEOREM RegistrationIsPermanent == Spec => RegistrationPermanent
<1> DEFINE Kept ==
      \A u \in Users : user[u] # NULL =>
        /\ user'[u] # NULL
        /\ user'[u].invite_id = user[u].invite_id
        /\ user'[u].created_at = user[u].created_at
<1>1. RegistrationInv /\ [Next]_vars => [Kept]_vars
  BY UsersStay DEF RegistrationInv
<1>2. Spec => [][Kept]_vars
  BY <1>1, RegistrationInvariant, PTL DEF Spec
<1> QED BY <1>2 DEF RegistrationPermanent
=============================================================================
