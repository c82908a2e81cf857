--------------------------- MODULE AdminSessions ---------------------------
(***************************************************************************)
(* Logins, sessions and lockout of one account.  A login reads the account *)
(* row, verifies a password hash, and only then writes; changing the       *)
(* password or deactivating the account is an UPDATE followed by a DELETE  *)
(* of its sessions.  Each statement is its own transaction and handlers    *)
(* interleave between statements.  Accounts share no rows, so one account  *)
(* stands for each.                                                        *)
(*                                                                         *)
(* Time is kept as what is left of each deadline: a lock or session with 0 *)
(* left is over.  A password is right or wrong for the row that was read.  *)
(***************************************************************************)
EXTENDS Naturals

CONSTANTS
  Slots,              \* handlers that can be under way at the same time
  Tokens,             \* bound: as many sessions as this exist at once
  MaxFailedAttempts,
  LockoutDuration,    \* in ticks
  SessionTTL,         \* in ticks
  Faults              \* whether a write whose error is discarded may fail

ASSUME SessionsAssumption ==
  /\ MaxFailedAttempts \in Nat \ {0}
  /\ LockoutDuration \in Nat \ {0}
  /\ SessionTTL \in Nat \ {0}
  /\ Faults \in BOOLEAN

VARIABLES
  state,    \* admin_users: "active", "inactive", or "deleted" (no row)
  fails,    \* admin_users.failed_attempts
  lock,     \* what is left of admin_users.locked_until
  sess,     \* token -> its admin_sessions row
  slot,     \* slot -> the handler's local state
  streak,   \* history: failed checks since the counter was last cleared for good reason
  calm      \* history: no two writing handlers have been under way together, no write was lost

vars == <<state, fails, lock, sess, slot, streak, calm>>

\* stale: the password has changed since the login that made the row read it.
NoRow == [exists |-> FALSE, left |-> 0, stale |-> FALSE]

\* active, fails, lock, stale: a login's copy of the account row, then what it
\* will write.  token: the session a request presents.  sawActive, sawSession:
\* whether the account was active, the session good, since the request arrived.
IdleSlot ==
  [pc |-> "idle", active |-> FALSE, fails |-> 0, lock |-> 0, stale |-> FALSE,
   token |-> "none", sawActive |-> FALSE, sawSession |-> FALSE]

Init ==
  /\ state = "active"
  /\ fails = 0
  /\ lock = 0
  /\ sess = [t \in Tokens |-> NoRow]
  /\ slot = [h \in Slots |-> IdleSlot]
  /\ streak = 0
  /\ calm = TRUE

NoSessions == [t \in Tokens |-> NoRow]
Good(t) == sess[t].exists /\ sess[t].left > 0

\* A login or an administration is under way; requests only read.
Writing(h) == slot[h].pc \in {"check", "record", "create", "success", "drop"}
Alone == \A g, h \in Slots : Writing(g) /\ Writing(h) => g = h

\* Handler h goes on, or ends, and nobody else's handler moves.
Become(h, r) ==
  /\ slot' = [slot EXCEPT ![h] = r]
  /\ calm' = (calm /\ Alone')

----------------------------------------------------------------------------
(* Login. *)

\* FindUserByEmail; an unknown address ends the login without a write.
ReadAccount(h) ==
  /\ slot[h].pc = "idle"
  /\ state # "deleted"
  /\ Become(h, [IdleSlot EXCEPT !.pc = "check", !.active = (state = "active"),
                                !.fails = fails, !.lock = lock])
  /\ UNCHANGED <<state, fails, lock, sess, streak>>

\* A lock that is still running: 429, before the password is looked at; the
\* attempt does not prolong it.
LockAfterRefusal_Renewed == LockoutDuration
LockAfterRefusal == lock

RefuseLocked(h) ==
  /\ slot[h].pc = "check"
  /\ slot[h].lock > 0
  /\ Become(h, IdleSlot)
  /\ lock' = LockAfterRefusal
  /\ UNCHANGED <<state, fails, sess, streak>>

\* The row a failed check will write, computed from the copy it read.
Recorded_CountsOn(r) ==
  [fails |-> r.fails + 1,
   lock |-> IF r.fails + 1 >= MaxFailedAttempts THEN LockoutDuration ELSE 0]
Recorded(r) ==
  IF r.fails + 1 >= MaxFailedAttempts
    THEN [fails |-> 0, lock |-> LockoutDuration]
    ELSE [fails |-> r.fails + 1, lock |-> 0]

\* VerifyPassword: right and active, or a failed attempt.
Verify(h) ==
  /\ slot[h].pc = "check"
  /\ slot[h].lock = 0
  /\ \/ /\ slot[h].active
        /\ Become(h, [slot[h] EXCEPT !.pc = "create"])
        /\ UNCHANGED streak
     \/ /\ Become(h, [slot[h] EXCEPT !.pc = "record",
                        !.fails = Recorded(slot[h]).fails, !.lock = Recorded(slot[h]).lock])
        /\ streak' = IF streak <= MaxFailedAttempts THEN streak + 1 ELSE streak
  /\ UNCHANGED <<state, fails, lock, sess>>

\* RecordLoginFailure.  The account may be gone: no row, no error.
RecordFailure(h) ==
  /\ slot[h].pc = "record"
  /\ IF state = "deleted"
       THEN UNCHANGED <<fails, lock>>
       ELSE fails' = slot[h].fails /\ lock' = slot[h].lock
  /\ Become(h, IdleSlot)
  /\ UNCHANGED <<state, sess, streak>>

\* CreateSession: the foreign key wants the account row to be there.
AccountRowExists == state # "deleted"

\* A token is random: it is no session's, and no request under way presents it.
CreateSession(h) ==
  /\ slot[h].pc = "create"
  /\ AccountRowExists
  /\ \E t \in Tokens :
       /\ ~sess[t].exists
       /\ \A g \in Slots : slot[g].token # t
       /\ sess' = [sess EXCEPT ![t] =
                     [exists |-> TRUE, left |-> SessionTTL, stale |-> slot[h].stale]]
  /\ Become(h, [slot[h] EXCEPT !.pc = "success"])
  /\ UNCHANGED <<state, fails, lock, streak>>

RecordSuccess(h) ==
  /\ slot[h].pc = "success"
  /\ IF state = "deleted"
       THEN UNCHANGED <<fails, lock, streak>>
       ELSE fails' = 0 /\ lock' = 0 /\ streak' = 0
  /\ Become(h, IdleSlot)
  /\ UNCHANGED <<state, sess>>

----------------------------------------------------------------------------
(* Administration of the account. *)

\* SetPassword's UPDATE.  A login past ReadAccount verifies against the old hash.
ChangePassword(h) ==
  /\ slot[h].pc = "idle"
  /\ state # "deleted"
  /\ fails' = 0 /\ lock' = 0 /\ streak' = 0
  /\ sess' = [t \in Tokens |-> [sess[t] EXCEPT !.stale = sess[t].exists]]
  /\ slot' = [g \in Slots |->
       IF g = h THEN [IdleSlot EXCEPT !.pc = "drop"]
       ELSE [slot[g] EXCEPT !.stale = slot[g].pc \in {"check", "create"}]]
  /\ calm' = (calm /\ Alone')
  /\ UNCHANGED state

\* UpdateUser's UPDATE, to inactive (the last-admin guard let it through).
Deactivate(h) ==
  /\ slot[h].pc = "idle"
  /\ state # "deleted"
  /\ state' = "inactive"
  /\ Become(h, [IdleSlot EXCEPT !.pc = "drop"])
  /\ UNCHANGED <<fails, lock, sess, streak>>

\* DeleteUserSessions, the second statement of both.
Kept_All(r) == r
Kept(r) == [r EXCEPT !.exists = FALSE, !.left = 0, !.stale = FALSE]

DropSessions(h) ==
  /\ slot[h].pc = "drop"
  /\ sess' = [t \in Tokens |-> Kept(sess[t])]
  /\ Become(h, IdleSlot)
  /\ UNCHANGED <<state, fails, lock, streak>>

\* UpdateUser to active.  Requests under way may now find it so.
Activate ==
  /\ state # "deleted"
  /\ state' = "active"
  /\ slot' = [h \in Slots |->
       [slot[h] EXCEPT !.sawActive = slot[h].pc \in {"session", "user", "granted"}]]
  /\ UNCHANGED <<fails, lock, sess, streak, calm>>

\* DeleteUser: the sessions go with the row.
DeleteUser ==
  /\ state # "deleted"
  /\ state' = "deleted"
  /\ sess' = NoSessions
  /\ UNCHANGED <<fails, lock, slot, streak, calm>>

Logout(t) ==
  /\ sess[t].exists
  /\ sess' = [sess EXCEPT ![t] = NoRow]
  /\ UNCHANGED <<state, fails, lock, slot, streak, calm>>

----------------------------------------------------------------------------
(* A request with a session cookie. *)

StartRequest(h, t) ==
  /\ slot[h].pc = "idle"
  /\ Become(h, [IdleSlot EXCEPT !.pc = "session", !.token = t,
                  !.sawActive = (state = "active"), !.sawSession = Good(t)])
  /\ UNCHANGED <<state, fails, lock, sess, streak>>

\* FindSession: no row or an expired one is an anonymous request.
FindSession(h) ==
  /\ slot[h].pc = "session"
  /\ Become(h, IF Good(slot[h].token) THEN [slot[h] EXCEPT !.pc = "user"] ELSE IdleSlot)
  /\ UNCHANGED <<state, fails, lock, sess, streak>>

\* FindUserByID: a deactivated or deleted account is an anonymous request.
Resolvable_AnyAccount == state # "deleted"
Resolvable == state = "active"

FindUser(h) ==
  /\ slot[h].pc = "user"
  /\ Become(h, IF Resolvable THEN [slot[h] EXCEPT !.pc = "granted"] ELSE IdleSlot)
  /\ UNCHANGED <<state, fails, lock, sess, streak>>

Finish(h) ==
  /\ slot[h].pc = "granted"
  /\ Become(h, IdleSlot)
  /\ UNCHANGED <<state, fails, lock, sess, streak>>

\* A failed query ends the handler.
Abort(h) ==
  /\ slot[h].pc \in {"check", "create", "session", "user"}
  /\ Become(h, IdleSlot)
  /\ UNCHANGED <<state, fails, lock, sess, streak>>

\* Three writes have their error discarded: the caller is told of success (or of
\* a wrong password) all the same.
LoseWrite(h) ==
  /\ Faults
  /\ slot[h].pc \in {"record", "success", "drop"}
  /\ slot' = [slot EXCEPT ![h] = IdleSlot]
  /\ calm' = FALSE
  /\ UNCHANGED <<state, fails, lock, sess, streak>>

----------------------------------------------------------------------------
(* Time. *)

\* What is left of a deadline a tick later.
Elapsed(n) == IF n > 0 THEN n - 1 ELSE 0

Tick ==
  /\ lock' = Elapsed(lock)
  /\ sess' = [t \in Tokens |-> [sess[t] EXCEPT !.left = Elapsed(@)]]
  /\ slot' = [h \in Slots |-> [slot[h] EXCEPT !.lock = Elapsed(@)]]
  /\ streak' = IF lock = 1 \/ \E h \in Slots : slot[h].pc = "record" /\ slot[h].lock = 1
                 THEN 0 ELSE streak
  /\ UNCHANGED <<state, fails, calm>>

\* The hourly sweep.
Purgeable_Unexpired(r) == r.exists /\ r.left > 0
Purgeable(r) == r.exists /\ r.left = 0

Purge ==
  /\ \E t \in Tokens : Purgeable(sess[t])
  /\ sess' = [t \in Tokens |-> IF Purgeable(sess[t]) THEN NoRow ELSE sess[t]]
  /\ UNCHANGED <<state, fails, lock, slot, streak, calm>>

Login(h) ==
  \/ ReadAccount(h)
  \/ RefuseLocked(h)
  \/ Verify(h)
  \/ RecordFailure(h)
  \/ CreateSession(h)
  \/ RecordSuccess(h)

Administer(h) ==
  \/ ChangePassword(h)
  \/ Deactivate(h)
  \/ DropSessions(h)

Request(h) ==
  \/ \E t \in Tokens : StartRequest(h, t)
  \/ FindSession(h)
  \/ FindUser(h)
  \/ Finish(h)

Next ==
  \/ \E h \in Slots :
       Login(h) \/ Administer(h) \/ Request(h) \/ Abort(h) \/ LoseWrite(h)
  \/ Activate
  \/ DeleteUser
  \/ \E t \in Tokens : Logout(t)
  \/ Tick
  \/ Purge

Spec == Init /\ [][Next]_vars

\* Time passes, and the sweep comes round every hour.
FairSpec == Spec /\ WF_vars(Tick) /\ WF_vars(Purge)

----------------------------------------------------------------------------
(* Properties. *)

\* Every variable has its type.  The stored counter never reaches the limit: the
\* failure that would reach it writes a lock and a zero.  A login under way when
\* its account is deleted leaves no session behind.
TypeOK ==
  /\ state \in {"active", "inactive", "deleted"}
  /\ fails \in 0..(MaxFailedAttempts - 1)
  /\ lock \in 0..LockoutDuration
  /\ sess \in [Tokens -> [exists : BOOLEAN, left : 0..SessionTTL, stale : BOOLEAN]]
  /\ slot \in [Slots ->
       [pc : {"idle", "check", "record", "create", "success", "drop",
              "session", "user", "granted"},
        active : BOOLEAN, fails : 0..(MaxFailedAttempts - 1), lock : 0..LockoutDuration,
        stale : BOOLEAN, token : Tokens \union {"none"},
        sawActive : BOOLEAN, sawSession : BOOLEAN]]
  /\ streak \in 0..(MaxFailedAttempts + 1)
  /\ calm \in BOOLEAN
  /\ state = "deleted" => \A t \in Tokens : ~sess[t].exists

\* Resolve (service.go): "A user deactivated mid-session loses access on their
\* next request".  A request is granted only if its session was good when it
\* arrived and the account was active then or became so while it was served.
GrantsAreEntitled ==
  \A h \in Slots : slot[h].pc = "granted" => slot[h].sawActive /\ slot[h].sawSession

\* SetPassword (users.go): "I no longer trust what was open before".  Once a
\* password change has run to its end, no session rests on the old password.
PasswordChangeRevokes ==
  (\E t \in Tokens : sess[t].exists /\ sess[t].stale) => \E h \in Slots : slot[h].pc = "drop"

\* UpdateUser (users.go): "A deactivated account's live sessions must die with it".
DeactivationRevokes ==
  state = "inactive" /\ (\E t \in Tokens : sess[t].exists) =>
    \E h \in Slots : slot[h].pc = "drop"

\* service.go: "Five wrong passwords buys a fifteen-minute pause".  Once the
\* limit has been reached and every failure is written down, the account is
\* locked until the pause is over.
LockoutHolds ==
  /\ state # "deleted"
  /\ streak >= MaxFailedAttempts
  /\ \A h \in Slots : slot[h].pc # "record"
  => lock > 0

\* The three promises above are broken only by logins and administrations that
\* overlap or by a write whose error is discarded: until then they hold, whatever
\* else happens beside them.
PromisesKeptWhileCalm ==
  calm => PasswordChangeRevokes /\ DeactivationRevokes /\ LockoutHolds

\* service.go: "without ever permanently locking a real person out".
LockoutEnds == lock > 0 ~> lock = 0

\* main.go: "Expired sessions accumulate forever otherwise".
ExpiredArePurged ==
  \A t \in Tokens : sess[t].exists /\ sess[t].left = 0 ~> ~sess[t].exists
=============================================================================
