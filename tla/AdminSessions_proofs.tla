------------------------ MODULE AdminSessions_proofs ------------------------
(***************************************************************************)
(* For any number of handlers and sessions, any limit of failed attempts   *)
(* and any durations: a request is served only with a session that was     *)
(* good when it arrived and for an account that was active meanwhile; and  *)
(* the promises of a password change, a deactivation and a lockout hold as *)
(* long as no two writing handlers overlap and no write is lost.           *)
(***************************************************************************)
EXTENDS AdminSessions, TLAPS

-----------------------------------------------------------------------------
(* The handlers' local state *)

Pcs == {"idle", "check", "record", "create", "success", "drop",
        "session", "user", "granted"}

SlotType ==
  [pc : Pcs, active : BOOLEAN, fails : 0..(MaxFailedAttempts - 1),
   lock : 0..LockoutDuration, stale : BOOLEAN, token : Tokens \union {"none"},
   sawActive : BOOLEAN, sawSession : BOOLEAN]

SessType == [exists : BOOLEAN, left : 0..SessionTTL, stale : BOOLEAN]

Others(h) == \A g \in Slots : g # h => slot'[g] = slot[g]

LEMMA Limits ==
  /\ MaxFailedAttempts \in Nat /\ MaxFailedAttempts > 0
  /\ LockoutDuration \in Nat /\ LockoutDuration > 0
  /\ SessionTTL \in Nat /\ SessionTTL > 0
BY SessionsAssumption

LEMMA Typed ==
  ASSUME TypeOK
  PROVE  /\ slot \in [Slots -> SlotType]
         /\ sess \in [Tokens -> SessType]
         /\ state \in {"active", "inactive", "deleted"}
BY DEF TypeOK, SlotType, SessType, Pcs

LEMMA IdleTyped == IdleSlot \in SlotType /\ IdleSlot.pc = "idle" /\ IdleSlot.token = "none"
BY Limits DEF IdleSlot, SlotType, Pcs

LEMMA NoRowTyped == NoRow \in SessType /\ ~NoRow.exists /\ ~NoRow.stale
BY Limits DEF NoRow, SessType

\* A row the DELETE of an account's sessions takes.
LEMMA DroppedTyped ==
  ASSUME NEW s \in SessType
  PROVE  LET x == [s EXCEPT !.exists = FALSE, !.left = 0, !.stale = FALSE]
         IN  x \in SessType /\ ~x.exists /\ ~x.stale
<1>1. 0 \in 0..SessionTTL
  BY Limits
<1> QED
  BY <1>1 DEF SessType

\* A handler that goes on alone leaves the others where they are.
LEMMA GoesOn ==
  ASSUME slot \in [Slots -> SlotType], NEW h \in Slots, NEW r \in SlotType,
         slot' = [slot EXCEPT ![h] = r]
  PROVE  slot' \in [Slots -> SlotType] /\ slot'[h] = r /\ Others(h)
BY DEF Others

\* A step forward keeps the rest of a handler's state.
LEMMA PcSet ==
  ASSUME NEW s \in SlotType, NEW p \in Pcs
  PROVE  LET x == [s EXCEPT !.pc = p]
         IN  /\ x \in SlotType /\ x.pc = p
             /\ x.active = s.active /\ x.fails = s.fails /\ x.lock = s.lock
             /\ x.stale = s.stale /\ x.token = s.token
             /\ x.sawActive = s.sawActive /\ x.sawSession = s.sawSession
BY DEF SlotType

\* The handler's copy of the account row.
LEMMA CopyTyped ==
  ASSUME TypeOK
  PROVE  LET x == [IdleSlot EXCEPT !.pc = "check", !.active = (state = "active"),
                                   !.fails = fails, !.lock = lock]
         IN  /\ x \in SlotType /\ x.pc = "check" /\ (x.active <=> state = "active")
             /\ x.fails = fails /\ x.lock = lock /\ ~x.stale
BY DEF TypeOK, IdleSlot, SlotType, Pcs

\* What a failed check will write: never the limit itself, but a lock instead.
LEMMA RecordedTyped ==
  ASSUME NEW s \in SlotType
  PROVE  /\ Recorded(s).fails \in 0..(MaxFailedAttempts - 1)
         /\ Recorded(s).lock \in 0..LockoutDuration
         /\ Recorded(s).lock = 0 => Recorded(s).fails = s.fails + 1
<1>1. s.fails \in 0..(MaxFailedAttempts - 1)
  BY DEF SlotType
<1>2. CASE s.fails + 1 >= MaxFailedAttempts
  BY <1>1, <1>2, Limits DEF Recorded
<1>3. CASE ~(s.fails + 1 >= MaxFailedAttempts)
  BY <1>1, <1>3, Limits DEF Recorded
<1> QED
  BY <1>2, <1>3

LEMMA FailedTyped ==
  ASSUME NEW s \in SlotType
  PROVE  LET x == [s EXCEPT !.pc = "record", !.fails = Recorded(s).fails,
                            !.lock = Recorded(s).lock]
         IN  /\ x \in SlotType /\ x.pc = "record"
             /\ x.fails = Recorded(s).fails /\ x.lock = Recorded(s).lock
<1> DEFINE f == Recorded(s).fails
           l == Recorded(s).lock
<1>1. f \in 0..(MaxFailedAttempts - 1) /\ l \in 0..LockoutDuration
  BY RecordedTyped
<1> HIDE DEF f, l
<1>2. LET x == [s EXCEPT !.pc = "record", !.fails = f, !.lock = l]
      IN  x \in SlotType /\ x.pc = "record" /\ x.fails = f /\ x.lock = l
  BY <1>1 DEF SlotType, Pcs
<1> QED
  BY <1>2 DEF f, l

LEMMA RequestTyped ==
  ASSUME NEW t \in Tokens
  PROVE  LET x == [IdleSlot EXCEPT !.pc = "session", !.token = t,
                     !.sawActive = (state = "active"), !.sawSession = Good(t)]
         IN  Good(t) \in BOOLEAN =>
             /\ x \in SlotType /\ x.pc = "session" /\ x.token = t
             /\ (x.sawActive <=> state = "active") /\ (x.sawSession <=> Good(t))
<1> DEFINE a == (state = "active")
           b == Good(t)
<1> SUFFICES ASSUME b \in BOOLEAN
    PROVE  LET x == [IdleSlot EXCEPT !.pc = "session", !.token = t,
                       !.sawActive = a, !.sawSession = b]
           IN  /\ x \in SlotType /\ x.pc = "session" /\ x.token = t
               /\ (x.sawActive <=> a) /\ (x.sawSession <=> b)
  OBVIOUS
<1>1. a \in BOOLEAN
  OBVIOUS
<1>2. IdleSlot \in SlotType /\ "session" \in Pcs
  BY IdleTyped DEF Pcs
<1> HIDE DEF a, b
<1> QED
  BY <1>1, <1>2 DEF SlotType

LEMMA ElapsedTyped ==
  ASSUME NEW m \in Nat, NEW n \in 0..m
  PROVE  Elapsed(n) \in 0..m /\ Elapsed(n) <= n /\ (n = 0 => Elapsed(n) = 0)
BY DEF Elapsed

-----------------------------------------------------------------------------
(* What each action does to the handlers *)

\* Handlers keep their pc and token while the clock or an activation runs.
SamePcs == \A g \in Slots : slot'[g].pc = slot[g].pc /\ slot'[g].token = slot[g].token

LEMMA ActivateSlots ==
  ASSUME TypeOK, Activate
  PROVE  /\ slot' \in [Slots -> SlotType] /\ SamePcs
         /\ \A g \in Slots :
              /\ slot'[g].active = slot[g].active /\ slot'[g].fails = slot[g].fails
              /\ slot'[g].lock = slot[g].lock /\ slot'[g].stale = slot[g].stale
              /\ slot'[g].sawSession = slot[g].sawSession
              /\ slot[g].pc \in {"session", "user", "granted"} => slot'[g].sawActive
<1>1. ASSUME NEW g \in Slots
      PROVE  /\ slot'[g] \in SlotType /\ slot'[g].pc = slot[g].pc
             /\ slot'[g].token = slot[g].token
             /\ slot'[g].active = slot[g].active /\ slot'[g].fails = slot[g].fails
             /\ slot'[g].lock = slot[g].lock /\ slot'[g].stale = slot[g].stale
             /\ slot'[g].sawSession = slot[g].sawSession
             /\ slot[g].pc \in {"session", "user", "granted"} => slot'[g].sawActive
  <2> DEFINE b == slot[g].pc \in {"session", "user", "granted"}
  <2>1. slot'[g] = [slot[g] EXCEPT !.sawActive = b] /\ b \in BOOLEAN
    BY DEF Activate
  <2>2. slot[g] \in SlotType
    BY Typed
  <2> HIDE DEF b
  <2>3. slot'[g] \in SlotType /\ slot'[g].pc = slot[g].pc
             /\ slot'[g].token = slot[g].token
             /\ slot'[g].active = slot[g].active /\ slot'[g].fails = slot[g].fails
             /\ slot'[g].lock = slot[g].lock /\ slot'[g].stale = slot[g].stale
             /\ slot'[g].sawSession = slot[g].sawSession /\ (slot'[g].sawActive <=> b)
    BY <2>1, <2>2 DEF SlotType
  <2> QED
    BY <2>3 DEF b
<1>2. slot' = [g \in Slots |-> slot'[g]]
  BY DEF Activate
<1> QED
  BY <1>1, <1>2 DEF SamePcs

LEMMA TickSlots ==
  ASSUME TypeOK, Tick
  PROVE  /\ slot' \in [Slots -> SlotType] /\ SamePcs
         /\ \A g \in Slots :
              /\ slot'[g].active = slot[g].active /\ slot'[g].fails = slot[g].fails
              /\ slot'[g].lock = Elapsed(slot[g].lock) /\ slot'[g].stale = slot[g].stale
              /\ slot'[g].sawSession = slot[g].sawSession
              /\ slot'[g].sawActive = slot[g].sawActive
<1>1. ASSUME NEW g \in Slots
      PROVE  /\ slot'[g] \in SlotType /\ slot'[g].pc = slot[g].pc
             /\ slot'[g].token = slot[g].token
             /\ slot'[g].active = slot[g].active /\ slot'[g].fails = slot[g].fails
             /\ slot'[g].lock = Elapsed(slot[g].lock) /\ slot'[g].stale = slot[g].stale
             /\ slot'[g].sawSession = slot[g].sawSession
             /\ slot'[g].sawActive = slot[g].sawActive
  <2> DEFINE l == Elapsed(slot[g].lock)
  <2>1. slot'[g] = [slot[g] EXCEPT !.lock = l]
    BY DEF Tick
  <2>2. slot[g] \in SlotType /\ slot[g].lock \in 0..LockoutDuration
    BY Typed DEF SlotType
  <2>3. l \in 0..LockoutDuration
    BY <2>2, Limits, ElapsedTyped
  <2> HIDE DEF l
  <2>4. /\ slot'[g] \in SlotType /\ slot'[g].pc = slot[g].pc
        /\ slot'[g].token = slot[g].token
        /\ slot'[g].active = slot[g].active /\ slot'[g].fails = slot[g].fails
        /\ slot'[g].lock = l /\ slot'[g].stale = slot[g].stale
        /\ slot'[g].sawSession = slot[g].sawSession
        /\ slot'[g].sawActive = slot[g].sawActive
    BY <2>1, <2>2, <2>3 DEF SlotType
  <2> QED
    BY <2>4 DEF l
<1>2. slot' = [g \in Slots |-> slot'[g]]
  BY DEF Tick
<1> QED
  BY <1>1, <1>2 DEF SamePcs

\* A password change begins at h; the logins past their read become stale.
LEMMA ChangeSlots ==
  ASSUME TypeOK, NEW h \in Slots, ChangePassword(h)
  PROVE  /\ slot' \in [Slots -> SlotType] /\ slot'[h].pc = "drop" /\ slot'[h].token = "none"
         /\ \A g \in Slots : g # h =>
              /\ slot'[g].pc = slot[g].pc /\ slot'[g].token = slot[g].token
              /\ slot'[g].sawSession = slot[g].sawSession
              /\ slot'[g].sawActive = slot[g].sawActive
<1>1. ASSUME NEW g \in Slots, g # h
      PROVE  /\ slot'[g] \in SlotType /\ slot'[g].pc = slot[g].pc
             /\ slot'[g].token = slot[g].token
             /\ slot'[g].sawSession = slot[g].sawSession
             /\ slot'[g].sawActive = slot[g].sawActive
  <2> DEFINE b == slot[g].pc \in {"check", "create"}
  <2>1. slot'[g] = [slot[g] EXCEPT !.stale = b] /\ b \in BOOLEAN
    BY <1>1 DEF ChangePassword
  <2>2. slot[g] \in SlotType
    BY Typed
  <2> HIDE DEF b
  <2> QED
    BY <2>1, <2>2 DEF SlotType
<1>2. slot'[h] = [IdleSlot EXCEPT !.pc = "drop"]
  BY DEF ChangePassword
<1>3. slot'[h] \in SlotType /\ slot'[h].pc = "drop" /\ slot'[h].token = "none"
  <2>1. "drop" \in Pcs
    BY DEF Pcs
  <2> QED
    BY <1>2, <2>1, IdleTyped, PcSet
<1>4. slot' = [g \in Slots |-> slot'[g]]
  BY DEF ChangePassword
<1> QED
  BY <1>1, <1>3, <1>4

-----------------------------------------------------------------------------
(* Types *)

AccountOK ==
  /\ state \in {"active", "inactive", "deleted"}
  /\ fails \in 0..(MaxFailedAttempts - 1)
  /\ lock \in 0..LockoutDuration
  /\ streak \in 0..(MaxFailedAttempts + 1)

SessionsOK ==
  /\ sess \in [Tokens -> SessType]
  /\ state = "deleted" => \A t \in Tokens : ~sess[t].exists

LEMMA TypeParts ==
  TypeOK <=> AccountOK /\ SessionsOK /\ slot \in [Slots -> SlotType] /\ calm \in BOOLEAN
BY DEF TypeOK, AccountOK, SessionsOK, SlotType, SessType, Pcs

\* The four that start a login, an administration or a request, and where each
\* step of a handler leads.
LEMMA Steps ==
  ASSUME TypeOK, NEW h \in Slots
  PROVE  /\ ReadAccount(h) => \E r \in SlotType : Become(h, r) /\ r.pc = "check"
              /\ (r.active <=> state = "active") /\ r.fails = fails /\ r.lock = lock /\ ~r.stale
         /\ Verify(h) => \E r \in SlotType : Become(h, r) /\ r.pc \in {"create", "record"}
         /\ Deactivate(h) => \E r \in SlotType : Become(h, r) /\ r.pc = "drop"
         /\ CreateSession(h) => \E r \in SlotType : Become(h, r) /\ r.pc = "success"
         /\ FindSession(h) \/ FindUser(h) => \E r \in SlotType : Become(h, r)
         /\ RefuseLocked(h) \/ RecordFailure(h) \/ RecordSuccess(h) \/ DropSessions(h)
              \/ Finish(h) \/ Abort(h) => Become(h, IdleSlot)
<1>1. slot[h] \in SlotType
  BY Typed
<1>2. {"check", "create", "record", "drop", "success", "user", "granted"} \subseteq Pcs
  BY DEF Pcs
<1>3. ReadAccount(h) => \E r \in SlotType : Become(h, r) /\ r.pc = "check"
              /\ (r.active <=> state = "active") /\ r.fails = fails /\ r.lock = lock /\ ~r.stale
  BY CopyTyped DEF ReadAccount
<1>4. Verify(h) => \E r \in SlotType : Become(h, r) /\ r.pc \in {"create", "record"}
  <2>1. CASE slot[h].active /\ Become(h, [slot[h] EXCEPT !.pc = "create"])
    BY <1>1, <1>2, <2>1, PcSet
  <2>2. CASE Become(h, [slot[h] EXCEPT !.pc = "record", !.fails = Recorded(slot[h]).fails,
                                       !.lock = Recorded(slot[h]).lock])
    BY <1>1, <2>2, FailedTyped
  <2> QED
    BY <2>1, <2>2 DEF Verify
<1>5. Deactivate(h) => \E r \in SlotType : Become(h, r) /\ r.pc = "drop"
  BY <1>2, IdleTyped, PcSet DEF Deactivate
<1>6. CreateSession(h) => \E r \in SlotType : Become(h, r) /\ r.pc = "success"
  <2>1. "success" \in Pcs
    BY <1>2
  <2>2. [slot[h] EXCEPT !.pc = "success"] \in SlotType /\ [slot[h] EXCEPT !.pc = "success"].pc = "success"
    BY <1>1, <2>1, PcSet
  <2>3. CreateSession(h) => Become(h, [slot[h] EXCEPT !.pc = "success"])
    BY DEF CreateSession
  <2> QED
    BY <2>2, <2>3, Zenon
<1>7. FindSession(h) \/ FindUser(h) => \E r \in SlotType : Become(h, r)
  <2>1. [slot[h] EXCEPT !.pc = "user"] \in SlotType /\ [slot[h] EXCEPT !.pc = "granted"] \in SlotType
        /\ IdleSlot \in SlotType
    <3>1. "user" \in Pcs /\ "granted" \in Pcs
      BY <1>2
    <3>2. [slot[h] EXCEPT !.pc = "user"] \in SlotType
      BY <1>1, <3>1, PcSet
    <3>3. [slot[h] EXCEPT !.pc = "granted"] \in SlotType
      BY <1>1, <3>1, PcSet
    <3> QED BY <3>2, <3>3, IdleTyped
  <2>2. CASE FindSession(h)
    BY <2>1, <2>2 DEF FindSession
  <2>3. CASE FindUser(h)
    BY <2>1, <2>3 DEF FindUser
  <2> QED
    BY <2>2, <2>3
<1>8. RefuseLocked(h) \/ RecordFailure(h) \/ RecordSuccess(h) \/ DropSessions(h)
        \/ Finish(h) \/ Abort(h) => Become(h, IdleSlot)
  BY DEF RefuseLocked, RecordFailure, RecordSuccess, DropSessions, Finish, Abort
<1> QED
  BY <1>3, <1>4, <1>5, <1>6, <1>7, <1>8

LEMMA BecomeTyped ==
  ASSUME TypeOK, NEW h \in Slots, NEW r \in SlotType, Become(h, r)
  PROVE  /\ slot' \in [Slots -> SlotType] /\ calm' \in BOOLEAN
         /\ slot'[h] = r /\ Others(h)
         /\ calm' => calm /\ Alone'
BY Typed, GoesOn DEF Become, TypeOK

\* Sessions keep their type in every step, and a deleted account has none.
LEMMA SessionsKeep ==
  ASSUME TypeOK, Next
  PROVE  SessionsOK'
<1>1. SessionsOK /\ state \in {"active", "inactive", "deleted"}
  BY TypeParts, Typed
<1>2. ASSUME NEW h \in Slots, CreateSession(h) PROVE SessionsOK'
  <2> DEFINE st == slot[h].stale
  <2>1. PICK t \in Tokens :
          sess' = [sess EXCEPT ![t] = [exists |-> TRUE, left |-> SessionTTL, stale |-> st]]
    BY <1>2 DEF CreateSession
  <2>2. st \in BOOLEAN
    <3>1. slot[h] \in SlotType
      BY Typed
    <3> QED BY <3>1 DEF SlotType
  <2> HIDE DEF st
  <2>3. [exists |-> TRUE, left |-> SessionTTL, stale |-> st] \in SessType
    BY <2>2, Limits DEF SessType
  <2>4. sess' \in [Tokens -> SessType]
    BY <1>1, <2>1, <2>3 DEF SessionsOK
  <2>5. state' # "deleted"
    BY <1>2 DEF CreateSession, AccountRowExists
  <2> QED
    BY <2>4, <2>5 DEF SessionsOK
<1>3. ASSUME NEW h \in Slots, ChangePassword(h) PROVE SessionsOK'
  <2>1. sess' = [t \in Tokens |-> [sess[t] EXCEPT !.stale = sess[t].exists]] /\ state' # "deleted"
    BY <1>3 DEF ChangePassword
  <2>2. \A t \in Tokens : [sess[t] EXCEPT !.stale = sess[t].exists] \in SessType
    BY <1>1 DEF SessionsOK, SessType
  <2> QED
    BY <2>1, <2>2 DEF SessionsOK
<1>4. ASSUME NEW h \in Slots, DropSessions(h) PROVE SessionsOK'
  <2>1. sess' = [t \in Tokens |-> [sess[t] EXCEPT !.exists = FALSE, !.left = 0, !.stale = FALSE]]
    BY <1>4 DEF DropSessions, Kept
  <2>2. ASSUME NEW t \in Tokens
        PROVE  /\ [sess[t] EXCEPT !.exists = FALSE, !.left = 0, !.stale = FALSE] \in SessType
               /\ ~[sess[t] EXCEPT !.exists = FALSE, !.left = 0, !.stale = FALSE].exists
    BY <1>1, DroppedTyped DEF SessionsOK
  <2> QED
    BY <2>1, <2>2 DEF SessionsOK
<1>5. CASE Tick
  <2>1. ASSUME NEW t \in Tokens
        PROVE  sess'[t] \in SessType /\ sess'[t].exists = sess[t].exists
    <3> DEFINE l == Elapsed(sess[t].left)
    <3>1. sess'[t] = [sess[t] EXCEPT !.left = l]
      BY <1>5 DEF Tick
    <3>2. sess[t] \in SessType /\ sess[t].left \in 0..SessionTTL
      BY <1>1 DEF SessionsOK, SessType
    <3>3. l \in 0..SessionTTL
      BY <3>2, Limits, ElapsedTyped
    <3> HIDE DEF l
    <3> QED
      BY <3>1, <3>2, <3>3 DEF SessType
  <2>2. sess' = [t \in Tokens |-> sess'[t]] /\ state' = state
    BY <1>5 DEF Tick
  <2> QED
    BY <1>1, <2>1, <2>2 DEF SessionsOK
<1>6. CASE Purge
  <2>1. sess' = [t \in Tokens |-> IF Purgeable(sess[t]) THEN NoRow ELSE sess[t]] /\ state' = state
    BY <1>6 DEF Purge
  <2> QED
    BY <1>1, <2>1, NoRowTyped DEF SessionsOK
<1>7. ASSUME NEW t \in Tokens, Logout(t) PROVE SessionsOK'
  BY <1>1, <1>7, NoRowTyped DEF Logout, SessionsOK
<1>8. CASE DeleteUser
  BY <1>8, NoRowTyped DEF DeleteUser, NoSessions, SessionsOK
<1>9. ASSUME sess' = sess, state' # "deleted" \/ state' = state PROVE SessionsOK'
  BY <1>1, <1>9 DEF SessionsOK
<1>10. CASE Activate
  BY <1>10, <1>9 DEF Activate
<1>11. ASSUME NEW h \in Slots,
         ReadAccount(h) \/ RefuseLocked(h) \/ Verify(h) \/ RecordFailure(h) \/ RecordSuccess(h)
         \/ Deactivate(h) \/ Request(h) \/ Abort(h) \/ LoseWrite(h)
       PROVE SessionsOK'
  BY <1>11, <1>9 DEF ReadAccount, RefuseLocked, Verify, RecordFailure, RecordSuccess,
     Deactivate, Request, StartRequest, FindSession, FindUser, Finish, Abort, LoseWrite
<1> QED
  BY <1>2, <1>3, <1>4, <1>5, <1>6, <1>7, <1>8, <1>10, <1>11 DEF Next, Login, Administer

\* So do the account row's columns.
LEMMA AccountKeeps ==
  ASSUME TypeOK, Next
  PROVE  AccountOK'
<1>1. AccountOK
  BY TypeParts
<1>2. 0 \in 0..(MaxFailedAttempts - 1) /\ 0 \in 0..LockoutDuration /\ 0 \in 0..(MaxFailedAttempts + 1)
  BY Limits
<1>3. ASSUME NEW h \in Slots, RecordFailure(h) PROVE AccountOK'
  <2>1. slot[h] \in SlotType
    BY Typed
  <2>2. slot[h].fails \in 0..(MaxFailedAttempts - 1) /\ slot[h].lock \in 0..LockoutDuration
    BY <2>1 DEF SlotType
  <2> QED
    BY <1>1, <1>3, <2>2 DEF RecordFailure, AccountOK
<1>4. ASSUME NEW h \in Slots, Verify(h) PROVE AccountOK'
  <2>1. state' = state /\ fails' = fails /\ lock' = lock
        /\ (streak' = streak \/ (streak <= MaxFailedAttempts /\ streak' = streak + 1))
    BY <1>4 DEF Verify
  <2>2. streak' \in 0..(MaxFailedAttempts + 1)
    BY <1>1, <2>1, Limits DEF AccountOK
  <2> QED
    BY <1>1, <2>1, <2>2 DEF AccountOK
<1>5. ASSUME NEW h \in Slots, RecordSuccess(h) \/ ChangePassword(h) \/ Deactivate(h) PROVE AccountOK'
  BY <1>1, <1>2, <1>5 DEF RecordSuccess, ChangePassword, Deactivate, AccountOK
<1>6. CASE Tick
  <2>1. lock' \in 0..LockoutDuration
    BY <1>1, <1>6, Limits, ElapsedTyped DEF Tick, AccountOK
  <2>2. state' = state /\ fails' = fails /\ (streak' = 0 \/ streak' = streak)
    BY <1>6 DEF Tick
  <2> QED
    BY <1>1, <1>2, <2>1, <2>2 DEF AccountOK
<1>7. CASE Activate \/ DeleteUser
  BY <1>1, <1>7 DEF Activate, DeleteUser, AccountOK
<1>8. ASSUME UNCHANGED <<state, fails, lock, streak>> PROVE AccountOK'
  BY <1>1, <1>8 DEF AccountOK
<1>9. ASSUME NEW h \in Slots,
        ReadAccount(h) \/ RefuseLocked(h) \/ CreateSession(h) \/ DropSessions(h)
        \/ Request(h) \/ Abort(h) \/ LoseWrite(h)
      PROVE  AccountOK'
  BY <1>8, <1>9 DEF ReadAccount, RefuseLocked, LockAfterRefusal, CreateSession, DropSessions,
     Request, StartRequest, FindSession, FindUser, Finish, Abort, LoseWrite
<1>10. ASSUME NEW t \in Tokens, Logout(t) PROVE AccountOK'
  BY <1>8, <1>10 DEF Logout
<1>11. CASE Purge
  BY <1>8, <1>11 DEF Purge
<1> QED
  BY <1>3, <1>4, <1>5, <1>6, <1>7, <1>9, <1>10, <1>11 DEF Next, Login, Administer

\* And the handlers.
LEMMA SlotsKeep ==
  ASSUME TypeOK, Next
  PROVE  slot' \in [Slots -> SlotType] /\ calm' \in BOOLEAN
<1>1. slot \in [Slots -> SlotType] /\ calm \in BOOLEAN
  BY TypeParts
<1>2. ASSUME NEW h \in Slots, Login(h) \/ Deactivate(h) \/ DropSessions(h)
                              \/ FindSession(h) \/ FindUser(h) \/ Finish(h) \/ Abort(h)
      PROVE  \E r \in SlotType : Become(h, r)
  BY <1>2, Steps, IdleTyped DEF Login
<1>3. ASSUME NEW h \in Slots, NEW t \in Tokens, StartRequest(h, t)
      PROVE  \E r \in SlotType : Become(h, r)
  <2>1. Good(t) \in BOOLEAN
    BY DEF Good
  <2> QED
    BY <1>3, <2>1, RequestTyped DEF StartRequest
<1>4. ASSUME NEW h \in Slots, ChangePassword(h)
      PROVE  slot' \in [Slots -> SlotType] /\ calm' \in BOOLEAN
  BY <1>1, <1>4, ChangeSlots DEF ChangePassword
<1>5. ASSUME NEW h \in Slots, LoseWrite(h)
      PROVE  slot' \in [Slots -> SlotType] /\ calm' \in BOOLEAN
  BY <1>1, <1>5, IdleTyped DEF LoseWrite
<1>6. CASE Activate
  BY <1>1, <1>6, ActivateSlots DEF Activate
<1>7. CASE Tick
  BY <1>1, <1>7, TickSlots DEF Tick
<1>8. CASE DeleteUser \/ Purge \/ \E t \in Tokens : Logout(t)
  BY <1>1, <1>8 DEF DeleteUser, Purge, Logout
<1> QED
  BY <1>2, <1>3, <1>4, <1>5, <1>6, <1>7, <1>8, BecomeTyped DEF Next, Administer, Request

\* Every variable keeps its type; the stored counter stays below the limit, and
\* a deleted account has no session, whatever login was under way.
THEOREM TypeCorrect == Spec => []TypeOK
<1>1. Init => TypeOK
  <2> SUFFICES ASSUME Init PROVE TypeOK
    OBVIOUS
  <2>1. AccountOK
    BY Limits DEF Init, AccountOK
  <2>2. SessionsOK /\ slot \in [Slots -> SlotType] /\ calm \in BOOLEAN
    BY NoRowTyped, IdleTyped DEF Init, SessionsOK
  <2> QED
    BY <2>1, <2>2, TypeParts
<1>2. TypeOK /\ [Next]_vars => TypeOK'
  <2> SUFFICES ASSUME TypeOK, [Next]_vars PROVE TypeOK'
    OBVIOUS
  <2>1. CASE Next
    <3>1. AccountOK' /\ SessionsOK' /\ slot' \in [Slots -> SlotType] /\ calm' \in BOOLEAN
      BY <2>1, AccountKeeps, SessionsKeep, SlotsKeep
    <3> QED
      BY <3>1 DEF TypeOK, AccountOK, SessionsOK, SlotType, SessType, Pcs
  <2>2. CASE UNCHANGED vars
    BY <2>2 DEF vars, TypeOK
  <2> QED
    BY <2>1, <2>2
<1> QED
  BY <1>1, <1>2, PTL DEF Spec

-----------------------------------------------------------------------------
(* Requests *)

\* A request still on its way to the session row has seen it good if it is good
\* now; one on its way to the account row has seen the account active if it is.
Entitled(h) ==
  /\ slot[h].pc = "session" => /\ slot[h].token \in Tokens
                               /\ Good(slot[h].token) => slot[h].sawSession
  /\ slot[h].pc \in {"user", "granted"} => slot[h].sawSession
  /\ slot[h].pc \in {"session", "user"} /\ state = "active" => slot[h].sawActive
  /\ slot[h].pc = "granted" => slot[h].sawActive

RequestInv == \A h \in Slots : Entitled(h)

\* Only a new session becomes good, and no request under way presents it.
LEMMA OnlyNewSessionsAreGood ==
  ASSUME TypeOK, Next, NEW t \in Tokens, Good(t)', NEW g \in Slots, slot[g].token = t
  PROVE  Good(t)
<1>1. sess \in [Tokens -> SessType]
  BY Typed
<1>2. ASSUME NEW h \in Slots, CreateSession(h) PROVE Good(t)
  <2>1. sess'[t] = sess[t]
    BY <1>1, <1>2 DEF CreateSession
  <2> QED
    BY <2>1 DEF Good
<1>3. ASSUME NEW h \in Slots, ChangePassword(h) PROVE Good(t)
  <2>1. sess'[t] = [sess[t] EXCEPT !.stale = sess[t].exists]
    BY <1>3 DEF ChangePassword
  <2>2. sess'[t].exists = sess[t].exists /\ sess'[t].left = sess[t].left
    BY <1>1, <2>1 DEF SessType
  <2> QED
    BY <2>2 DEF Good
<1>4. ASSUME NEW h \in Slots, DropSessions(h) PROVE Good(t)
  <2>1. sess'[t] = [sess[t] EXCEPT !.exists = FALSE, !.left = 0, !.stale = FALSE]
    BY <1>4 DEF DropSessions, Kept
  <2>2. ~sess'[t].exists
    BY <1>1, <2>1, DroppedTyped
  <2> QED
    BY <2>2 DEF Good
<1>5. CASE Tick
  <2>1. sess'[t] = [sess[t] EXCEPT !.left = Elapsed(sess[t].left)]
    BY <1>5 DEF Tick
  <2>2. sess'[t].exists = sess[t].exists /\ sess'[t].left = Elapsed(sess[t].left)
    BY <1>1, <2>1 DEF SessType
  <2>3. sess[t].left \in 0..SessionTTL
    BY <1>1 DEF SessType
  <2>4. Elapsed(sess[t].left) > 0 => sess[t].left > 0
    BY <2>3, Limits DEF Elapsed
  <2> QED
    BY <2>2, <2>4 DEF Good
<1>6. CASE Purge
  BY <1>1, <1>6, NoRowTyped DEF Purge, Good
<1>7. ASSUME NEW u \in Tokens, Logout(u) PROVE Good(t)
  BY <1>1, <1>7, NoRowTyped DEF Logout, Good
<1>8. CASE DeleteUser
  BY <1>8, NoRowTyped DEF DeleteUser, NoSessions, Good
<1>9. CASE sess' = sess
  BY <1>9 DEF Good
<1> QED
  BY <1>2, <1>3, <1>4, <1>5, <1>6, <1>7, <1>8, <1>9
     DEF Next, Login, Administer, Request, ReadAccount, RefuseLocked, Verify, RecordFailure,
         RecordSuccess, Deactivate, StartRequest, FindSession, FindUser, Finish, Abort,
         LoseWrite, Activate

\* What did not move and met no activation is as entitled as it was.
LEMMA EntitledStays ==
  ASSUME TypeOK, Next, NEW g \in Slots, Entitled(g),
         slot'[g].pc = slot[g].pc, slot'[g].token = slot[g].token,
         slot'[g].sawSession = slot[g].sawSession, slot'[g].sawActive = slot[g].sawActive,
         state' = "active" => state = "active"
  PROVE  Entitled(g)'
<1>1. slot[g].pc = "session" => (Good(slot[g].token)' => Good(slot[g].token))
  <2> DEFINE t == slot[g].token
  <2> SUFFICES ASSUME slot[g].pc = "session" PROVE Good(t)' => Good(t)
    BY DEF Good
  <2>1. t \in Tokens
    BY DEF Entitled
  <2> QED
    BY <2>1, OnlyNewSessionsAreGood DEF Good
<1> QED
  BY <1>1 DEF Entitled

LEMMA RequestsKeep ==
  ASSUME TypeOK, RequestInv, [Next]_vars
  PROVE  RequestInv'
<1>1. CASE UNCHANGED vars
  BY <1>1 DEF vars, RequestInv, Entitled, Good
<1> SUFFICES ASSUME Next PROVE RequestInv'
  BY <1>1
<1>2. CASE Activate
  <2>1. SUFFICES ASSUME NEW g \in Slots PROVE Entitled(g)'
    BY DEF RequestInv
  <2>2. /\ slot'[g].pc = slot[g].pc /\ slot'[g].token = slot[g].token
        /\ slot'[g].sawSession = slot[g].sawSession
        /\ slot[g].pc \in {"session", "user", "granted"} => slot'[g].sawActive
    BY <1>2, ActivateSlots DEF SamePcs
  <2>3. sess' = sess
    BY <1>2 DEF Activate
  <2> QED
    BY <2>2, <2>3 DEF RequestInv, Entitled, Good
<1>3. ASSUME ~Activate PROVE state' = "active" => state = "active"
  BY <1>3 DEF Next, Login, Administer, Request, ReadAccount, RefuseLocked, Verify,
     RecordFailure, CreateSession, RecordSuccess, ChangePassword, Deactivate, DropSessions,
     StartRequest, FindSession, FindUser, Finish, Abort, LoseWrite, DeleteUser, Logout, Tick, Purge
<1>4. ASSUME ~Activate, NEW h \in Slots, Others(h), Entitled(h)' PROVE RequestInv'
  <2>1. SUFFICES ASSUME NEW g \in Slots, g # h PROVE Entitled(g)'
    BY <1>4 DEF RequestInv
  <2> QED
    BY <1>3, <1>4, <2>1, EntitledStays DEF RequestInv, Others
<1>5. ASSUME ~Activate, \A g \in Slots : Entitled(g) => Entitled(g)' PROVE RequestInv'
  BY <1>5 DEF RequestInv
<1>6. ASSUME NEW h \in Slots, Login(h) \/ Deactivate(h) \/ DropSessions(h) \/ Finish(h) \/ Abort(h),
             ~Activate
      PROVE  RequestInv'
  <2>1. PICK r \in SlotType : Become(h, r) /\ r.pc \notin {"session", "user", "granted"}
    <3>1. \A p \in {"check", "create", "record", "drop", "success", "idle"} :
            p \notin {"session", "user", "granted"}
      OBVIOUS
    <3> QED
      BY <1>6, <3>1, Steps, IdleTyped DEF Login
  <2>2. slot'[h] = r /\ Others(h)
    BY <2>1, BecomeTyped
  <2>3. Entitled(h)'
    BY <2>1, <2>2 DEF Entitled
  <2> QED
    BY <1>4, <1>6, <2>2, <2>3
<1>7. ASSUME NEW h \in Slots, ChangePassword(h), ~Activate PROVE RequestInv'
  <2>1. SUFFICES ASSUME NEW g \in Slots PROVE Entitled(g)'
    BY DEF RequestInv
  <2>2. CASE g = h
    BY <1>7, <2>2, ChangeSlots DEF Entitled
  <2>3. CASE g # h
    BY <1>3, <1>7, <2>3, ChangeSlots, EntitledStays DEF RequestInv
  <2> QED BY <2>2, <2>3
<1>8. ASSUME NEW h \in Slots, NEW t \in Tokens, StartRequest(h, t), ~Activate PROVE RequestInv'
  <2>1. Good(t) \in BOOLEAN
    BY DEF Good
  <2>2. PICK r \in SlotType : /\ Become(h, r) /\ r.pc = "session" /\ r.token = t
                              /\ (r.sawActive <=> state = "active") /\ (r.sawSession <=> Good(t))
    BY <1>8, <2>1, RequestTyped DEF StartRequest
  <2>3. slot'[h] = r /\ Others(h)
    BY <2>2, BecomeTyped
  <2>4. UNCHANGED <<state, sess>>
    BY <1>8 DEF StartRequest
  <2>5. Entitled(h)'
    BY <2>2, <2>3, <2>4 DEF Entitled, Good
  <2> QED
    BY <1>4, <1>8, <2>3, <2>5
<1>9. ASSUME NEW h \in Slots, FindSession(h) \/ FindUser(h), ~Activate PROVE RequestInv'
  <2>1. slot[h] \in SlotType /\ "user" \in Pcs /\ "granted" \in Pcs /\ Entitled(h)
    BY Typed DEF Pcs, RequestInv
  <2>2. UNCHANGED <<state, sess>>
    BY <1>9 DEF FindSession, FindUser
  <2>3. CASE Become(h, IdleSlot)
    <3>1. slot'[h] = IdleSlot /\ Others(h)
      BY <2>3, IdleTyped, BecomeTyped
    <3>2. Entitled(h)'
      BY <3>1, IdleTyped DEF Entitled
    <3> QED
      BY <1>4, <1>9, <3>1, <3>2
  <2>4. CASE FindSession(h) /\ Good(slot[h].token)
    <3> DEFINE x == [slot[h] EXCEPT !.pc = "user"]
    <3>1. x \in SlotType /\ x.pc = "user" /\ x.sawSession = slot[h].sawSession
          /\ x.sawActive = slot[h].sawActive
      BY <2>1, PcSet
    <3>2. Become(h, x) /\ slot[h].pc = "session"
      BY <2>4 DEF FindSession
    <3>3. slot'[h] = x /\ Others(h)
      BY <3>1, <3>2, BecomeTyped
    <3>4. Entitled(h)'
      BY <2>1, <2>2, <2>4, <3>1, <3>2, <3>3 DEF Entitled
    <3> QED
      BY <1>4, <1>9, <3>3, <3>4
  <2>5. CASE FindUser(h) /\ Resolvable
    <3> DEFINE x == [slot[h] EXCEPT !.pc = "granted"]
    <3>1. x \in SlotType /\ x.pc = "granted" /\ x.sawSession = slot[h].sawSession
          /\ x.sawActive = slot[h].sawActive
      BY <2>1, PcSet
    <3>2. Become(h, x) /\ slot[h].pc = "user" /\ state = "active"
      BY <2>5 DEF FindUser, Resolvable
    <3>3. slot'[h] = x /\ Others(h)
      BY <3>1, <3>2, BecomeTyped
    <3>4. Entitled(h)'
      BY <2>1, <3>1, <3>2, <3>3 DEF Entitled
    <3> QED
      BY <1>4, <1>9, <3>3, <3>4
  <2> QED
    BY <1>9, <2>3, <2>4, <2>5 DEF FindSession, FindUser
<1>10. ASSUME NEW h \in Slots, LoseWrite(h), ~Activate PROVE RequestInv'
  <2>1. slot'[h] = IdleSlot /\ Others(h)
    BY <1>10, Typed, IdleTyped, GoesOn DEF LoseWrite
  <2>2. Entitled(h)'
    BY <2>1, IdleTyped DEF Entitled
  <2> QED
    BY <1>4, <1>10, <2>1, <2>2
<1>11. ASSUME Tick, ~Activate PROVE RequestInv'
  BY <1>3, <1>11, <1>5, TickSlots, EntitledStays DEF SamePcs
<1>12. ASSUME DeleteUser \/ Purge \/ (\E t \in Tokens : Logout(t)), ~Activate PROVE RequestInv'
  <2>1. slot' = slot
    BY <1>12 DEF DeleteUser, Purge, Logout
  <2> QED
    BY <1>3, <1>12, <1>5, <2>1, EntitledStays
<1> QED
  BY <1>2, <1>6, <1>7, <1>8, <1>9, <1>10, <1>11, <1>12 DEF Next, Administer, Request

\* "A user deactivated mid-session loses access on their next request": a request
\* is granted only for a session that was good when it arrived and an account
\* that was active then or became so while it was served.
THEOREM RequestsAreEntitled == Spec => []GrantsAreEntitled
<1>1. Init => RequestInv
  BY IdleTyped DEF Init, RequestInv, Entitled
<1>2. RequestInv => GrantsAreEntitled
  BY DEF RequestInv, Entitled, GrantsAreEntitled
<1> QED
  BY <1>1, <1>2, RequestsKeep, TypeCorrect, PTL DEF Spec

-----------------------------------------------------------------------------
(* The promises, while writers do not overlap *)

\* A login's copy of the row is what the row still says, it is no login of a
\* changed password or a deactivated account, and what a failed check will write
\* accounts for every failure.
WriterInv(h) ==
  /\ slot[h].pc \in {"check", "create"} => ~slot[h].stale
  /\ state = "inactive" => slot[h].pc # "create" /\ (slot[h].pc = "check" => ~slot[h].active)
  /\ state # "deleted" =>
       /\ slot[h].pc = "check" => slot[h].fails = fails /\ slot[h].lock = lock
       /\ slot[h].pc = "record" /\ slot[h].lock = 0 => streak <= slot[h].fails

\* Without a lock the stored counter accounts for every failure.
AccountInv ==
  state # "deleted" /\ lock = 0 /\ (\A h \in Slots : slot[h].pc # "record") => streak <= fails

CalmInv ==
  calm => /\ Alone
          /\ \A h \in Slots : WriterInv(h)
          /\ PasswordChangeRevokes
          /\ DeactivationRevokes
          /\ AccountInv

\* A step of a writer leaves only readers beside it.
LEMMA OthersRead ==
  ASSUME TypeOK, CalmInv, calm', NEW h \in Slots, NEW r \in SlotType, Become(h, r),
         Writing(h) \/ r.pc \in {"check", "record", "create", "success", "drop"}
  PROVE  /\ calm /\ Alone' /\ slot'[h] = r /\ Others(h)
         /\ \A g \in Slots : g # h => ~Writing(g) /\ ~Writing(g)' /\ WriterInv(g)'
<1>1. calm /\ Alone' /\ slot'[h] = r /\ Others(h)
  BY BecomeTyped
<1>2. ASSUME NEW g \in Slots, g # h PROVE ~Writing(g)' /\ ~Writing(g)
  <2>1. slot'[g] = slot[g]
    BY <1>1, <1>2 DEF Others
  <2>2. CASE Writing(h)
    BY <1>1, <1>2, <2>1, <2>2 DEF CalmInv, Alone, Writing
  <2>3. CASE r.pc \in {"check", "record", "create", "success", "drop"}
    <3>1. Writing(h)'
      BY <1>1, <2>3 DEF Writing
    <3> QED
      BY <1>1, <1>2, <2>1, <3>1 DEF Alone, Writing
  <2> QED BY <2>2, <2>3
<1>3. ASSUME NEW g \in Slots, ~Writing(g)' PROVE WriterInv(g)'
  BY <1>3 DEF Writing, WriterInv
<1> QED
  BY <1>1, <1>2, <1>3

\* The steps of a login.
LEMMA LoginKeepsCalm ==
  ASSUME TypeOK, CalmInv, calm', NEW h \in Slots, Login(h)
  PROVE  CalmInv'
<1>1. slot[h] \in SlotType /\ AccountOK /\ sess \in [Tokens -> SessType]
  BY Typed, TypeParts
<1>2. PICK r \in SlotType :
        /\ Become(h, r)
        /\ Writing(h) \/ r.pc \in {"check", "record", "create", "success", "drop"}
  <2>1. ReadAccount(h) \/ Writing(h)
    BY DEF Login, Writing, RefuseLocked, Verify, RecordFailure, CreateSession, RecordSuccess
  <2> QED
    BY <2>1, Steps, IdleTyped DEF Login
<1>3. /\ calm /\ Alone' /\ slot'[h] = r /\ Others(h)
      /\ \A g \in Slots : g # h => ~Writing(g) /\ ~Writing(g)' /\ WriterInv(g)'
  BY <1>2, OthersRead
<1>4. WriterInv(h) /\ PasswordChangeRevokes /\ DeactivationRevokes /\ AccountInv
  BY <1>3 DEF CalmInv
<1>5. \A g \in Slots : g # h => slot[g].pc # "record" /\ slot'[g].pc # "record"
                               /\ slot[g].pc # "drop" /\ slot'[g].pc # "drop"
  BY <1>3 DEF Writing
<1>6. slot[h].pc # "drop"
  BY DEF Login, ReadAccount, RefuseLocked, Verify, RecordFailure, CreateSession, RecordSuccess
<1>7. \A g \in Slots : slot[g].pc # "drop"
  BY <1>5, <1>6
<1>8. /\ \A t \in Tokens : ~(sess[t].exists /\ sess[t].stale)
      /\ state = "inactive" => \A t \in Tokens : ~sess[t].exists
  BY <1>4, <1>7 DEF PasswordChangeRevokes, DeactivationRevokes
<1>9. state' = state
  BY DEF Login, ReadAccount, RefuseLocked, Verify, RecordFailure, CreateSession, RecordSuccess
<1>10. PasswordChangeRevokes' /\ DeactivationRevokes'
  <2>1. CASE sess' = sess
    BY <1>8, <1>9, <2>1 DEF PasswordChangeRevokes, DeactivationRevokes
  <2>2. CASE CreateSession(h)
    <3> DEFINE st == slot[h].stale
    <3>1. PICK t \in Tokens :
            sess' = [sess EXCEPT ![t] = [exists |-> TRUE, left |-> SessionTTL, stale |-> st]]
      BY <2>2 DEF CreateSession
    <3>2. ~st /\ state # "inactive"
      BY <1>4, <2>2 DEF CreateSession, WriterInv
    <3> HIDE DEF st
    <3>3. \A u \in Tokens : ~(sess'[u].exists /\ sess'[u].stale)
      BY <1>1, <1>8, <3>1, <3>2
    <3> QED
      BY <1>9, <3>2, <3>3 DEF PasswordChangeRevokes, DeactivationRevokes
  <2> QED
    BY <2>1, <2>2 DEF Login, ReadAccount, RefuseLocked, Verify, RecordFailure, RecordSuccess
<1>11. WriterInv(h)' /\ AccountInv'
  <2>1. CASE ReadAccount(h)
    <3>1. PICK x \in SlotType : Become(h, x) /\ x.pc = "check"
              /\ (x.active <=> state = "active") /\ x.fails = fails /\ x.lock = lock /\ ~x.stale
      BY <2>1, Steps
    <3>2. slot'[h] = x
      BY <3>1, BecomeTyped
    <3>3. UNCHANGED <<fails, lock, streak>> /\ slot[h].pc = "idle"
      BY <2>1 DEF ReadAccount
    <3>4. WriterInv(h)'
      BY <1>9, <3>1, <3>2, <3>3 DEF WriterInv
    <3>5. AccountInv'
      BY <1>4, <1>5, <1>9, <3>3 DEF AccountInv
    <3> QED BY <3>4, <3>5
  <2>2. CASE RefuseLocked(h) \/ RecordFailure(h) \/ RecordSuccess(h)
    <3>1. slot'[h].pc = "idle"
      BY <2>2, Steps, IdleTyped, BecomeTyped
    <3>2. WriterInv(h)'
      BY <3>1 DEF WriterInv
    <3>3. CASE RefuseLocked(h)
      BY <1>4, <1>5, <1>9, <3>2, <3>3 DEF RefuseLocked, LockAfterRefusal, AccountInv
    <3>4. CASE RecordFailure(h)
      <4>1. SUFFICES ASSUME state # "deleted", slot[h].lock = 0 PROVE streak <= slot[h].fails
        BY <1>9, <3>2, <3>4 DEF RecordFailure, AccountInv
      <4> QED
        BY <1>4, <3>4, <4>1 DEF RecordFailure, WriterInv
    <3>5. CASE RecordSuccess(h)
      BY <1>9, <3>2, <3>5 DEF RecordSuccess, AccountInv
    <3> QED BY <2>2, <3>2, <3>3, <3>4, <3>5
  <2>3. CASE CreateSession(h)
    <3>1. slot'[h].pc = "success"
      BY <2>3, Steps, BecomeTyped
    <3>2. WriterInv(h)'
      BY <3>1 DEF WriterInv
    <3> QED
      BY <1>4, <1>5, <1>9, <2>3, <3>2 DEF CreateSession, AccountInv
  <2>4. CASE Verify(h) /\ slot[h].active /\ Become(h, [slot[h] EXCEPT !.pc = "create"])
                       /\ UNCHANGED streak
    <3> DEFINE x == [slot[h] EXCEPT !.pc = "create"]
    <3>1. "create" \in Pcs
      BY DEF Pcs
    <3>2. x \in SlotType /\ x.pc = "create" /\ x.stale = slot[h].stale
      BY <1>1, <3>1, PcSet
    <3>3. slot'[h] = x
      BY <2>4, <3>2, BecomeTyped
    <3>4. slot[h].pc = "check" /\ UNCHANGED <<fails, lock, streak>>
      BY <2>4 DEF Verify
    <3>5. WriterInv(h)'
      BY <1>4, <1>9, <2>4, <3>2, <3>3, <3>4 DEF WriterInv
    <3>6. AccountInv'
      BY <1>4, <1>5, <1>9, <3>4 DEF AccountInv
    <3> QED BY <3>5, <3>6
  <2>5. CASE /\ Verify(h)
             /\ Become(h, [slot[h] EXCEPT !.pc = "record", !.fails = Recorded(slot[h]).fails,
                                          !.lock = Recorded(slot[h]).lock])
             /\ streak' = IF streak <= MaxFailedAttempts THEN streak + 1 ELSE streak
    <3>1. slot'[h].pc = "record" /\ slot'[h].fails = Recorded(slot[h]).fails
          /\ slot'[h].lock = Recorded(slot[h]).lock
      BY <1>1, <2>5, FailedTyped, BecomeTyped
    <3>2. slot[h].pc = "check" /\ slot[h].lock = 0
      BY <2>5 DEF Verify
    <3>3. AccountInv'
      BY <3>1 DEF AccountInv
    <3>4. ASSUME state # "deleted", Recorded(slot[h]).lock = 0
          PROVE  streak' <= Recorded(slot[h]).fails
      <4>1. slot[h].fails = fails /\ lock = 0
        BY <1>4, <3>2, <3>4 DEF WriterInv
      <4>2. \A g \in Slots : slot[g].pc # "record"
        BY <1>5, <3>2
      <4>3. streak <= fails
        BY <1>4, <3>4, <4>1, <4>2 DEF AccountInv
      <4>4. Recorded(slot[h]).fails = fails + 1
        BY <1>1, <3>4, <4>1, RecordedTyped
      <4> QED
        BY <1>1, <2>5, <4>3, <4>4, Limits DEF AccountOK
    <3>5. WriterInv(h)'
      BY <1>9, <3>1, <3>4 DEF WriterInv
    <3> QED BY <3>3, <3>5
  <2> QED
    BY <2>1, <2>2, <2>3, <2>4, <2>5 DEF Login, Verify
<1> QED
  BY <1>3, <1>10, <1>11 DEF CalmInv

\* A password change, a deactivation, and the statement that ends either.
LEMMA AdministrationKeepsCalm ==
  ASSUME TypeOK, CalmInv, calm', NEW h \in Slots, Administer(h)
  PROVE  CalmInv'
<1>1. calm /\ Alone'
  BY DEF Administer, ChangePassword, Deactivate, DropSessions, Become
<1>2. (\A g \in Slots : WriterInv(g)) /\ AccountInv
  BY <1>1 DEF CalmInv
<1>3. CASE ChangePassword(h)
  <2>1. slot'[h].pc = "drop"
    BY <1>3, ChangeSlots
  <2>2. \A g \in Slots : WriterInv(g)'
    BY <1>1, <2>1 DEF Alone, Writing, WriterInv
  <2>3. PasswordChangeRevokes' /\ DeactivationRevokes'
    BY <2>1 DEF PasswordChangeRevokes, DeactivationRevokes
  <2>4. AccountInv'
    BY <1>3 DEF ChangePassword, AccountInv
  <2> QED
    BY <1>1, <2>2, <2>3, <2>4 DEF CalmInv
<1>4. CASE Deactivate(h)
  <2>1. slot'[h].pc = "drop" /\ Others(h)
    BY <1>4, Steps, BecomeTyped
  <2>2. \A g \in Slots : WriterInv(g)'
    BY <1>1, <2>1 DEF Alone, Writing, WriterInv
  <2>3. PasswordChangeRevokes' /\ DeactivationRevokes'
    BY <2>1 DEF PasswordChangeRevokes, DeactivationRevokes
  <2>4. AccountInv'
    BY <1>2, <1>4, <2>1 DEF Deactivate, AccountInv, Others
  <2> QED
    BY <1>1, <2>2, <2>3, <2>4 DEF CalmInv
<1>5. CASE DropSessions(h)
  <2>1. slot'[h].pc = "idle" /\ Others(h) /\ slot[h].pc = "drop"
    BY <1>5, Steps, IdleTyped, BecomeTyped DEF DropSessions
  <2>2. \A g \in Slots : WriterInv(g)'
    <3>1. \A g \in Slots : g # h => ~Writing(g)
      BY <1>1, <2>1 DEF CalmInv, Alone, Writing
    <3> QED
      BY <2>1, <3>1 DEF Others, Writing, WriterInv
  <2>3. PasswordChangeRevokes' /\ DeactivationRevokes'
    <3>1. \A t \in Tokens : sess'[t] = [sess[t] EXCEPT !.exists = FALSE, !.left = 0, !.stale = FALSE]
      BY <1>5 DEF DropSessions, Kept
    <3>2. \A t \in Tokens : ~sess'[t].exists
      BY <3>1, Typed, DroppedTyped
    <3> QED
      BY <3>2 DEF PasswordChangeRevokes, DeactivationRevokes
  <2>4. AccountInv'
    BY <1>2, <1>5, <2>1 DEF DropSessions, AccountInv, Others
  <2> QED
    BY <1>1, <2>2, <2>3, <2>4 DEF CalmInv
<1> QED
  BY <1>3, <1>4, <1>5 DEF Administer

\* A request only reads, and a failed query only ends its handler.
LEMMA RequestKeepsCalm ==
  ASSUME TypeOK, CalmInv, calm', NEW h \in Slots, Request(h) \/ Abort(h)
  PROVE  CalmInv'
<1>1. UNCHANGED <<state, fails, lock, sess, streak>>
  BY DEF Request, StartRequest, FindSession, FindUser, Finish, Abort
<1>2. PICK r \in SlotType : Become(h, r)
  <2>1. \A t \in Tokens : Good(t) \in BOOLEAN
    BY DEF Good
  <2> QED
    BY <2>1, Steps, IdleTyped, RequestTyped DEF Request, StartRequest
<1>3. calm /\ Alone' /\ slot'[h] = r /\ Others(h)
  BY <1>2, BecomeTyped
<1>4. slot[h].pc \notin {"record", "drop"} /\ ~Writing(h)'
  <2>1. slot[h].pc \notin {"record", "drop"}
    BY DEF Request, StartRequest, FindSession, FindUser, Finish, Abort
  <2>2. slot[h] \in SlotType /\ "user" \in Pcs /\ "granted" \in Pcs
    BY Typed DEF Pcs
  <2>3. ASSUME NEW x \in SlotType, Become(h, x),
               x.pc \notin {"check", "record", "create", "success", "drop"}
        PROVE  ~Writing(h)'
    BY <2>3, BecomeTyped DEF Writing
  <2>4. CASE Become(h, IdleSlot)
    BY <2>1, <2>3, <2>4, IdleTyped
  <2>5. ASSUME NEW p \in {"user", "granted"}, Become(h, [slot[h] EXCEPT !.pc = p])
        PROVE  ~Writing(h)'
    <3>1. p \in Pcs /\ p \notin {"check", "record", "create", "success", "drop"}
      BY <2>2
    <3>2. [slot[h] EXCEPT !.pc = p] \in SlotType /\ [slot[h] EXCEPT !.pc = p].pc = p
      BY <2>2, <3>1, PcSet
    <3> QED
      BY <2>3, <2>5, <3>1, <3>2
  <2>6. ASSUME NEW t \in Tokens, StartRequest(h, t) PROVE ~Writing(h)'
    <3>1. Good(t) \in BOOLEAN
      BY DEF Good
    <3>2. PICK x \in SlotType : Become(h, x) /\ x.pc = "session"
      BY <2>6, <3>1, RequestTyped DEF StartRequest
    <3> QED
      BY <2>3, <3>2
  <2> QED
    BY <2>1, <2>4, <2>5, <2>6 DEF Request, FindSession, FindUser, Finish, Abort
<1>5. \A g \in Slots : WriterInv(g)'
  BY <1>1, <1>3, <1>4 DEF CalmInv, WriterInv, Others, Writing
<1>6. slot'[h].pc # "record"
  BY <1>4 DEF Writing
<1>7. PasswordChangeRevokes' /\ DeactivationRevokes'
  BY <1>1, <1>3, <1>4 DEF CalmInv, PasswordChangeRevokes, DeactivationRevokes, Others
<1>8. AccountInv'
  BY <1>1, <1>3, <1>4 DEF CalmInv, AccountInv, Others
<1> QED
  BY <1>3, <1>5, <1>7, <1>8 DEF CalmInv

\* Sessions that only vanish or age break no promise.
LEMMA FewerSessions ==
  ASSUME PasswordChangeRevokes, DeactivationRevokes, SamePcs,
         \A t \in Tokens : sess'[t].exists => sess[t].exists /\ (sess'[t].stale => sess[t].stale),
         state' = "inactive" => state = "inactive"
  PROVE  PasswordChangeRevokes' /\ DeactivationRevokes'
BY DEF PasswordChangeRevokes, DeactivationRevokes, SamePcs

\* Activation, deletion, logout, the clock and the sweep.
LEMMA SurroundingsKeepCalm ==
  ASSUME TypeOK, CalmInv, calm',
         Activate \/ DeleteUser \/ (\E t \in Tokens : Logout(t)) \/ Tick \/ Purge
  PROVE  CalmInv'
<1>1. calm /\ SamePcs
  <2>1. CASE Activate \/ Tick
    BY <2>1, ActivateSlots, TickSlots DEF Activate, Tick
  <2>2. CASE DeleteUser \/ (\E t \in Tokens : Logout(t)) \/ Purge
    BY <2>2 DEF DeleteUser, Logout, Purge, SamePcs
  <2> QED BY <2>1, <2>2
<1>2. Alone'
  BY <1>1 DEF CalmInv, Alone, Writing, SamePcs
<1>3. sess \in [Tokens -> SessType] /\ AccountOK
  BY Typed, TypeParts
<1>4. \A t \in Tokens : sess'[t].exists => sess[t].exists /\ (sess'[t].stale => sess[t].stale)
  <2>1. CASE Activate
    BY <2>1 DEF Activate
  <2>2. CASE DeleteUser
    BY <2>2, NoRowTyped DEF DeleteUser, NoSessions
  <2>3. CASE \E t \in Tokens : Logout(t)
    BY <1>3, <2>3, NoRowTyped DEF Logout
  <2>4. CASE Purge
    BY <1>3, <2>4, NoRowTyped DEF Purge
  <2>5. CASE Tick
    <3>1. \A t \in Tokens : sess'[t] = [sess[t] EXCEPT !.left = Elapsed(sess[t].left)]
      BY <2>5 DEF Tick
    <3>2. \A t \in Tokens : sess'[t].exists = sess[t].exists /\ sess'[t].stale = sess[t].stale
      BY <1>3, <3>1 DEF SessType
    <3> QED BY <3>2
  <2> QED BY <2>1, <2>2, <2>3, <2>4, <2>5
<1>5. PasswordChangeRevokes' /\ DeactivationRevokes'
  <2>1. state' = "inactive" => state = "inactive"
    BY DEF Activate, DeleteUser, Logout, Tick, Purge
  <2> QED
    BY <1>1, <1>4, <2>1, FewerSessions DEF CalmInv
<1>6. (\A g \in Slots : WriterInv(g)') /\ AccountInv'
  <2>1. CASE Activate
    <3>1. UNCHANGED <<fails, lock, streak>> /\ state # "deleted" /\ state' = "active"
      BY <2>1 DEF Activate
    <3>2. \A g \in Slots : /\ slot'[g].pc = slot[g].pc /\ slot'[g].active = slot[g].active
                           /\ slot'[g].fails = slot[g].fails /\ slot'[g].lock = slot[g].lock
                           /\ slot'[g].stale = slot[g].stale
      BY <1>1, <2>1, ActivateSlots DEF SamePcs
    <3> QED
      BY <1>1, <3>1, <3>2 DEF CalmInv, WriterInv, AccountInv
  <2>2. CASE DeleteUser
    BY <1>1, <2>2 DEF DeleteUser, CalmInv, WriterInv, AccountInv
  <2>3. CASE Purge \/ \E t \in Tokens : Logout(t)
    BY <1>1, <2>3 DEF Logout, Purge, CalmInv, WriterInv, AccountInv
  <2>4. CASE Tick
    <3>1. state' = state /\ fails' = fails /\ lock' = Elapsed(lock)
          /\ (streak' = 0 \/ streak' = streak)
          /\ (lock = 1 => streak' = 0)
          /\ \A g \in Slots : slot[g].pc = "record" /\ slot[g].lock = 1 => streak' = 0
      BY <2>4 DEF Tick
    <3>2. \A g \in Slots : /\ slot'[g].pc = slot[g].pc /\ slot'[g].active = slot[g].active
                           /\ slot'[g].fails = slot[g].fails
                           /\ slot'[g].lock = Elapsed(slot[g].lock)
                           /\ slot'[g].stale = slot[g].stale
      BY <1>1, <2>4, TickSlots DEF SamePcs
    <3>3. \A g \in Slots : slot[g].lock \in Nat /\ slot[g].fails \in Nat
      <4>1. \A g \in Slots : slot[g] \in SlotType
        BY Typed
      <4> QED BY <4>1, Limits DEF SlotType
    <3>4. lock \in Nat /\ fails \in Nat
      BY <1>3, Limits DEF AccountOK
    <3>5. \A n \in Nat : Elapsed(n) = 0 => n = 0 \/ n = 1
      BY DEF Elapsed
    <3>6. ASSUME NEW g \in Slots PROVE WriterInv(g)'
      <4>1. WriterInv(g)
        BY <1>1 DEF CalmInv
      <4>2. slot[g].pc = "check" /\ state # "deleted" => slot[g].lock = lock /\ slot[g].fails = fails
        BY <4>1 DEF WriterInv
      <4>3. ASSUME slot[g].pc = "record", state # "deleted", slot'[g].lock = 0
            PROVE  streak' <= slot[g].fails
        BY <4>1, <4>3, <3>1, <3>2, <3>3, <3>5 DEF WriterInv
      <4> QED
        BY <3>1, <3>2, <4>1, <4>2, <4>3 DEF WriterInv
    <3>7. AccountInv'
      <4>1. SUFFICES ASSUME state # "deleted", Elapsed(lock) = 0,
                            \A g \in Slots : slot'[g].pc # "record"
                     PROVE  streak' <= fails
        BY <3>1 DEF AccountInv
      <4>2. \A g \in Slots : slot[g].pc # "record"
        BY <4>1, <3>2
      <4>3. lock = 0 => streak <= fails
        BY <1>1, <4>1, <4>2 DEF CalmInv, AccountInv
      <4>4. CASE streak' = 0
        BY <3>4, <4>4
      <4>5. CASE streak' = streak /\ lock = 0
        BY <4>3, <4>5
      <4> QED
        BY <3>1, <3>4, <3>5, <4>1, <4>4, <4>5
    <3> QED BY <3>6, <3>7
  <2> QED BY <2>1, <2>2, <2>3, <2>4
<1> QED
  BY <1>2, <1>5, <1>6 DEF CalmInv

\* A password change ends the sessions opened before it, a deactivation ends the
\* account's, and the limit of wrong passwords locks it: all three hold until two
\* writing handlers overlap or one of their writes is lost.
THEOREM PromisesKept == Spec => []PromisesKeptWhileCalm
<1>1. Init => CalmInv
  <2> SUFFICES ASSUME Init PROVE CalmInv
    OBVIOUS
  <2>1. \A h \in Slots : slot[h].pc = "idle"
    BY IdleTyped DEF Init
  <2>2. \A t \in Tokens : ~sess[t].exists
    BY NoRowTyped DEF Init
  <2>3. streak <= fails
    BY DEF Init
  <2> QED
    BY <2>1, <2>2, <2>3 DEF CalmInv, Alone, Writing, WriterInv, PasswordChangeRevokes,
       DeactivationRevokes, AccountInv
<1>2. TypeOK /\ CalmInv /\ [Next]_vars => CalmInv'
  <2> SUFFICES ASSUME TypeOK, CalmInv, [Next]_vars, calm' PROVE CalmInv'
    BY DEF CalmInv
  <2>1. ASSUME NEW h \in Slots, LoseWrite(h) PROVE FALSE
    BY <2>1 DEF LoseWrite
  <2>2. CASE UNCHANGED vars
    BY <2>2 DEF vars, CalmInv, Alone, Writing, WriterInv, PasswordChangeRevokes,
       DeactivationRevokes, AccountInv
  <2> QED
    BY <2>1, <2>2, LoginKeepsCalm, AdministrationKeepsCalm, RequestKeepsCalm,
       SurroundingsKeepCalm DEF Next
<1>3. TypeOK /\ CalmInv => PromisesKeptWhileCalm
  <2> SUFFICES ASSUME TypeOK, CalmInv, calm PROVE LockoutHolds
    BY DEF CalmInv, PromisesKeptWhileCalm
  <2>1. AccountInv
    BY DEF CalmInv
  <2>2. lock \in Nat /\ fails \in 0..(MaxFailedAttempts - 1) /\ streak \in Nat
    BY TypeParts, Limits DEF AccountOK
  <2> QED
    BY <2>1, <2>2, Limits DEF AccountInv, LockoutHolds
<1> QED
  BY <1>1, <1>2, <1>3, TypeCorrect, PTL DEF Spec
=============================================================================
