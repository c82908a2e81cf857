----------------------------- MODULE WriteLocks -----------------------------
(***************************************************************************)
(* Which row locks a write takes, in which order, and who waits for whom.  *)
(*                                                                         *)
(* Every statement on a content table fires bump_content_revision after    *)
(* it, found rows or not, which updates the one row of content_revision:   *)
(* from its first statement on, a transaction that writes content holds    *)
(* that row until it ends (db/migrations, adapter/postgres/write_repo.go). *)
(* Its further statements take more rows while it does.  The account       *)
(* tables have no such trigger (adapter/postgres/admin_repo.go).           *)
(*                                                                         *)
(* A transaction is the sequence of locks it asks for.  The days of a week *)
(* are written only by who holds the week, and are one lock with it.       *)
(*                                                                         *)
(* Two things make waits that are no locks held to the end.  At READ       *)
(* COMMITTED a DELETE by anything but a row's key works on what its        *)
(* statement's snapshot shows: it waits for whoever is deleting such a     *)
(* row, and when that one commits it goes on without the row, which was    *)
(* replaced by another it does not see.  The INSERTs that follow meet the  *)
(* unique index, which sees everybody's rows, and wait there for whoever   *)
(* is deleting or inserting the same key.  And the exclusion constraint    *)
(* on published weeks first writes the week's row and then waits for       *)
(* whoever is writing a week of the same dates.                            *)
(*                                                                         *)
(* PostgreSQL aborts one member of a circle of waits.                      *)
(***************************************************************************)
EXTENDS Naturals, Sequences, FiniteSets

CONSTANTS Procs,     \* database connections with a write under way
          Kinds,     \* the sets of kinds of write that are made side by side
          Weeks,     \* years and weeks a row of menu_cycles may have
          Packages,  \* tier_packages, each with its ladder of bands
          Grades,    \* grade and period, each with its ladder of kantor_rates
          Plans,     \* plans, each with its plan_rates
          Params,    \* sys_parameters
          Users,     \* accounts, by their e-mail
          Roles,     \* roles
          Keys       \* how many keys the rows of one list have at most

ASSUME KeysAssumption == Keys \in Nat
ASSUME FiniteAssumption ==
  IsFiniteSet(Weeks) /\ IsFiniteSet(Plans) /\ IsFiniteSet(Packages)
  /\ IsFiniteSet(Grades) /\ IsFiniteSet(Users)

VARIABLES op,     \* the write each connection is making, Idle for none
          locks,  \* the locks it asks for, in the order of its statements
          pos,    \* how many of them it is past
          missed  \* those of them it did not get: the row was not there

vars == <<op, locks, pos, missed>>

Idle == <<"idle">>

\* FOR UPDATE, FOR NO KEY UPDATE and FOR KEY SHARE, by what takes them: a
\* DELETE or a unique key's INSERT, an UPDATE, a foreign key's check.
Own(r) == [row |-> r, mode |-> "own"]
Update(r) == [row |-> r, mode |-> "update"]
Share(r) == [row |-> r, mode |-> "share"]

\* FOR UPDATE by a statement that may come by no such row and go on without.
Maybe(r) == [row |-> r, mode |-> "maybe"]

\* The exclusion constraint's look at another row: "check", which nobody has to
\* wait for afterwards.  Does asking for lock k have to wait for a holder of l?
Conflict(k, l) ==
  /\ k.row = l.row
  /\ l.mode # "check"
  /\ \/ {k.mode, l.mode} \cap {"own", "maybe"} # {}
     \/ k.mode \in {"update", "check"} /\ l.mode = "update"

\* content_revision, by the trigger.
Revision == Update(<<"revision">>)

-----------------------------------------------------------------------------
\* The locks of each write, in the order of its statements.

\* The locks of one mode on every row of a set, in some order.
SetSeq(S) == CHOOSE s \in [1 .. Cardinality(S) -> S] :
               \A i, j \in DOMAIN s : s[i] = s[j] => i = j
Each(mode, rows) ==
  [i \in 1 .. Cardinality(rows) |-> [row |-> SetSeq(rows)[i], mode |-> mode]]

\* DELETE of the rows of list x of one kind, of which some keys may not be there
\* or may be gone by the time the DELETE comes to them.  Two such DELETEs come by
\* the keys in the same order.
Delete(kind, x) == [i \in 1 .. Keys |-> Maybe(<<kind, x, i>>)]

\* One INSERT for each key asked for: the unique index, then the foreign key.
Insert(mode, kind, x, asked, parent) ==
  [i \in 1 .. 2 * Len(asked) |->
     IF i % 2 = 1 THEN [row |-> <<kind, x, asked[(i + 1) \div 2]>>, mode |-> mode]
                  ELSE Share(parent)]

\* Bands, roles and permissions are inserted in the order of the request, which
\* ValidateBands does not change; a shorter request is one of these that ends early.
Requests == {s \in [1 .. Keys -> 1 .. Keys] :
               \A i, j \in 1 .. Keys : s[i] = s[j] => i = j}

\* menu_cycles_no_overlap, where a published week claims dates of the others.
Claim(w, claims) ==
  IF claims THEN Each("check", {"week"} \X (Weeks \ {w})) ELSE <<>>

\* INSERT .. ON CONFLICT DO UPDATE on menu_cycles: the week's row, old or new;
\* then DELETE of its days, INSERT of the new ones with their foreign keys.
UpsertCycle_MovesNeighbour(w, claims) ==
  <<Own(<<"week", w>>), Revision>> \o Each("update", {"week"} \X (Weeks \ {w}))
UpsertCycle(w, claims) ==
  <<Own(<<"week", w>>)>> \o Claim(w, claims) \o <<Revision>>
    \o Each("share", {"plan"} \X Plans)

\* The published flag is in a partial index only, no key: an UPDATE.
PublishCycle(w, claims) ==
  <<Update(<<"week", w>>)>> \o Claim(w, claims) \o <<Revision>>

\* The days go by the cascade, before the statement's own trigger.
DeleteCycle(w) == <<Own(<<"week", w>>), Revision>>

\* UPDATE of one row, of plan_rates, sys_parameters or pricing_rules.
SetPlanRates(p) == <<Update(<<"rates", p>>), Revision>>
SetParam(k) == <<Update(<<"param", k>>), Revision>>
SetPricingRules == <<Update(<<"rules">>), Revision>>

\* Any of these five on a row that is not there, answered with 404.
NothingFound == <<Revision>>

\* DELETE of the bands, INSERT of the new ones with their foreign key.
SetTierPrices(k, asked) ==
  Delete("bands", k) \o <<Revision>>
    \o Insert("own", "bands", k, asked, <<"package", k>>)
SetKantorRates(g, asked) ==
  Delete("kantor", g) \o <<Revision>>
    \o Insert("own", "kantor", g, asked, <<"period">>)

\* "seed --force": menu_cycles first, then every other content table, then the
\* page's content, its weeks last.  Plans, packages, rates and periods nothing
\* else deletes or inserts.
SeedForce ==
  Each("maybe", {"week"} \X Weeks) \o <<Revision>>
    \o Each("own", {"package"} \X Packages)
    \o Each("maybe", {"bands"} \X Packages \X (1 .. Keys))
    \o Each("maybe", {"kantor"} \X Grades \X (1 .. Keys)) \o <<Own(<<"period">>)>>
    \o Each("own", {"plan", "rates"} \X Plans)
    \o Each("own", {"kantor"} \X Grades \X (1 .. Keys))
    \o Each("own", {"week"} \X Weeks)

\* DELETE of the roles, INSERT .. ON CONFLICT DO NOTHING of the new ones: it waits
\* for a row under way, and leaves one it finds as it is.
SetUserRoles(u, asked) ==
  Delete("roles", u) \o Insert("maybe", "roles", u, asked, <<"user", u>>)

\* A role's permissions, where a row that is there is an error.
SetRolePermissions(r, asked) ==
  Delete("perms", r) \o Insert("own", "perms", r, asked, <<"role", r>>)

\* INSERT of an account: the unique e-mail.  Its roles are under an id that
\* nobody else knows.
CreateUser(u) == <<Own(<<"user", u>>)>>

\* One DELETE, which cascades to the roles and then to the sessions; in the audit
\* the account becomes NULL, on rows nobody else writes.
DeleteUser(u) == <<Own(<<"user", u>>)>> \o Delete("roles", u) \o Delete("session", u)

\* One statement on admin_users: UpdateUser, SetPassword, RecordLoginFailure and
\* RecordLoginSuccess; or one INSERT that refers to it: CreateSession, WriteAudit.
UpdateUser(u) == <<Update(<<"user", u>>)>>
CreateSession(u) == <<Share(<<"user", u>>)>>

\* The sessions of an account; DeleteSession and TouchSession come by one of them.
DeleteUserSessions(u) == Delete("session", u)

\* One DELETE of whoever's sessions have expired, by another index.
Sweeps == LET all == Users \X (1 .. Keys)
              n == Cardinality(all) IN
          {s \in [1 .. n -> all] : \A i, j \in 1 .. n : s[i] = s[j] => i = j}
PurgeExpiredSessions(s) ==
  [i \in DOMAIN s |-> Maybe(<<"session", s[i][1], s[i][2]>>)]

ContentWrites == ({"upsert", "publish"} \X Weeks \X BOOLEAN)
                 \cup ({"delete"} \X Weeks)
                 \cup ({"rates"} \X Plans)
                 \cup ({"param"} \X Params)
                 \cup ({"bands"} \X Packages \X Requests)
                 \cup ({"kantor"} \X Grades \X Requests)
                 \cup {<<"rules">>, <<"nothing">>, <<"seed">>}
AccountWrites == ({"remove", "update", "logout", "login", "create"} \X Users)
                 \cup ({"roles"} \X Users \X Requests)
                 \cup ({"perms"} \X Roles \X Requests)
                 \cup ({"purge"} \X Sweeps)
Writes == {o \in ContentWrites \cup AccountWrites : o[1] \in UNION Kinds}

LocksOf(o) ==
  CASE o[1] = "upsert"  -> UpsertCycle(o[2], o[3])
    [] o[1] = "publish" -> PublishCycle(o[2], o[3])
    [] o[1] = "delete"  -> DeleteCycle(o[2])
    [] o[1] = "rates"   -> SetPlanRates(o[2])
    [] o[1] = "param"   -> SetParam(o[2])
    [] o[1] = "rules"   -> SetPricingRules
    [] o[1] = "nothing" -> NothingFound
    [] o[1] = "bands"   -> SetTierPrices(o[2], o[3])
    [] o[1] = "kantor"  -> SetKantorRates(o[2], o[3])
    [] o[1] = "roles"   -> SetUserRoles(o[2], o[3])
    [] o[1] = "perms"   -> SetRolePermissions(o[2], o[3])
    [] o[1] = "create"  -> CreateUser(o[2])
    [] o[1] = "remove"  -> DeleteUser(o[2])
    [] o[1] = "update"  -> UpdateUser(o[2])
    [] o[1] = "login"   -> CreateSession(o[2])
    [] o[1] = "logout"  -> DeleteUserSessions(o[2])
    [] o[1] = "purge"   -> PurgeExpiredSessions(o[2])
    [] OTHER            -> SeedForce

-----------------------------------------------------------------------------
TypeOK ==
  /\ op \in [Procs -> Writes \cup {Idle}]
  /\ pos \in [Procs -> Nat]
  /\ missed \in [Procs -> SUBSET Nat]
  /\ \A p \in Procs :
       /\ pos[p] <= Len(locks[p])
       /\ \A i \in missed[p] : i \in 1 .. pos[p] /\ locks[p][i].mode = "maybe"

Init ==
  /\ op = [p \in Procs |-> Idle]
  /\ locks = [p \in Procs |-> <<>>]
  /\ pos = [p \in Procs |-> 0]
  /\ missed = [p \in Procs |-> {}]

Held(p) == {locks[p][i] : i \in (1 .. pos[p]) \ missed[p]}

\* The connections p's next lock has to wait for.
WaitsFor(p) ==
  IF pos[p] = Len(locks[p]) THEN {}
  ELSE LET next == locks[p][pos[p] + 1] IN
       {q \in Procs \ {p} : \E l \in Held(q) : Conflict(next, l)}

Waiting == {p \in Procs : WaitsFor(p) # {}}

\* A set of connections of which each waits for another in the set.
Deadlock(S) == S # {} /\ \A p \in S : WaitsFor(p) \cap S # {}

\* Without the bystanders who wait for a member: what the detector looks for.
Circle(S) == Deadlock(S) /\ \A p \in S : ~Deadlock(S \ {p})

\* The kinds of the writes under way, o among them.
Beside(o) == {o[1]} \cup {op[q][1] : q \in {other \in Procs : op[other] # Idle}}

\* Any write may begin beside any others: Kinds is a bound.
Begin(p) ==
  /\ op[p] = Idle
  /\ \E o \in Writes : /\ \E together \in Kinds : Beside(o) \subseteq together
                       /\ op' = [op EXCEPT ![p] = o]
                       /\ locks' = [locks EXCEPT ![p] = LocksOf(o)]
  /\ UNCHANGED <<pos, missed>>

Acquire(p) ==
  /\ pos[p] < Len(locks[p])
  /\ WaitsFor(p) = {}
  /\ pos' = [pos EXCEPT ![p] = @ + 1]
  /\ UNCHANGED <<op, locks, missed>>

\* The DELETE's snapshot does not show the row, or showed it and whoever the
\* DELETE waited for has deleted it; or the INSERT leaves a row that is there.
\* What rows there are is not kept: it can be so at any time.
Miss(p) ==
  /\ pos[p] < Len(locks[p])
  /\ locks[p][pos[p] + 1].mode = "maybe"
  /\ pos' = [pos EXCEPT ![p] = @ + 1]
  /\ missed' = [missed EXCEPT ![p] = @ \cup {pos[p] + 1}]
  /\ UNCHANGED <<op, locks>>

Release(p) ==
  /\ op' = [op EXCEPT ![p] = Idle]
  /\ locks' = [locks EXCEPT ![p] = <<>>]
  /\ pos' = [pos EXCEPT ![p] = 0]
  /\ missed' = [missed EXCEPT ![p] = {}]

Commit(p) ==
  /\ op[p] # Idle
  /\ pos[p] = Len(locks[p])
  /\ Release(p)

\* A constraint, a lost connection, a cancelled request: rolled back.
Fail(p) ==
  /\ op[p] # Idle
  /\ Release(p)

\* The detector gives one member of a circle an error: Transaction rolls back
\* and returns it, and the handler answers 500.  Nothing tries again.
AnswerDeadlock_Retries(p) ==
  /\ pos' = [pos EXCEPT ![p] = 0]
  /\ missed' = [missed EXCEPT ![p] = {}]
  /\ UNCHANGED <<op, locks>>
AnswerDeadlock(p) == Release(p)

Detect(p) ==
  /\ \E S \in SUBSET Waiting : p \in S /\ Circle(S)
  /\ AnswerDeadlock(p)

Next == \E p \in Procs :
          Begin(p) \/ Acquire(p) \/ Miss(p) \/ Commit(p) \/ Fail(p) \/ Detect(p)

Spec == Init /\ [][Next]_vars

\* As long as there is a handler that has its lock and can go on, or a circle
\* PostgreSQL finds when somebody in it has waited for deadlock_timeout,
\* something happens.  Who is served first among those who wait is not assumed,
\* nor that a row a DELETE waits for is ever gone.
Progress == \E p \in Procs : Acquire(p) \/ Commit(p) \/ Detect(p)

FairSpec == Spec /\ WF_vars(Progress)

-----------------------------------------------------------------------------
\* Properties.

Making(kind) == {p \in Procs : op[p][1] = kind}
Claiming(p) == op[p][1] \in {"upsert", "publish"} /\ op[p][3]

\* The saves that replace a list, of the same list.
SameList(p, q) ==
  /\ op[p][1] \in {"bands", "kantor", "roles", "perms"}
  /\ op[q][1] = op[p][1] /\ op[q][2] = op[p][2]

\* Which writes can wait for each other in a circle: the seed and another; two
\* weeks published over the same dates; two saves of one ladder, of one account's
\* roles or of one role's permissions, if one of them did not find all the rows
\* there are; an account's deletion and a save of its roles; the sweep and another
\* deletion of sessions.  However many admins save other things at once, or those
\* things one by one, none of them is ever the detector's victim: what a write
\* takes after content_revision adds no circle but these.
DeadlocksAreKnown ==
  \A S \in SUBSET Waiting : Deadlock(S) =>
    \/ S \cap Making("seed") # {}
    \/ \E p, q \in S : p # q /\ Claiming(p) /\ Claiming(q)
    \/ \E p, q \in S : p # q /\ SameList(p, q) /\ missed[p] # {}
    \/ \E p \in S \cap Making("remove"), q \in S \cap Making("roles") :
         op[p][2] = op[q][2]
    \/ \E p \in S \cap Making("purge"), q \in S :
         p # q /\ op[q][1] \in {"purge", "logout", "remove"}

\* Whatever they met, the writes under way all end and release their locks,
\* unless new ones keep coming.
EveryWriterEnds ==
  \/ <>[](\A p \in Procs : op[p] = Idle)
  \/ []<><<\E p \in Procs : op[p] = Idle /\ op'[p] # Idle>>_vars
=============================================================================
