# thenie_v2: a verification project

TLA+ models of the engine under `src/server/` (Go, PostgreSQL) and of the page
overlays that talk to it, checked with TLC on small instances and, where it
matters most, proved with TLAPS for every instance. Paths below are relative to
`src/`.

## 1. The system

One server process, one PostgreSQL database, browsers, and a command line
(`thenied`) whose commands are processes of their own against the same database.

| Component | State | Operations | Module |
|---|---|---|---|
| Site configuration service (`server/internal/app/siteconfig`, `adapter/postgres/config_repo.go`, `adapter/http/router.go`) | the cached document, under a read-write lock | Revision, Get (revision, cache, load, store), Invalidate, the ETag route | `SiteConfigCache` |
| Revision counter (`db/migrations/0001`) | the single `content_revision` row | a trigger bumps it after every statement on a content table | `SiteConfigCache` |
| Configuration overlay (`site/overlays/hydrate.html`) | a document and an ETag in localStorage | revalidate, give up after 6 s, store, fall back | `SiteConfigCache` |
| Content writes (`adapter/http/admin.go`, `adapter/postgres/write_repo.go`) | content tables | one transaction, then Invalidate; several replace a list of rows | `SiteConfigCache`, `RowReplace` |
| Accounts and roles (`app/admin/users.go`) | `admin_users`, `admin_user_roles`, `admin_role_permissions` | create, activate, deactivate, set roles, delete, set role permissions, each behind the last-administrator guard where it applies | `AdminAccounts`, `RowReplace` |
| Sessions and login (`app/admin/service.go`, `users.go`, `cmd/thenied/main.go`) | `failed_attempts`, `locked_until`, `admin_sessions` | login, resolve, logout, change password, deactivate, hourly sweep | `AdminSessions` |
| Menu rotation (`domain/menu`) | `menu_cycles`, `menu_days` | replace a week, publish, withdraw, delete; choose the week shown and the next | `MenuCycles`, `RowReplace` |
| Pricing and catalogue (`domain/pricing`, `domain/catalogue`, `adapter/http/quote.go`) | `pricing_rules`, `plan_rates`, `tier_prices`, `kantor_rates` | validate and set thresholds, rates and ladders; classify dates, quote | `TierClassifier`, `PriceLadder`, `OrderQuotes` |
| Pricing overlay (`site/overlays/pricing.html`) | per card: debounce timer, quotes in flight, shown total, swallowed click | debounce, quote, apply, intercept the add button | `PricingOverlay` |
| Migrations (`platform/migrate`, `db/migrations`) | `schema_migrations` and the objects of each step | up, down, the check before serving | `Deployment` |
| Seed (`cmd/thenied/seed.go`, `seed_write.go`) | content tables | count, refuse, clear, load in one transaction | `SeedRuns`, `WriteLocks`; a writer of `SiteConfigCache` |
| Row locks of every write (`adapter/postgres`) | PostgreSQL's lock table | acquire, wait, find a row gone, deadlock, abort | `WriteLocks` |
| Admin UI, platform libraries, captured page | forms, settings | — | not modelled (section 7) |

How they interact: handlers share the database and, in one process, the cached
document. A handler runs several SQL statements; each is its own transaction
unless the repository opens one, and any other handler, command or browser may
move between them. Nothing tells a browser of a change; it asks again with its
ETag. The command line writes to the database without reaching the server's
memory, so `Invalidate` never runs for it.

What is hard, and what would make each part right:

- **Cache, revision, ETag.** The revision is read, then the cache, then a
  separate transaction loads the document, and the ETag comes from yet another
  read. An older load may overwrite a newer cached document. Right means: a
  document is always one committed state, an edit is live on the next request,
  a 304 never stands for an older body.
- **Check then act.** The guard that keeps an administrator counts in one
  statement and writes in another. Right means: somebody can manage users.
- **Revocation against logins in flight.** A login hashes a password between
  reading the account and creating the session. Right means: what was open
  before a password change or a deactivation is closed after it.
- **Counting failures** from a copy of the row. Right means: the limit locks,
  and a lock ends.
- **Replace, not merge.** DELETE then INSERT at READ COMMITTED. Right means: the
  list stored is one request's, whole.
- **A rotation edited while the calendar moves.** Weeks are saved, moved and
  published in any order; the week shown is looked up by a date that is a day
  further in Jakarta than in UTC for seven hours. Right means: today's week is
  shown, the one announced as next follows it, no day is served twice.
- **A price decided by the first of several overlapping conditions**, under
  thresholds, rates and ladders that admins may change. Right means: the tier is
  the one whose published rule holds, a scattered order is never cheaper than an
  unbroken one, no quantity falls through a ladder.

- **A price that arrives late.** The page computes its own figure and the server's
  comes when it comes, or not at all. Right means: verify mode charges what the
  page shows, authoritative mode settles on the server's figure of the order on
  display, and no click on "add" waits for ever.
- **Locks taken in several orders.** Every content write ends up at one revision
  row, and a DELETE that waited may hold nothing of what it was to replace. Right
  means: saves of different things wait but never in a circle, the circles there are
  can be named, and whoever met one ends.
- **Commands that race the server and each other.** Two `migrate up`, a rollback
  of an older release, a seed beside an editing admin. Right means: the schema is
  some version's, whole; a server starts on nothing less; a seed is all or nothing.

`PROJECT.json` lists every hazard with its line and the property that would
catch it.

## 2. The modules

Every component has its specification (`X.tla`), an instance for TLC (`MCX.tla`
with `X_<run>.cfg`) and `X_proofs.tla`. Three modules are proved about beside a
neighbour: `TierClassifier`, which `OrderQuotes` prices with, and `PricingOverlay`,
which asks for the quotes and shows them, in `OrderQuotes_proofs`; `SeedRuns`, like
the migrations a command that races itself, in `Deployment_proofs`. So that a proof
module can extend both, the top-level names of `PricingOverlay` and `SeedRuns` carry
a prefix (`CardInit`, `SeedSpec`); the two specifications share no variable and no
constant, and every theorem is about one of them.

### SiteConfigCache and ConfigRegister

State: `revision`, `body` and the writers' transactions (`tx`, `wpc`) for the
database; `cached` for `Service.cached`; `call[c]` for the local variables of
the handler serving browser `c` together with how far it is; `copy[c]` for the
browser's localStorage; `week` for the calendar; `snapshots` is history. The
content of a section is abstracted to the revision of the transaction that
wrote it, so documents are equal exactly when they show the same thing.

| Action | Code |
|---|---|
| `WriteStatement`, `Commit`, `Rollback` | a content transaction and its trigger; the `content_revision` row lock is held to the end |
| `Invalidate` | the handler's call after the repository returned; a CLI writer has none |
| `StartPage`, `StartGet`, `CheckTag` | `load()` in hydrate.html; the handlers that call `Get` and keep nothing; `getSiteConfig` up to the 304 |
| `ReadRevision`, `Peek`, `BeginLoad`, `LoadSection`, `FinishLoad`, `StoreCache` | `Service.Get`, the repeatable-read transaction of `Load`, `resolveCurrentCycle` |
| `Deliver`, `GiveUp`, `QueryFails` | the reply and what the browser stores; the 6 s abort; any failing query |
| `Restart`, `NextWeek` | the process loses its memory and in-flight handlers; time |

`ConfigRegister` is the promise: a register replaced as a whole, each time with
a higher revision, whose reads return a value it held between call and return.
`RegisterSpec` in `SiteConfigCache` instantiates it with a refinement mapping:
a request is pending until it has an answer, and until then it may return any
state committed since it arrived.

### AdminAccounts

State: account status and roles, the roles that carry `user.manage`, and per
handler the request, the step and the roles whose permissions it has still to
read. `Start` is the permission check and the checks without a query, `ReadRole`
and `NoneKeeps` are `guardLastAdminAfterRoleChange`, `Guard`/`Refuse` are
`guardLastAdmin`, `Write` applies the request in one transaction, `Fail` is
every error path. `raced[h]` is history: somebody wrote after `h` was cleared
to. Requests come from administrators or from `Operator` (the service token and
the command line). Permissions other than `user.manage` are left out: the guard
does not look at them. `SetUserRoles` is atomic here; what its two statements do
beside each other is `RowReplace`'s subject.

### AdminSessions

One account, since accounts share no rows. `slot[h]` is a handler: a login
holds its copy of the row (`active`, `fails`, `lock`), a request its token. Time
is what is left of each deadline; `Tick` counts down. A password is right or
wrong for the row that was read; `stale` marks a login, and the session it
makes, that verified against a hash changed since; `calm` is history. Login is `ReadAccount`,
`RefuseLocked` or `Verify`, then `RecordFailure`, or `CreateSession` and
`RecordSuccess`; `ChangePassword` and `Deactivate` are the UPDATEs and
`DropSessions` the DELETE after them, `LoseWrite` that DELETE or a counter's
write failing with its error discarded (when `Faults`); `StartRequest`, `FindSession`, `FindUser`
are `Resolve`.

### RowReplace

The transaction shape of `UpsertCycle`, `SetKantorRates`, `SetTierPrices` and
`SetUserRoles`. A behaviour runs one of them, its `regime`: whether the parent
row is written first (`lock`: only `UpsertCycle` does, its upsert of
`menu_cycles`), whether a duplicate key is skipped (`skip`: `assignRoles`) or is
an error, and which lists may be asked for (a Kantor ladder always has its lowest
band, `ValidateBands(bands, 5)`; roles and bands are never empty; a week's days
may be any). `MCRowReplace` names the four. PostgreSQL is external
and modelled from how the repositories use it: `StartDelete` takes the
statement's snapshot, `Waits` and `FinishDelete` are row locks and the recheck
of rows at READ COMMITTED, `KeyBusy` and `Duplicate` the unique index. Each
request runs once, so the system stops: these runs do not check deadlock.
The revision row, which the triggers also lock for the content tables, only
removes interleavings and is left out.

### MenuCycles

State: the rows of `menu_cycles` with their `menu_days`, whether the timezone
parameter names a zone that exists, and today's date in Jakarta and in UTC.
Dates are numbers, 1 a Monday. `UpsertCycle`, `PublishCycle`, `UnpublishCycle`
and `DeleteCycle` are the admin routes with their validations
(`Cycle.Validate` as `ValidSpan`, `Cycle.ValidateDay` as `ValidDay`) and the
exclusion constraint over published spans (`Free`); `SetZone` is the parameter;
`MidnightInJakarta` and `MidnightUTC` move the two dates. A write is one action:
the revision row makes transactions on these tables exclude each other, and what
two replacements do to each other is `RowReplace`'s subject. `Current` and
`NextCycle` are `resolveCurrentCycle` over `menu.Current`; `Problems` is
`validateMenu`. These are about what a load computes now: that a cached document
keeps an older answer is `SiteConfigCache_week`'s finding.

### TierClassifier, PriceLadder and OrderQuotes

`TierClassifier` holds the operators of package pricing: `Tier` is `Analyze`,
its ladder of branches in the code's order (`RunTier` for back-to-back dates,
`ScatteredTier` for the rest), `ValidRules` and `ValidRates` are what the write
handlers refuse. An order is a set of dates, since the code sorts and drops
repetitions first. `Qualifies` is the reference: the published rules BR-3.1 to
BR-3.12 of `docs/02-business-rules.md`, each read on its own, with its own
words for gaps and weeks. `PriceLadder` holds `ValidateBands` and `bandFor`.

`OrderQuotes` is the state machine over both: `SetPricingRules`, `SetPlanRates`,
`SetTierPrices` and `SetKantorRates` are the admin writes with their
validations; `QuoteByRate`, `QuoteByTable`, `RefuseForTable`, `QuoteTierProduct`
and `QuoteKantor` are the branches of `Service.Quote`. A quote is computed from
one document and is one action; its answer stays until `Read`, with no edit in
between, so that a property of it may speak of the catalogue it was computed
from.

### PricingOverlay

One order card, since cards share only the cart: a subscription card, which alone
shows no total while it has no dates (`Blank`, `Rendered`). Tier and Kantor cards
always have a `_current` (index.html:4393, 4614), so they are this card without
`Blank`. An order is an opaque value
with the page's price and the server's. `EditCard`, `Touch`, `ResetOrder` and
`ClickAdd` are what the customer does and what the page's and the overlay's
listeners make of it; `ResetOrder` comes from the cart's dialog, where the
overlay hears nothing. `Refresh` is the debounce running out; `Respond`, `Arrive`,
`Fail` and `Abort` are the two phases of `fetch` (the abort timer is cleared when
the headers arrive, so a body may take for ever); `ApplyQuote` writes the answer
over the total; `Reclick` is the second try of a swallowed click. Time is in
ticks, and what is due happens before time passes. `mode` is read once at boot
and never changes; `Init` starts in either.

### WriteLocks

A write is the sequence of row locks it asks for (`LocksOf`, chosen into `locks`
when it begins), statement by statement, the trigger's lock on `content_revision`
after each first statement included. Foreign keys take a shared lock, UPDATEs one
that such a check may pass, DELETEs and unique keys one that nothing may.

The writes are those of the two repositories and the forced seed: the three of
`menu_cycles`, `SetPlanRates`, `SetTierPrices`, `SetKantorRates`, `SetPricingRules`,
`ParamRepo.Set`; any of them that finds no row, whose trigger takes the revision all
the same (`NothingFound`); `CreateUser`, `DeleteUser`, `SetUserRoles`,
`SetRolePermissions`, `PurgeExpiredSessions`, `DeleteUserSessions`; and three that
stand for others with the same locks: `UpdateUser` for every UPDATE of one account
(`SetPassword`, `RecordLoginFailure`, `RecordLoginSuccess`), `CreateSession` for the
audit row, `DeleteUserSessions` for `DeleteSession` and `TouchSession`. A seed without
`--force` is no kind of its own: it only inserts, where there are no plans, and what
it asks for is what a forced one asks for that found nothing to clear, but for the
order of its first plan and the revision; as a circle with a seed it would be a known one.

Three things make waits that are no row locks held to the end:

- A row of a list is named by its key, and the list has up to `Keys` of them. A
  DELETE at READ COMMITTED works on its statement's snapshot: it waits for whoever is
  deleting a row of it and goes on without the row when that one commits. It then
  holds nothing of the list that took its place. `Miss` is a lock passed without
  having it (`missed`). Which rows exist is not kept, so a row may be missed at any
  time: more than PostgreSQL does, and every circle the code has is among the
  model's. `RowReplace` has the rows themselves.
- The INSERTs that follow meet the unique index, which sees everybody's rows: an
  insertion waits for whoever is deleting or inserting the same key. They come in the
  order of the request, which neither `ValidateBands`, which sorts a copy, nor
  `assignRoles` changes.
- A statement that publishes a week also looks at the other weeks (`Claim`): the
  exclusion constraint makes it wait for whoever is writing one of the same dates,
  after it has written its own row. Whether dates are the same is the write's choice,
  so the model waits whenever some dates would.

Two DELETEs of one list are taken to come by its rows in one order (the statements
differ in their parameters only); the sweep goes by another index, so its order is
any. Days go with their week, components with their day. `Detect` is PostgreSQL's
deadlock detector; the write it aborts is not tried again.

### SeedRuns

What a seed counted outside its transaction (`Count`, `Refuses`), the snapshot
of its first statement (`FirstStatement`), the wait in the trigger (`Lock`), and
the rest, which nobody sees before `Commit`. Admins save and delete weeks; the
plans stand for all content without weeks. `raced` is history: a week inserted
while a clearing statement waited, which that statement does not see.

### Deployment

`applied` is `schema_migrations` and the objects of each step, which one
transaction writes together; `broken` the recorded versions part of which
another step's rollback took away. A runner reads `applied` once (`UpStart`,
`DownStart`) and takes its steps from that reading (`UpStep`, `DownStep`), so
runners may race, die (`Crash`) and be of different releases. Of a migration's
SQL only three relations are kept: what it needs, what keeps its `down.sql` from
succeeding, and what its `down.sql` deletes rows from; `MCDeployment` names the
migrations its five stand for. `Serve` is the check for pending migrations.

## 3. The runs

| Run | Checks | Bounds and why they are enough |
|---|---|---|
| `SiteConfigCache_reads` | `TypeOK`, `RevisionNamesOneContent`, `DocumentsAreSnapshots`, `EditsLiveOnNextRequest`, `RegisterSpec` | two browsers, a handler and the seed, two sections, two revisions, two weeks: a write can fall between two section reads, two transactions can contend for the revision, and an older load overwrite a newer one with a third request following; the theorems are for any number |
| `SiteConfigCache_week` | `ServesThisWeek`, violated | finding 1 |
| `AdminAccounts_guard` | `TypeOK`, `LastAdminGoesOnlyByRace` | two handlers, two accounts, two roles, all operations: the smallest guard that can be overtaken |
| `AdminSessions_handlers` | `TypeOK`, `GrantsAreEntitled`, `PromisesKeptWhileCalm`, `LockoutEnds`, `ExpiredArePurged` | two handlers, one session at a time, failing writes; two attempts and two ticks instead of five and fifteen minutes: the code compares, it does not depend on the numbers |
| `RowReplace_methods` | `TypeOK`, `ReplacesWhenGuarded`, `ShownIsReplaced` | all four methods, three writers and any lists over three keys: one may delete, one wait and one commit in between |
| `MenuCycles_weeks` | `TypeOK`, `DocumentValidates`, `TodaysMenuIsShown`, `NextFollowsCurrent`, `WeeksTurnInOrder` | three weeks over ten dates with a Sunday: one shown, one next, one that may come between or touch either; spans that touch, overlap, cover a whole week, are too wide or inverted; days that fit only some spans, a Sunday for each kind of plan, a day without a menu |
| `OrderQuotes_quotes` | `TypeOK`, `TierIsThePublishedOne`, `PackingNeverCostsMore`, `AddonsFollowDeliveries`, `KantorServesEveryDay`, `LadderHasNoGap` | every set of eight dates across a weekend, under thresholds scaled down so that every branch is reached, and long orders under the shipped thresholds: working weeks, fortnights and months, 5 to 20 days back to back, every second and third day, BR-3.12's examples; requests on both sides of every validation; two Kantor lengths from every weekday |
| `PricingOverlay_quotes` | `CardTypeOK`, `VerifyChargesPage`, `RightWhileCalm`, `SettledIsServers`, `Released` | an order on which page and server agree and one on which they do not; three quotes in flight, due or owed to a held click: the newest may be overtaken by an older one while a third waits; a timeout of three ticks against a debounce of one, so that an edit, a quote and a click fit inside it |
| `PricingOverlay_late` | `BanksTheOrdersPrice`, violated | finding 2 |
| `WriteLocks_writers` | `DeadlocksAreKnown`, `EveryWriterEnds` | three connections making every kind of write; two weeks, so that two saves meet on one week or on the revision row alone; two keys of a list, so that it is found in part and inserted in another order. `Kinds` bounds which kinds are under way together: content apart from accounts, which share no row with it, a role's permissions by themselves, and the rest by the rows they meet in besides the revision row. Each of the five circles comes up: without its clause the run fails. The theorem is for all kinds at once |
| `SeedRuns_force` | `SeedTypeOK`, `SeededWhole`, `OnlyForceReplaces` | two seeds, one of which can wait for the other, from two captures that share a week; four weeks, one in neither |
| `Deployment_runners` | `TypeOK`, `SchemaIsWhole`, `SomebodyFinishes`, `ServesOnWholeSchema` | three runners, five migrations that depend on each other as the repository's do, the newest release and the one before; `down` of one, two or all steps |

Symmetry is used for safety only, over browsers, handlers, writers, seeds,
runners and the accounts that do not exist at first; never in a run with
liveness under fairness. The slots, ticks and attempts are the bounds of the
models, all of them constants named in the `.cfg` files.

### What the passing runs show

The read path is right: repeatable read, the revision row's lock and the order
"revision, then cache, then load" together give a linearizable register, even
though the cache may go backwards, the ETag is read apart from the body, the CLI
never invalidates and replies get lost. `Invalidate` is not needed for it. The
guard is right one request at a time. Revocation and lockout keep the promises of
their comments until logins and administrations overlap or a write whose error is
discarded fails; `calm` is the history variable that says so. Locking the week's
row first makes its replace atomic; a Kantor ladder is saved only by the unique
index on its lowest band, a tier ladder, whose lowest quantity comes from the
request, by nothing.

The rotation is right: the exclusion constraint and the day validation together
leave `validateMenu` nothing to report, and time turns the weeks in the order
they are announced, across gaps too. The week shown needs the timezone to exist;
with an unknown one it is UTC's. The classifier is right: its branch order gives
the one tier whose published rule holds, and the rate validation keeps scattering
from paying for orders of up to a week and of a month or more. In between it
would not hold: a consecutive run of 15 to 19 days is charged the list price
(the cliff of Q-7 in `docs/09-open-questions.md`), which is more than the same
number of days scattered, and one of 8 to 14 days is Flexi Mingguan where the
working days of two weeks are Mingguan. Flexi Bulanan alone may exceed the list price, and a
group is refused only where `pax_table_max_pax` exceeds the table's rows.

In verify mode the overlay never changes what is charged. In authoritative mode
a total is a price of its own order as long as the order does not change under a
quote in flight, the server's figure stands once the newest quote was answered
after the older ones, and a swallowed click gets through even when a reply's body
never ends. Admins who save different weeks, prices, ladders, roles or permissions
at once wait for each other, but not in a circle, unless two of them publish over the
same dates or a forced seed is under way. Saves of one and the same list can: one
whose DELETE waited for another finds the rows gone, holds none of the list and goes
on to insert, and a third save that holds the new rows waits for what it has, the
revision row or a key. `DeadlocksAreKnown` names the five kinds of circle; PostgreSQL
ends each by failing one request. A seed is all
or nothing, and one without `--force` never replaces anything, since the unique
slugs catch what its early count missed. Racing ups do not corrupt the schema
and one of them gets to the end.

### What the violated runs show

1. **The week.** `Menu.current` is resolved when the document is loaded and
   served until the revision moves; a Monday without an edit shows last week.
2. **The late answer.** `applyQuote` writes whatever quote arrives over the total
   of whatever order the card holds by then; a click on "add" before the next
   quote is sent, or after a first answer older than the timeout, puts the new
   order with the old order's price into the cart.

### What the models show besides

These are consequences of the code that no run has for its subject. Where a
definition states what fails, it is named, and a run that adds it as an invariant
reproduces it.

- **The guard races** (`SomebodyCanManage`). Two requests count each other's
  account and both write; and one request can take `user.manage` from the only
  role the active administrators hold it through, since permissions are
  unguarded. With one handler and no permission edits it holds, by
  `SerialGuard`.
- **Lost counts** (`LockoutHolds`). Concurrent failures write the same absolute
  count, and one may write "no lock" over another's lock.
- **Concurrent role replacements merge** (`ReplacedExactly`). So do two tier
  ladders with different lowest quantities: the ladder is validated against the
  lowest quantity in the request rather than the product's (admin.go:99). A
  quantity below the first band is charged the last one's price, and `thenied
  validate` reports it afterwards (service.go:114).
- **A login in flight outlives a revocation.** A login that read the old password
  hash creates its session after the change has deleted the others; the same
  window leaves a session behind a deactivation, unusable until the account is
  activated again (`GrantsAreEntitled` holds), and the DELETE's own failure is
  reported as a success (users.go:70, 101). That is why `PromisesKeptWhileCalm`
  is stated of calm states.
- **A gap is taken for a weekend by its length.** A month of working days without
  a Tuesday and a Wednesday has only gaps of one and three days and is priced as
  a clean Monday-to-Friday routine. `docs/02-business-rules.md` states the rule by
  the lengths, as the code does; the comment in `tier.go` says weekend.
- **Two weeks published at once over the same dates** may wait for each other on
  `menu_cycles_no_overlap`. The one PostgreSQL aborts gets SQLSTATE 40P01, which
  `translate` (write_repo.go:341) has no case for: a 500, where the order one
  after the other gives the overlap's 409.
- **Three saves of one ladder in a circle.** The first commits; the second's DELETE
  (write_repo.go:268, 285) waited for it, deletes nothing and takes
  `content_revision` by its trigger; the third's DELETE locks the first's new bands
  and waits for the revision; the second's INSERT waits in the unique index for the
  third's deletion. A 500 again, where one after the other all three succeed. Saves that
  all find the rows they replace do not: hence `missed[p] # {}` in `DeadlocksAreKnown`.
- **Three saves of one account's roles** do the same without a revision row: two that
  found no rows insert the same keys in different orders, and so do saves of one
  role's permissions. A sweep of expired sessions and a deletion of one account's may
  meet two sessions in opposite orders.
- **An older binary's `down`** passes over the steps it does not know. A `down 0`
  of a release without step 8 leaves 8 recorded while its row of `sys_parameters`
  goes with the table; a later `up` does not put it back. `ServesOnWholeSchema` is
  about recorded steps, `SchemaIsWhole` about calm histories.
- **A week saved while a forced seed waits** for the revision row is not among the
  rows its first DELETE saw: it stays, and its days go with the plans they refer
  to.

## 4. Fairness

Safety runs assume none. `FairSpec` of `AdminSessions` assumes that time passes
(`WF(Tick)`) and that the sweep runs while there is something to sweep
(`WF(Purge)`): `cmd/thenied/main.go` sweeps at start and every hour for as long
as the process lives, in a goroutine nothing else blocks. No fairness is assumed
of handlers, which may fail or be abandoned. `LockoutEnds` needs more than the
clock: a lock refuses new checks, so only the finitely many already under way
can extend it.

`CardFairSpec` of `PricingOverlay` assumes the browser's own timers: time passes, the
debounce runs out, a held click is tried again, a quote past its timeout is
aborted. Nothing obliges the server to answer, nor a reply's body to end.
`Released` allows for a customer who keeps changing the card.

`FairSpec` of `WriteLocks` assumes that while some write can take its next lock,
commit, or be picked by the deadlock detector, one of them does. Who is served
first is not assumed, so one write may starve while others keep coming, which
`EveryWriterEnds` allows for: writes started at some time all end unless new ones
are begun for ever. Beginning, failing and missing a row are never assumed: that a
write gets out of its waits is left to the others' ends and to the detector.

## 5. Proofs

| Theorem | Module | Says |
|---|---|---|
| `TypeCorrect`, `RevisionsNameContent`, `DocumentsWhole`, `EditsLive`, `TagsHonest` | `SiteConfigCache_proofs` | the run's four invariants and `TagNotAheadOfCopy`, for any number of browsers, writers, sections, revisions |
| `Refinement` | `SiteConfigCache_proofs` | `Spec => RegisterSpec` |
| `TypeCorrect`, `OnlyByRace` | `AdminAccounts_proofs` | for any number of accounts, roles and handlers |
| `SerialGuard` | `AdminAccounts_proofs` | `Slots` a singleton and no role edits `=> []SomebodyCanManage` |
| `TypeCorrect`, `RequestsAreEntitled`, `PromisesKept` | `AdminSessions_proofs` | `[]TypeOK`, `[]GrantsAreEntitled`, `[]PromisesKeptWhileCalm`, for any number of handlers and sessions, any limit and durations, failing writes or none |
| `TypeCorrect`, `Replacement`, `ShownRowsGo` | `RowReplace_proofs` | `[]TypeOK`, `[]ReplacesWhenGuarded`, `[]ShownIsReplaced`, for any methods, lists and number of writers |
| `TypeCorrect`, `WeeksStayApart`, `ServedDocumentValidates`, `ShowsTodaysWeek`, `NextIsNext`, `WeeksTurn` | `MenuCycles_proofs` | `[]TypeOK`, `[]IInv`, `[]DocumentValidates`, `[]TodaysMenuIsShown`, `[]NextFollowsCurrent`, `WeeksTurnInOrder`, for any weeks, plans, spans and menus |
| `TierIsPublished`, `PackedIsCheapest` | `OrderQuotes_proofs` | for every finite set of dates and all valid thresholds, exactly one published rule holds and the ladder finds it; the packed order is the cheapest |
| `LadderCovers` | `OrderQuotes_proofs` | a valid ladder, of any length, has no gap |
| `CatalogueStaysValid`, `QuotesHaveThePublishedTier`, `ScatteringNeverPays`, `ListPriceBoundsQuotes`, `QuantityOnLadder`, `RefusalsArePastTheTable` | `OrderQuotes_proofs` | the catalogue in force is valid; three of the run's invariants; `OnlyFlexiMonthlyOverList` and `RefusedOnlyPastTheTable`, which no run repeats |
| `QuotesAreTyped`, `AddonsAreForDeliveries`, `KantorPackagesAreWhole` | `OrderQuotes_proofs` | the rest of the run's invariants: `[]TypeOK`, `[]AddonsFollowDeliveries`, `[]KantorServesEveryDay`, for any requests |
| `KantorDatesAreTheNextWorkingDays` | `OrderQuotes_proofs` | from any start and for any length, the bounded walk returns that many working days, none passed over |
| `OverlayTyped`, `VerifyNeverCharges`, `CalmCardsAreRight`, `SettlesOnTheServer` | `OrderQuotes_proofs` | `CardTypeOK`, `VerifyChargesPage`, `RightWhileCalm` and `SettledIsServers` of `PricingOverlay`, for any orders, prices, timeouts and number of quotes in flight |
| `WritesAreTyped`, `OnlyKnownDeadlocks` | `WriteLocks_proofs` | `[]TypeOK`, `[]DeadlocksAreKnown`, for any number of connections, weeks, plans, packages, grades, parameters, accounts, roles and keys of a list |
| `TypeCorrect`, `ServedSchemaStays`, `SchemaStaysWhole`, `OneUpGetsThrough` | `Deployment_proofs` | `[]TypeOK`, `[]ServesOnWholeSchema`, `[]SchemaIsWhole`, `[]SomebodyFinishes`, for any number of migrations, releases and runners and any needs among them |
| `SeedsTyped`, `SeedsWhole`, `ForceReplaces` | `Deployment_proofs` | `[]SeedTypeOK`, `[]SeededWhole` and `OnlyForceReplaces` of `SeedRuns`, for any seeds, captures and weeks |

Each rests only on the named assumptions of its module about the constants
(`ConstantsAssumption`, `AccountsAssumption`, `SessionsAssumption`,
`ReplaceAssumption`, `MenuAssumption` with `NoCycleAssumption`,
`QuoteAssumption`, `PriceAssumption` with `TimeAssumption`, `KeysAssumption` with
`FiniteAssumption`, `PageAssumption` with `NoneAssumption`, `ReleaseAssumption` with
`NeedsAssumption`), which TLC evaluates in every run of the module. The
theorems of the classifier need none: they quantify over the thresholds.

**SiteConfigCache.** None of the properties is inductive. `IInv` adds why they
hold: the committed state is the newest snapshot (`HistoryInv`); only one
transaction is past its first statement, and it is ahead of the committed
revision (`LockInv`); the cache holds some whole snapshot (`CacheInv`); and for
each program point of a request, what it has established about its floor, its
ETag and its document (`CallInv`): the revision read in `peek` is at least both,
a `load`'s snapshot is, so whatever comes out of cache or load is. The lemma
`Survives` carries a publishable document over every commit. The refinement maps
`Commit` to `Publish`, the step into `reply` to `Return`, `Start...` to `Invoke`,
`Deliver` and a failing query to `End`, `Restart` to `Crash`; the rest stutter
(`Quiet`, which changes nothing and only spares TLC the other disjuncts).

**AdminAccounts.** `Cleared` says what being cleared to write means until
somebody else writes: another administrator exists, or the new roles keep the
grant. A step that leaves no administrator must then be a write that was raced,
or a permissions edit; with one handler nothing races.

**AdminSessions.** `RequestInv` says what a request has established at each of its
two reads: while its session row is still to be read, the session was seen good if
it is good now, and only `CreateSession` makes one good, under a token no request
presents; the same for the account row. `PromisesKept` needs `CalmInv`: at most one
writing handler is under way (`Alone`), so a login's copy of the row is what the row
still says, it is no login of a changed password, and what a failed check is about
to write accounts for every failure (`WriterInv`, `AccountInv`). A step that breaks
one of these makes two writers overlap or loses a write, and ends the calm.

**RowReplace.** Two arguments, one for each thing that guards a list.
`LockedInv`: one transaction at a time between `Begin` and its end, so its
snapshot is the table, its DELETE takes everything and its INSERTs meet nothing.
`ContendedInv(k)`, for a key `k` every list has: row `k` is always the last
committer's, so a snapshot that still agrees on row `k` is the table; at most one
writer has deleted row `k`, since the others wait for it; and only that writer
can insert `k`, so only it commits. `ShownIsReplaced` needs neither guard: a row a
DELETE was shown belongs to a writer that is done (`OnceOnly`), so once gone it
never comes back, and when the DELETE ends it is gone (`ShownInv`).

**MenuCycles.** `DocumentValidates` follows from `IInv` alone: published weeks
share no date (`PublishedDisjoint`) and days lie inside their week
(`DaysBelong`), of unpublished rows too, since publishing checks the span but not
the days. `ShowsTodaysWeek` is that at most one published week covers a date. `NextIsNext`
and `WeeksTurn` order the published weeks by their first day, which is the order of
their last days since they share no date: the least that starts after today is the
one announced, and at the next midnight either nothing changes or that one begins.
The existence of a least and a latest week is well-founded induction on dates, from
the library; here, and wherever else a least member is taken, in the form of
`NatLessThanWellFounded` with `WFMin`, which have no operator for a parameter.

**TierClassifier and OrderQuotes.** `TierIsPublished` compares two ways of saying
the same thing: the code's gaps between neighbours in sorted order against "the
next date is k days later", its count per Monday against "some seven days from a
Monday". The lemmas prove those equal for finite sets; the rest is the order of
the branches, where the validated relations between thresholds are used.
`PackedIsCheapest` then walks the tiers. `LadderCovers` is about a set of bands
of any size: of those that reach up to the quantity take the one beginning lowest;
it is the first band, or the band that ends where it begins falls short of the
quantity, and either way it holds it. The
inductive invariant of `OrderQuotes` says that what is in force is valid
(`CatalogueIsValid`), that the answer was computed from it (`AnswerFits`), and that
it is of its type and for the days and add-ons it should be (`AnswerIsWhole`). The
last needs the finite counts: the dates an add-on is charged for are a subset of the
order's. A Kantor package is delivered in full because one of any three days in a
row is a working day, so a walk of `3 * days + 14` days passes at least `days` of
them, and the dates with fewer than `days` before them are then an initial part of the walk
with exactly `days` members (`KantorDatesAreTheNextWorkingDays`).

**PricingOverlay.** `OverlayInv` adds to the checked invariants that a total is
shown exactly when the card has its dates (`ShownInv`), that while calm every quote
in flight was sent for the order on the card (`QuotesMatch`), and that the newest
quote in flight asks for that order too unless the debounce timer runs and will ask
again (`NewestInv`). What answers then writes a price of the order on the card; and
after an edit either the timer runs or a newer quote is out, so `SettledIsServers`
cannot be reached through an answer to the order before.

**WriteLocks.** `Contents` says of each write what its i-th lock can be. `IInv` adds to
the types that a connection's locks are its write's (`LocksAreTheWrites`) and that no
two connections hold conflicting ones (`HeldAgree`), which is inductive because
`Acquire` waits for conflicting holders and a missed row is not held; a look of the
exclusion constraint holds nothing and is left out of it. Suppose a circle that is
none of the five. Somebody in it is waited for, and whoever
is has got past a lock. No such member waits for what a foreign key refers to (`ReferenceIsFree`), for a key to
insert (`InsertIsFree`), for `content_revision` (`RevisionIsFree`), in a look at another
week (`CheckIsFree`) or for an account after its first lock (`UserIsFree`). The second of
these is where missing rows matter: of two saves of one list that missed none, one has
all the rows and the other is still at its DELETE. What is left are DELETEs that wait
for a row whose holder is in the circle too, and waits for a row of the same list with
a greater key (`WaitsToDelete`, `Climbs`). That cannot go on for ever among `Keys` keys (`NobodyIsStuck`): a least member, by `NatLessThanWellFounded`.

**SeedRuns.** A seed that loads found none of its keys taken (`LoadInv`), so it is
either forced, and has cleared, or the database had no content. Every other writer
waits for the revision row from its first statement on, so between a forced seed's
clearing and its commit the weeks that are there and were not seen are the ones of
`raced` (`SeenInv`). `WeeksInv` is `SeededWhole` for a database without content as
well: what is there is then an admin's.

**Deployment.** `SchemaStaysWhole` rests on `CalmInv`: in a calm history the applied
versions are an initial segment, nothing is broken, ups and downs do not run beside
each other, what an up has left fills the segment from below (`FillsUp`) and what a
down has left is the top of it (`FromTheTop`). So the version an up takes, if it can
be taken, is the next one, and the version a down takes is the last or already gone.
`OneUpGetsThrough` rests on `RaceInv`: every up covers what is still to be reached,
where a step of its was taken by another so were its earlier ones (`Overtaken`), and
unless all is reached some up has no step taken from it (`Leads`). That one can
apply its next step, so only an up that is not ahead gives up; and when a leader's
step is taken, whoever took it leads.

## 6. Only model-checked

Liveness, which needs fairness (`LockoutEnds`, `ExpiredArePurged`, `Released`,
`EveryWriterEnds`): beyond TLAPS, as is `ENABLED`. Every invariant and every other
action property of a passing run is a theorem. The bounded instances say one thing
more than the theorems: that the cases happen, which the theorems alone would not.
What the arithmetic of a quote's total comes to is checked by neither except
for its sign; it follows the code line by line.

## 7. Not modelled, and why

- Hashing, random tokens, cookies, headers, logging, configuration, connection
  options: no state whose order matters here, or external.
- The page's markup, how the overlays read an order out of it, and the extraction
  of the seed's data from the page (`seed.go`, seven hundred lines): parsing and
  layout.
- The admin UI: rendering and forms. Its one operation of two calls, saving a user
  and then the roles, is two separate requests of `AdminAccounts`, between which
  anything may happen; that the second may fail is for the person at the form to see.
- Audit rows: written after the fact, errors discarded by design, read by
  nobody but the list. `TouchSession`: a timestamp nothing reads.
- `GET /site-config/revision`, `/readyz` and the listings: reads without effect.
- Of the quotes: the rice option, which add-ons a card may name, labels, and the
  width of int64 amounts. Amounts are unbounded integers. Rates and day counts in use
  are far from the width, but nothing bounds a request's `pax` from above
  (`quote.go:90` refuses only less than one), nor a tier product's `qty`: the results
  about totals are those of requests whose product fits. Of the menus: labels, kcal, the meat-day mark. `Pick`,
  `MondayOf` and `NewCycle` of package menu, and `BandFor` of package catalogue,
  have no caller outside the tests.
- The other parameters: `ParamRepo.Set` reads a value's type, which nothing
  changes, and is one UPDATE with its revision bump, a writer of
  `SiteConfigCache` like the others; only the timezone is read by something that
  is modelled.

## 8. Plan

Done: `SiteConfigCache` with `ConfigRegister`, `AdminAccounts`, `AdminSessions`,
`RowReplace`, `MenuCycles`, `TierClassifier`, `PriceLadder`, `OrderQuotes`,
`PricingOverlay`, `Deployment`, `WriteLocks`, `SeedRuns`, and proofs of every
safety property their passing runs check. Left, in this order:

1. The refinement of an abstract specification for a second component: an atomic
   guard for `AdminAccounts` while nothing races, as `SerialGuard` suggests.
2. That a write aborted in a circle leaves the others able to go on: the safety half
   of `EveryWriterEnds`, that some write can always take its next lock, commit or be
   picked, for any number of connections.
3. The totals of a quote as sums over its days, against the published prices.
