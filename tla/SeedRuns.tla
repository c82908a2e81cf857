------------------------------ MODULE SeedRuns ------------------------------
(***************************************************************************)
(* "thenied seed [--force]" beside other seeds and beside admins who save  *)
(* and delete weeks (cmd/thenied/seed.go, seed_write.go, write_repo.go).   *)
(*                                                                         *)
(* A seed counts the plans, outside any transaction, and then loads the    *)
(* captured page in one: with --force it first clears every content table, *)
(* menu_cycles before the others.  Under READ COMMITTED each statement     *)
(* sees what was committed when it started.  The first one fires the       *)
(* trigger that locks content_revision and may have to wait there for      *)
(* another writer: rows that writer commits are not among those the        *)
(* statement deletes.  From then on no other content write can commit, and *)
(* the rest of the transaction sees everything.                            *)
(*                                                                         *)
(* Of the content the plans stand for all that has no weeks.               *)
(***************************************************************************)
EXTENDS FiniteSets

CONSTANTS Seeders,  \* processes that run "thenied seed"
          Pages,    \* captured pages, MIRROR_PATH
          Weeks,    \* menu_cycles' unique key
          WeeksOf,  \* page -> the weeks it shows
          None,     \* no plans, no such week
          Admin     \* who saved a week, if no page brought it

ASSUME PageAssumption == /\ Pages # {}
                         /\ WeeksOf \in [Pages -> SUBSET Weeks]
                         /\ Admin \notin Pages
ASSUME NoneAssumption == /\ None \notin Pages \cup Seeders
                         /\ None \notin [by : Pages \cup {Admin}, days : BOOLEAN]

VARIABLES
  plans,   \* the page whose plans, prices and add-ons are stored
  cycles,  \* week -> None, or who brought it and whether it has its days
  seeder,  \* what each process is at
  lock,    \* the seed that holds content_revision
  edited,  \* history: weeks an admin saved or deleted since the last seed
  raced    \* history: weeks inserted past a clearing statement that waited

seedVars == <<plans, cycles, seeder, lock, edited, raced>>

Cycle == [by : Pages \cup {Admin}, days : BOOLEAN]
Phases == {"idle", "counted", "first", "cleared", "loading"}
Seeder == [phase : Phases, page : Pages, force : BOOLEAN, seen : SUBSET Weeks]

There(c) == {w \in Weeks : c[w] # None}

SeedTypeOK ==
  /\ plans \in Pages \cup {None}
  /\ cycles \in [Weeks -> Cycle \cup {None}]
  /\ seeder \in [Seeders -> Seeder]
  /\ lock \in Seeders \cup {None}
  /\ edited \in SUBSET Weeks
  /\ raced \in SUBSET Weeks
  /\ \A s \in Seeders : lock = s <=> seeder[s].phase \in {"cleared", "loading"}

NoSeed == [phase |-> "idle", page |-> CHOOSE p \in Pages : TRUE,
         force |-> FALSE, seen |-> {}]

SeedInit ==
  /\ plans = None
  /\ cycles = [w \in Weeks |-> None]
  /\ seeder = [s \in Seeders |-> NoSeed]
  /\ lock = None
  /\ edited = {}
  /\ raced = {}

Go(s, phase) == seeder' = [seeder EXCEPT ![s].phase = phase]

-----------------------------------------------------------------------------
\* runSeed up to the transaction: extract the page, count the plans, refuse.

Refuses(force) == plans # None /\ ~force

Count(s, page, force) ==
  /\ seeder[s].phase = "idle"
  /\ ~Refuses(force)
  /\ seeder' = [seeder EXCEPT ![s] =
                  [phase |-> "counted", page |-> page, force |-> force, seen |-> {}]]
  /\ UNCHANGED <<plans, cycles, lock, edited, raced>>

-----------------------------------------------------------------------------
\* seedData.write

\* The first statement starts: DELETE FROM menu_cycles sees, and locks, the
\* weeks there are; without --force it is the INSERT of the first plan.
FirstStatement(s) ==
  /\ seeder[s].phase = "counted"
  /\ seeder' = [seeder EXCEPT ![s].phase = "first",
                              ![s].seen = IF seeder[s].force THEN There(cycles)
                                          ELSE {}]
  /\ UNCHANGED <<plans, cycles, lock, edited, raced>>

\* It ends with the lock on content_revision.  Of two clearing statements that
\* meet on a row PostgreSQL lets the first to lock it go on; here either may.
Lock(s) ==
  /\ seeder[s].phase = "first"
  /\ lock = None
  /\ lock' = s
  /\ Go(s, "cleared")
  /\ UNCHANGED <<plans, cycles, edited, raced>>

\* What the transaction leaves: the rows its first DELETE saw are gone; the
\* days of every other week go with the plans they refer to.
Kept(s) ==
  [w \in Weeks |-> IF ~seeder[s].force THEN cycles[w]
                   ELSE IF w \in seeder[s].seen \/ cycles[w] = None THEN None
                   ELSE [cycles[w] EXCEPT !.days = FALSE]]

Loaded(s) ==
  [w \in Weeks |-> IF w \in WeeksOf[seeder[s].page]
                     THEN [by |-> seeder[s].page, days |-> TRUE]
                     ELSE Kept(s)[w]]

\* Unique slugs, one row per week.
Clashes_OnWeeks(s) == WeeksOf[seeder[s].page] \cap There(Kept(s)) # {}
Clashes(s) ==
  \/ plans # None /\ ~seeder[s].force
  \/ WeeksOf[seeder[s].page] \cap There(Kept(s)) # {}

\* Statement after statement; nobody else sees any of it yet.
Load(s) ==
  /\ seeder[s].phase = "cleared"
  /\ ~Clashes(s)
  /\ Go(s, "loading")
  /\ UNCHANGED <<plans, cycles, lock, edited, raced>>

\* COMMIT.  Other clearing statements that still wait find the rows gone that
\* this transaction deleted, and have never seen those it inserted.
Commit(s) ==
  /\ seeder[s].phase = "loading"
  /\ plans' = seeder[s].page
  /\ cycles' = Loaded(s)
  /\ lock' = None
  /\ edited' = IF seeder[s].force THEN {} ELSE edited
  /\ seeder' = [t \in Seeders |->
                  IF t = s THEN NoSeed
                  ELSE [seeder[t] EXCEPT !.seen =
                          @ \ (seeder[s].seen \cup WeeksOf[seeder[s].page])]]
  /\ raced' = (raced \ seeder[s].seen) \cup
                {w \in WeeksOf[seeder[s].page] :
                   \E t \in Seeders \ {s} : seeder[t].phase = "first"
                                            /\ seeder[t].force}

\* A clash, any other error, or the end of the process: all of it rolls back.
Rollback_KeepsLoaded(s) ==
  IF seeder[s].phase = "loading"
    THEN plans' = seeder[s].page /\ cycles' = Kept(s)
    ELSE UNCHANGED <<plans, cycles>>
Rollback(s) == UNCHANGED <<plans, cycles>>

Unlock_Never(s) == UNCHANGED lock
Unlock(s) == lock' = IF lock = s THEN None ELSE lock

Fail(s) ==
  /\ seeder[s].phase # "idle"
  /\ seeder' = [seeder EXCEPT ![s] = NoSeed]
  /\ Unlock(s)
  /\ Rollback(s)
  /\ UNCHANGED <<edited, raced>>

-----------------------------------------------------------------------------
\* Admins, each write a transaction that holds content_revision to its end.

\* Rows that a clearing statement which still waits has locked already.
LockedWeeks == UNION {seeder[s].seen : s \in Seeders}

\* UpsertCycle: the days name plans, so that without plans a week has none.
SaveWeek(w) ==
  /\ lock = None
  /\ w \notin LockedWeeks
  /\ cycles' = [cycles EXCEPT ![w] = [by |-> Admin, days |-> plans # None]]
  /\ edited' = edited \cup {w}
  /\ raced' = IF /\ cycles[w] = None
                 /\ \E s \in Seeders : seeder[s].phase = "first" /\ seeder[s].force
                THEN raced \cup {w} ELSE raced
  /\ UNCHANGED <<plans, seeder, lock>>

DeleteWeek(w) ==
  /\ lock = None
  /\ cycles[w] # None
  /\ w \notin LockedWeeks
  /\ cycles' = [cycles EXCEPT ![w] = None]
  /\ edited' = edited \cup {w}
  /\ raced' = raced \ {w}
  /\ UNCHANGED <<plans, seeder, lock>>

Seed(s) == (\E page \in Pages, force \in BOOLEAN : Count(s, page, force))
           \/ FirstStatement(s) \/ Lock(s) \/ Load(s) \/ Commit(s) \/ Fail(s)

SeedNext == (\E s \in Seeders : Seed(s))
        \/ (\E w \in Weeks : SaveWeek(w) \/ DeleteWeek(w))

SeedSpec == SeedInit /\ [][SeedNext]_seedVars

-----------------------------------------------------------------------------
\* Properties.

\* "All or nothing": the weeks of the page whose plans are stored are all
\* there with their days unless an admin changed them since, and what another
\* page or an earlier admin left is gone - except a week that was inserted
\* while a clearing statement waited, which stays on without its days.
SeededWhole ==
  plans # None =>
    \A w \in Weeks \ (edited \cup raced) :
      cycles[w] = IF w \in WeeksOf[plans] THEN [by |-> plans, days |-> TRUE]
                  ELSE None

\* "Refuses to run against a database that already has content unless --force
\* is given": also when content came between the count and the writing, and
\* when two seeds counted none.
OnlyForceReplaces ==
  [][\A s \in Seeders :
       (seeder[s].phase = "loading" /\ ~seeder[s].force /\ plans' # plans)
         => plans = None]_seedVars
=============================================================================
