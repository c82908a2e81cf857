----------------------------- MODULE Deployment -----------------------------
(***************************************************************************)
(* The schema's versions: "thenied migrate up", "migrate down [n]" and the *)
(* check "serve" makes before it answers (platform/migrate/migrate.go,     *)
(* cmd/thenied/main.go), run by several operators or hosts at once, with   *)
(* binaries of different releases.                                         *)
(*                                                                         *)
(* A release K carries the migrations 1 .. K.  A runner reads the applied  *)
(* versions once and then takes its steps one by one, each a transaction   *)
(* that runs the step's SQL and records or forgets its version; nothing    *)
(* keeps another runner from doing the same in between.  So a version is   *)
(* recorded exactly when its SQL has run, and what can go wrong is that    *)
(* versions are missing in the middle, or that undoing one step takes away *)
(* parts of another that stays recorded.                                   *)
(***************************************************************************)
EXTENDS Integers, FiniteSets

CONSTANTS Latest,    \* the newest migration there is
          Releases,  \* the binaries in use, by the newest migration they carry
          Runners,   \* the processes that may run a "migrate" command
          Needs,     \* version -> versions whose objects its up.sql uses
          Pins,      \* version -> those whose down.sql fails while it is there
          RowsIn     \* version -> the tables' version its down.sql deletes from

Versions == 1 .. Latest

ASSUME ReleaseAssumption == Latest \in Nat /\ Releases \subseteq Versions
ASSUME NeedsAssumption ==
  /\ Needs \in [Versions -> SUBSET Versions]
  /\ Pins \in [Versions -> SUBSET Versions]
  /\ RowsIn \in [Versions -> SUBSET Versions]
  /\ \A v \in Versions : \A w \in Needs[v] \cup Pins[v] \cup RowsIn[v] : w < v
  /\ \A v \in Versions : Pins[v] \cup RowsIn[v] \subseteq Needs[v]

VARIABLES
  applied,  \* schema_migrations, and the objects each step created
  broken,   \* applied versions some part of which is gone
  runner,   \* what each process is doing and has yet to do
  serving,  \* the release of the running server, 0 when there is none
  undone,   \* history: a step was rolled back since that server started
  calm,     \* history: no up and down overlapped, no down missed a newer step
  asked     \* history: what the ups that ran to their end were to reach

vars == <<applied, broken, runner, serving, undone, calm, asked>>

\* A runner keeps the steps left to take: an up from the first, a down from
\* the last.
Idle == [cmd |-> "idle", todo |-> {}]
Runner == [cmd : {"idle", "up", "down"}, todo : SUBSET Versions]

TypeOK ==
  /\ applied \in SUBSET Versions
  /\ broken \in SUBSET applied
  /\ runner \in [Runners -> Runner]
  /\ serving \in {0} \cup Releases
  /\ undone \in BOOLEAN
  /\ calm \in BOOLEAN
  /\ asked \in 0 .. Latest

Init ==
  /\ applied = {}
  /\ broken = {}
  /\ runner = [r \in Runners |-> Idle]
  /\ serving = 0
  /\ undone = FALSE
  /\ calm = TRUE
  /\ asked = 0

Running(cmd) == {r \in Runners : runner[r].cmd = cmd}

First(S) == CHOOSE v \in S : \A w \in S : v <= w
Last(S) == CHOOSE v \in S : \A w \in S : v >= w

-----------------------------------------------------------------------------
\* "migrate up"

\* Up reads the applied versions; the loop will pass over those.
ToApply_All(K) == 1 .. K
ToApply(K) == (1 .. K) \ applied

UpStart(r, K) ==
  /\ runner[r].cmd = "idle"
  /\ runner' = [runner EXCEPT ![r] = [cmd |-> "up", todo |-> ToApply(K)]]
  /\ calm' = (calm /\ Running("down") = {})
  /\ asked' = IF Running("up") = {} \/ K < asked THEN K ELSE asked
  /\ UNCHANGED <<applied, broken, serving, undone>>

\* CREATE fails on what exists, INSERT INTO schema_migrations on a version
\* already there, and a step on objects it misses.
CanApply(v) == v \notin applied /\ Needs[v] \subseteq applied

UpStep(r) ==
  /\ runner[r].cmd = "up"
  /\ runner[r].todo # {}
  /\ LET v == First(runner[r].todo) IN
       IF CanApply(v)
         THEN /\ applied' = applied \cup {v}
              /\ runner' = [runner EXCEPT ![r].todo = @ \ {v}]
         ELSE /\ runner' = [runner EXCEPT ![r] = Idle]
              /\ UNCHANGED applied
  /\ UNCHANGED <<broken, serving, undone, calm, asked>>

-----------------------------------------------------------------------------
\* "migrate down [n]"

\* The last n of the versions this release knows, all of them for n <= 0.
LastOf_First(S, n) == {v \in S : n <= 0 \/ Cardinality({w \in S : w < v}) < n}
LastOf(S, n) == {v \in S : n <= 0 \/ Cardinality({w \in S : w > v}) < n}

DownStart(r, K, n) ==
  /\ runner[r].cmd = "idle"
  /\ runner' = [runner EXCEPT ![r] =
                  [cmd |-> "down", todo |-> LastOf(applied \cap (1 .. K), n)]]
  /\ calm' = (calm /\ Running("up") = {} /\ applied \subseteq 1 .. K)
  /\ UNCHANGED <<applied, broken, serving, undone, asked>>

\* DROP TABLE and DROP FUNCTION fail while another step's objects depend on
\* them, DELETE FROM where the table is gone; DROP ... IF EXISTS and the DELETE
\* from schema_migrations succeed even if the step was undone before.
CanUndo(v) ==
  /\ \A w \in applied : v \notin Pins[w]
  /\ RowsIn[v] \subseteq applied

\* Rows and triggers that another step put on this one's tables go with them.
LostWith_EvenUnapplied(v) == {w \in Versions : v \in Needs[w]}
LostWith(v) == {w \in applied : v \in Needs[w]}

DownStep(r) ==
  /\ runner[r].cmd = "down"
  /\ runner[r].todo # {}
  /\ LET v == Last(runner[r].todo) IN
       IF CanUndo(v)
         THEN /\ applied' = applied \ {v}
              /\ broken' = (IF v \in applied THEN broken \cup LostWith(v)
                                             ELSE broken) \ {v}
              /\ runner' = [runner EXCEPT ![r].todo = @ \ {v}]
              /\ undone' = TRUE
              /\ asked' = 0
         ELSE /\ runner' = [runner EXCEPT ![r] = Idle]
              /\ UNCHANGED <<applied, broken, undone, asked>>
  /\ UNCHANGED <<serving, calm>>

-----------------------------------------------------------------------------
\* The end of a command, and of the process in the middle of one.

Finish(r) ==
  /\ runner[r].cmd # "idle"
  /\ runner[r].todo = {}
  /\ runner' = [runner EXCEPT ![r] = Idle]
  /\ UNCHANGED <<applied, broken, serving, undone, calm, asked>>

\* A step under way is rolled back with the connection.
Crash(r) ==
  /\ runner[r].cmd # "idle"
  /\ runner' = [runner EXCEPT ![r] = Idle]
  /\ asked' = IF runner[r].cmd = "up" THEN 0 ELSE asked
  /\ UNCHANGED <<applied, broken, serving, undone, calm>>

-----------------------------------------------------------------------------
\* "serve"

\* migrate.Current: the versions this release carries that are not recorded.
Pending_ByNewest(K) == IF \E v \in applied : v >= K THEN {} ELSE {K}
Pending(K) == (1 .. K) \ applied

Serve(K) ==
  /\ serving = 0
  /\ Pending(K) = {}
  /\ serving' = K
  /\ undone' = FALSE
  /\ UNCHANGED <<applied, broken, runner, calm, asked>>

Stop ==
  /\ serving # 0
  /\ serving' = 0
  /\ undone' = FALSE
  /\ UNCHANGED <<applied, broken, runner, calm, asked>>

Migrate(r) ==
  \/ \E K \in Releases : UpStart(r, K) \/ \E n \in 0 .. 2 : DownStart(r, K, n)
  \/ UpStep(r) \/ DownStep(r) \/ Finish(r) \/ Crash(r)

Next == (\E r \in Runners : Migrate(r)) \/ (\E K \in Releases : Serve(K)) \/ Stop

Spec == Init /\ [][Next]_vars

-----------------------------------------------------------------------------
\* Properties.

\* "A failure leaves the schema at the last good version": unless an up and a
\* down overlapped, or an older binary's down passed over newer steps, the
\* schema is some version's, whole, whatever runners raced or died.
SchemaIsWhole ==
  calm => /\ \E k \in 0 .. Latest : applied = 1 .. k
          /\ broken = {}

\* Racing ups do not all give up: each stops at the first step another took
\* before it, but the one that is ahead goes on.  When none runs any more, and
\* none died and nothing was rolled back meanwhile, the schema is where all of
\* them were to bring it.
SomebodyFinishes == Running("up") = {} => 1 .. asked \subseteq applied

\* "Refuse to start on a database that has not been migrated": until a step is
\* rolled back under it, a server has every step of its release, also where an
\* older binary's down left a gap among the applied versions.
ServesOnWholeSchema ==
  serving # 0 /\ ~undone => 1 .. serving \subseteq applied
=============================================================================
