----------------------------- MODULE RowReplace -----------------------------
(***************************************************************************)
(* "Replace, not merge": the transactions that replace a whole list of     *)
(* rows by deleting the old ones and inserting the new.  Four repository   *)
(* methods have this shape: UpsertCycle (a week's days), SetKantorRates    *)
(* and SetTierPrices (a price ladder), SetUserRoles (an account's roles).  *)
(* They differ in what they lock first, in what a duplicate key does and   *)
(* in which lists they may be asked for: each is a regime.                 *)
(*                                                                         *)
(* The database is PostgreSQL at READ COMMITTED, modelled from how the     *)
(* repositories use it: a DELETE acts on the rows committed when the       *)
(* statement began, waits for rows another transaction is deleting, and    *)
(* never sees rows committed after it began; an INSERT meets the unique    *)
(* index, which does see them.  The content_revision row that the trigger  *)
(* on the menu and price tables also locks is left out here: it only takes *)
(* interleavings away (SiteConfigCache has it).                            *)
(***************************************************************************)
EXTENDS Naturals

CONSTANTS
  Writers,      \* requests that replace the same list, each once
  Keys,         \* the unique key of a row within the list
  Regimes,      \* the kinds of replacement there are
  Seed,         \* who inserted the rows that were there first
  NoRow         \* no row under this key

\* lock: the transaction locks the parent row before the DELETE.  skip: ON CONFLICT
\* DO NOTHING, instead of an error.  lists: what a writer may ask for.
ASSUME ReplaceAssumption ==
  /\ Regimes \subseteq [lock : BOOLEAN, skip : BOOLEAN, lists : SUBSET (SUBSET Keys)]
  /\ Seed \notin Writers /\ NoRow \notin Writers /\ Seed # NoRow

VARIABLES
  regime,    \* which repository method the writers are running
  rows,      \* the committed rows: key -> who inserted it, or NoRow
  pc,        \* writer -> the statement it runs next
  want,      \* writer -> the list it was asked for
  todo,      \* writer -> the keys of its list it has still to insert
  seen,      \* writer -> rows as its DELETE found them when it began
  gone,      \* writer -> the keys it has deleted, not yet committed
  added,     \* writer -> the keys it has inserted, not yet committed
  settled    \* history: who committed last, and the list it was asked for

vars == <<regime, rows, pc, want, todo, seen, gone, added, settled>>

Present(f) == {k \in Keys : f[k] # NoRow}

Init ==
  /\ regime \in Regimes
  /\ settled \in [by : {Seed}, list : regime.lists]
  /\ rows = [k \in Keys |-> IF k \in settled.list THEN Seed ELSE NoRow]
  /\ pc = [w \in Writers |-> "start"]
  /\ want = [w \in Writers |-> {}]
  /\ todo = [w \in Writers |-> {}]
  /\ seen = [w \in Writers |-> [k \in Keys |-> NoRow]]
  /\ gone = [w \in Writers |-> {}]
  /\ added = [w \in Writers |-> {}]

\* Nobody else holds the parent row.
ParentFree_Unlocked(w) == w \in Writers
ParentFree(w) == regime.lock => \A v \in Writers \ {w} : pc[v] \in {"start", "done"}

\* BEGIN; for a week also the upsert of its menu_cycles row, whose lock is kept
\* until the transaction ends.
Begin(w) ==
  /\ pc[w] = "start"
  /\ ParentFree(w)
  /\ \E l \in regime.lists :
       /\ want' = [want EXCEPT ![w] = l]
       /\ todo' = [todo EXCEPT ![w] = l]
  /\ pc' = [pc EXCEPT ![w] = "delete"]
  /\ UNCHANGED <<regime, rows, seen, gone, added, settled>>

\* The DELETE takes its snapshot...
StartDelete(w) ==
  /\ pc[w] = "delete"
  /\ seen' = [seen EXCEPT ![w] = rows]
  /\ pc' = [pc EXCEPT ![w] = "deleting"]
  /\ UNCHANGED <<regime, rows, want, todo, gone, added, settled>>

\* ...waits until nobody else is deleting what it found...
Waits(w) == \E v \in Writers \ {w} : gone[v] \intersect Present(seen[w]) # {}

\* ...and deletes the rows that are still there.  A row committed since under
\* the same key is another row, and stays.
FoundAndThere_Merging(w) == {k \in Present(seen[w]) \intersect want[w] : rows[k] = seen[w][k]}
FoundAndThere(w) == {k \in Present(seen[w]) : rows[k] = seen[w][k]}

FinishDelete(w) ==
  /\ pc[w] = "deleting"
  /\ ~Waits(w)
  /\ gone' = [gone EXCEPT ![w] = FoundAndThere(w)]
  /\ pc' = [pc EXCEPT ![w] = "insert"]
  /\ UNCHANGED <<regime, rows, want, todo, seen, added, settled>>

\* The unique index: an INSERT waits for whoever is writing the same key, and
\* then meets the committed row unless this transaction deleted it.
KeyBusy(w, k) == \E v \in Writers \ {w} : k \in gone[v] \union added[v]
Duplicate(w, k) == rows[k] # NoRow /\ k \notin gone[w]

Insert(w) ==
  /\ pc[w] = "insert"
  /\ \E k \in todo[w] :
       /\ ~KeyBusy(w, k)
       /\ ~Duplicate(w, k)
       /\ added' = [added EXCEPT ![w] = @ \union {k}]
       /\ todo' = [todo EXCEPT ![w] = @ \ {k}]
  /\ UNCHANGED <<regime, rows, pc, want, seen, gone, settled>>

SkipDuplicate(w) ==
  /\ regime.skip
  /\ pc[w] = "insert"
  /\ \E k \in todo[w] :
       /\ ~KeyBusy(w, k)
       /\ Duplicate(w, k)
       /\ todo' = [todo EXCEPT ![w] = @ \ {k}]
  /\ UNCHANGED <<regime, rows, pc, want, seen, gone, added, settled>>

\* A transaction that ends lets go of the rows it was writing.
Released_Kept(f, w) == [f EXCEPT ![w] = @]
Released(f, w) == [f EXCEPT ![w] = {}]

Commit(w) ==
  /\ pc[w] = "insert"
  /\ todo[w] = {}
  /\ rows' = [k \in Keys |->
       IF k \in added[w] THEN w ELSE IF k \in gone[w] THEN NoRow ELSE rows[k]]
  /\ settled' = [by |-> w, list |-> want[w]]
  /\ pc' = [pc EXCEPT ![w] = "done"]
  /\ gone' = Released(gone, w)
  /\ added' = Released(added, w)
  /\ UNCHANGED <<regime, want, todo, seen>>

\* A duplicate key that is an error, a deadlock victim, a lost connection: the
\* request ends with an error and none of its statements happened.
Rollback(w) ==
  /\ pc[w] \notin {"start", "done"}
  /\ pc' = [pc EXCEPT ![w] = "done"]
  /\ gone' = Released(gone, w)
  /\ added' = Released(added, w)
  /\ UNCHANGED <<regime, rows, want, todo, seen, settled>>

Next ==
  \E w \in Writers :
    \/ Begin(w)
    \/ StartDelete(w)
    \/ FinishDelete(w)
    \/ Insert(w)
    \/ SkipDuplicate(w)
    \/ Commit(w)
    \/ Rollback(w)

Spec == Init /\ [][Next]_vars

----------------------------------------------------------------------------
(* Properties. *)

\* Every variable has its type; a transaction holds row versions only while it
\* is past its DELETE.
TypeOK ==
  /\ regime \in Regimes
  /\ rows \in [Keys -> Writers \union {Seed, NoRow}]
  /\ pc \in [Writers -> {"start", "delete", "deleting", "insert", "done"}]
  /\ want \in [Writers -> SUBSET Keys]
  /\ todo \in [Writers -> SUBSET Keys]
  /\ seen \in [Writers -> [Keys -> Writers \union {Seed, NoRow}]]
  /\ gone \in [Writers -> SUBSET Keys]
  /\ added \in [Writers -> SUBSET Keys]
  /\ settled \in [by : Writers \union {Seed}, list : regime.lists]
  /\ \A w \in Writers : pc[w] # "insert" => gone[w] = {} /\ added[w] = {}

\* "Replace, not merge" (write_repo.go): the stored list is exactly the list of
\* the request that committed last, whatever ran beside it.
ReplacedExactly == Present(rows) = settled.list

\* A key that every list has, where a duplicate is an error.
Contended(k) == k \in Keys /\ ~regime.skip /\ \A l \in regime.lists : k \in l

\* Either thing makes it a replacement: the parent row locked first (a week), or
\* a key no list is without (a ladder's lowest band), on which all but one fail.
ReplacesWhenGuarded ==
  regime.lock \/ (\E k \in Keys : Contended(k)) => ReplacedExactly

\* Even where neither holds: a row the last replace was shown is gone.  Only rows
\* committed while it ran can be left beside its own.
ShownIsReplaced ==
  settled.by # Seed =>
    \A k \in Present(seen[settled.by]) : rows[k] # seen[settled.by][k]

----------------------------------------------------------------------------
(* Why that is enough. *)

Inside(w) == pc[w] \in {"delete", "deleting", "insert"}

\* Where duplicates are not skipped, what is left to insert and what has been
\* inserted are together what was asked for.
AskedInv ==
  \A w \in Writers : Inside(w) =>
    /\ want[w] \in regime.lists
    /\ ~regime.skip => todo[w] \union added[w] = want[w]

\* With the lock there is one transaction at a time; what it was shown is what
\* is there, so that its DELETE takes everything and its INSERTs meet nothing.
LockedInv ==
  /\ \A v, w \in Writers : Inside(v) /\ Inside(w) => v = w
  /\ \A w \in Writers :
       /\ Inside(w) => todo[w] \union added[w] = want[w]
       /\ pc[w] = "deleting" => seen[w] = rows
       /\ pc[w] = "insert" => gone[w] = Present(rows)

\* With a contended key k there may be several, but only one at a time deletes
\* row k, it was shown what is there now, and only it can commit: every commit
\* leaves a row k nobody has been shown yet.
ContendedInv(k) ==
  /\ rows[k] = settled.by
  /\ \A w \in Writers : pc[w] # "done" => settled.by # w
  /\ \A w \in Writers : pc[w] = "deleting" =>
       /\ seen[w][k] # NoRow
       /\ \A v \in Writers : seen[w][k] = v => pc[v] = "done"
       /\ seen[w][k] = rows[k] => seen[w] = rows
  /\ \A w \in Writers :
       /\ k \in gone[w] => gone[w] = Present(rows)
       /\ k \in added[w] => k \in gone[w]
  /\ \A v, w \in Writers : k \in gone[v] /\ k \in gone[w] => v = w

IInv ==
  /\ TypeOK
  /\ AskedInv
  /\ regime.lock => LockedInv
  /\ \A k \in Keys : Contended(k) => ContendedInv(k)
  /\ ReplacesWhenGuarded
=============================================================================
