------------------------- MODULE RowReplace_proofs -------------------------
(* Proofs about RowReplace, for every number of writers, keys and methods:  *)
(* the parent row locked first, or a key that every list has, makes         *)
(* DELETE-then-INSERT a replacement.                                        *)
EXTENDS RowReplace, TLAPS

USE ReplaceAssumption

Typed == TypeOK /\ AskedInv

\* Every step keeps the types, whatever is locked.
LEMMA StepType ==
  ASSUME Typed, [Next]_vars
  PROVE  TypeOK'
<1> USE DEF TypeOK, Typed
<1>1. ASSUME NEW w \in Writers, Begin(w) PROVE TypeOK'
  BY <1>1 DEF Begin
<1>2. ASSUME NEW w \in Writers, StartDelete(w) PROVE TypeOK'
  BY <1>2 DEF StartDelete
<1>3. ASSUME NEW w \in Writers, FinishDelete(w) PROVE TypeOK'
  <2>1. FoundAndThere(w) \in SUBSET Keys
    BY DEF FoundAndThere, Present
  <2> QED
    BY <1>3, <2>1 DEF FinishDelete
<1>4. ASSUME NEW w \in Writers, Insert(w) PROVE TypeOK'
  BY <1>4 DEF Insert
<1>5. ASSUME NEW w \in Writers, SkipDuplicate(w) PROVE TypeOK'
  BY <1>5 DEF SkipDuplicate
<1>6. ASSUME NEW w \in Writers, Commit(w) PROVE TypeOK'
  <2>1. want[w] \in regime.lists
    BY <1>6 DEF Commit, Inside, AskedInv
  <2>2. settled' \in [by : Writers \union {Seed}, list : regime.lists]
    BY <1>6, <2>1 DEF Commit
  <2>3. rows' \in [Keys -> Writers \union {Seed, NoRow}]
    BY <1>6 DEF Commit
  <2> QED
    BY <1>6, <2>2, <2>3 DEF Commit, Released
<1>7. ASSUME NEW w \in Writers, Rollback(w) PROVE TypeOK'
  BY <1>7 DEF Rollback, Released
<1>8. CASE UNCHANGED vars
  BY <1>8 DEF vars
<1> QED
  BY <1>1, <1>2, <1>3, <1>4, <1>5, <1>6, <1>7, <1>8 DEF Next

\* Begin sets what was asked for; an INSERT moves a key from todo to added.
LEMMA StepAsked ==
  ASSUME Typed, [Next]_vars
  PROVE  AskedInv'
<1> USE DEF Typed
<1>1. ASSUME NEW w \in Writers, Begin(w) PROVE AskedInv'
  <2>1. want'[w] \in regime.lists /\ todo'[w] = want'[w] /\ added'[w] = {}
    BY <1>1 DEF Begin, TypeOK
  <2>2. /\ regime' = regime /\ added' = added
        /\ \A v \in Writers \ {w} :
             pc'[v] = pc[v] /\ want'[v] = want[v] /\ todo'[v] = todo[v]
    BY <1>1 DEF Begin, TypeOK
  <2> QED
    BY <2>1, <2>2 DEF AskedInv, Inside
<1>2. ASSUME NEW w \in Writers, StartDelete(w) \/ FinishDelete(w) PROVE AskedInv'
  BY <1>2 DEF StartDelete, FinishDelete, AskedInv, Inside, TypeOK
<1>3. ASSUME NEW w \in Writers, Insert(w) PROVE AskedInv'
  <2>1. todo'[w] \union added'[w] = todo[w] \union added[w]
    BY <1>3 DEF Insert, TypeOK
  <2>2. \A v \in Writers \ {w} : todo'[v] = todo[v] /\ added'[v] = added[v]
    BY <1>3 DEF Insert, TypeOK
  <2> QED
    BY <1>3, <2>1, <2>2 DEF Insert, AskedInv, Inside
<1>4. ASSUME NEW w \in Writers, SkipDuplicate(w) PROVE AskedInv'
  BY <1>4 DEF SkipDuplicate, AskedInv, Inside
<1>5. ASSUME NEW w \in Writers, Commit(w) \/ Rollback(w) PROVE AskedInv'
  <2>1. ~Inside(w)' /\ UNCHANGED <<regime, want, todo>>
    BY <1>5 DEF Commit, Rollback, Inside, TypeOK
  <2>2. \A v \in Writers \ {w} : pc'[v] = pc[v] /\ added'[v] = added[v]
    BY <1>5 DEF Commit, Rollback, Released, TypeOK
  <2> QED
    BY <2>1, <2>2 DEF AskedInv, Inside
<1>6. CASE UNCHANGED vars
  BY <1>6 DEF vars, AskedInv, Inside
<1> QED
  BY <1>1, <1>2, <1>3, <1>4, <1>5, <1>6 DEF Next

\* The initial rows are a list, and no transaction is open.
LEMMA InitTyped == Init => Typed
<1>1. Init => TypeOK
  BY DEF Init, TypeOK
<1>2. Init => AskedInv
  BY DEF Init, AskedInv, Inside
<1> QED
  BY <1>1, <1>2 DEF Typed

\* Every variable has its type in every reachable state, locked or not.
THEOREM TypeCorrect == Spec => []TypeOK
<1>1. Typed /\ [Next]_vars => Typed'
  BY StepType, StepAsked DEF Typed
<1>2. Typed => TypeOK
  BY DEF Typed
<1> QED
  BY InitTyped, <1>1, <1>2, PTL DEF Spec

\* What a commit that found every row it deleted, and everything it deleted was
\* everything there was, leaves behind.
LEMMA WholeCommit ==
  ASSUME TypeOK, NEW w \in Writers, Commit(w),
         gone[w] = Present(rows), todo[w] \union added[w] = want[w]
  PROVE  ReplacedExactly'
<1>1. \A k \in Keys : rows'[k] = IF k \in added[w] THEN w
                                 ELSE IF k \in gone[w] THEN NoRow ELSE rows[k]
  BY DEF Commit
<1>2. added[w] \subseteq Keys /\ added[w] = want[w]
  BY DEF Commit, TypeOK
<1>3. \A k \in Keys : rows'[k] # NoRow <=> k \in added[w]
  BY <1>1 DEF Present
<1>4. settled'.list = want[w]
  BY DEF Commit
<1> QED
  BY <1>2, <1>3, <1>4 DEF ReplacedExactly, Present

\* Nobody but a committing writer touches the rows.
LEMMA OnlyCommitReplaces ==
  ASSUME ReplacedExactly, NEW w \in Writers,
         \/ Begin(w) \/ StartDelete(w) \/ FinishDelete(w) \/ Insert(w)
         \/ SkipDuplicate(w) \/ Rollback(w) \/ UNCHANGED vars
  PROVE  ReplacedExactly'
BY DEF Begin, StartDelete, FinishDelete, Insert, SkipDuplicate, Rollback, vars,
       ReplacedExactly, Present

----------------------------------------------------------------------------
(* The parent row locked first. *)

Good == Typed /\ LockedInv

\* With the lock, each step keeps one transaction at a time that sees what is there.
LEMMA StepLocked ==
  ASSUME regime.lock, Good, [Next]_vars
  PROVE  LockedInv'
<1> USE DEF Good, Typed
<1>1. ASSUME NEW w \in Writers, Begin(w) PROVE LockedInv'
  <2>1. \A v \in Writers \ {w} : ~Inside(v) /\ ~Inside(v)'
    BY <1>1 DEF Begin, ParentFree, Inside, TypeOK
  <2>2. todo'[w] = want'[w] /\ added'[w] = {} /\ pc'[w] = "delete"
    BY <1>1 DEF Begin, TypeOK
  <2> QED
    BY <2>1, <2>2 DEF LockedInv, Inside
<1>2. ASSUME NEW w \in Writers, StartDelete(w) PROVE LockedInv'
  <2>1. \A v \in Writers \ {w} : ~Inside(v) /\ ~Inside(v)'
    BY <1>2 DEF StartDelete, LockedInv, Inside, TypeOK
  <2>2. /\ Inside(w) /\ pc'[w] = "deleting" /\ seen'[w] = rows
        /\ UNCHANGED <<rows, want, todo, gone, added, settled>>
    BY <1>2 DEF StartDelete, Inside, TypeOK
  <2> QED
    BY <2>1, <2>2 DEF LockedInv, Present, Inside
<1>3. ASSUME NEW w \in Writers, FinishDelete(w) PROVE LockedInv'
  <2>1. \A v \in Writers \ {w} : ~Inside(v) /\ ~Inside(v)'
    BY <1>3 DEF FinishDelete, LockedInv, Inside, TypeOK
  <2>2. seen[w] = rows
    BY <1>3 DEF FinishDelete, LockedInv
  <2>3. FoundAndThere(w) = Present(rows)
    BY <2>2 DEF FoundAndThere, Present
  <2>4. /\ Inside(w) /\ pc'[w] = "insert" /\ gone'[w] = Present(rows)
        /\ UNCHANGED <<rows, want, todo, seen, added, settled>>
    BY <1>3, <2>3 DEF FinishDelete, Inside, TypeOK
  <2> QED
    BY <2>1, <2>4 DEF LockedInv, Present, Inside
<1>4. ASSUME NEW w \in Writers, Insert(w) PROVE LockedInv'
  <2>1. todo'[w] \union added'[w] = todo[w] \union added[w]
    BY <1>4 DEF Insert, TypeOK
  <2>2. \A v \in Writers \ {w} : todo'[v] = todo[v] /\ added'[v] = added[v]
    BY <1>4 DEF Insert, TypeOK
  <2>3. UNCHANGED <<rows, pc, want, seen, gone, settled>>
    BY <1>4 DEF Insert
  <2> QED
    BY <2>1, <2>2, <2>3 DEF LockedInv, Present, Inside
<1>5. ASSUME NEW w \in Writers, SkipDuplicate(w) PROVE FALSE
  <2>1. gone[w] = Present(rows) /\ todo[w] \subseteq Keys
    BY <1>5 DEF SkipDuplicate, LockedInv, TypeOK
  <2> QED
    BY <1>5, <2>1 DEF SkipDuplicate, Duplicate, Present
<1>6. ASSUME NEW w \in Writers, Commit(w) \/ Rollback(w) PROVE LockedInv'
  <2>1. Inside(w) /\ pc' = [pc EXCEPT ![w] = "done"]
    BY <1>6 DEF Commit, Rollback, Inside, TypeOK
  <2>2. \A v \in Writers \ {w} : ~Inside(v)
    BY <2>1 DEF LockedInv
  <2>3. \A v \in Writers : ~Inside(v)'
    BY <2>1, <2>2 DEF Inside, TypeOK
  <2> QED
    BY <2>3 DEF LockedInv, Inside
<1>7. CASE UNCHANGED vars
  BY <1>7 DEF vars, LockedInv, Present, Inside
<1> QED
  BY <1>1, <1>2, <1>3, <1>4, <1>5, <1>6, <1>7 DEF Next

----------------------------------------------------------------------------
(* A key that every list has, where a duplicate is an error. *)

\* A contended key stays one: the regime never changes.
LEMMA RegimeKept == [Next]_vars => regime' = regime
BY DEF Next, vars, Begin, StartDelete, FinishDelete, Insert, SkipDuplicate,
       Commit, Rollback

\* Whoever commits deleted the contended row, hence everything, and inserted all.
LEMMA ContendedCommit ==
  ASSUME Typed, NEW k, Contended(k), ContendedInv(k), NEW w \in Writers, Commit(w)
  PROVE  /\ k \in added[w] /\ gone[w] = Present(rows)
         /\ todo[w] \union added[w] = want[w]
<1>1. want[w] \in regime.lists /\ todo[w] \union added[w] = want[w] /\ todo[w] = {}
  BY DEF Commit, Typed, AskedInv, Contended, Inside
<1>2. k \in added[w]
  BY <1>1 DEF Contended
<1> QED
  BY <1>1, <1>2 DEF ContendedInv

\* Each step keeps the contended row to one writer at a time.
LEMMA StepContended ==
  ASSUME Typed, [Next]_vars, NEW k, Contended(k), ContendedInv(k)
  PROVE  ContendedInv(k)'
<1> USE DEF Typed
<1>0. k \in Keys /\ rows[k] # NoRow
  <2>1. settled.by \in Writers \union {Seed} /\ rows[k] = settled.by
    BY DEF TypeOK, ContendedInv
  <2> QED
    BY <2>1 DEF Contended
<1>1. ASSUME NEW w \in Writers, Begin(w) PROVE ContendedInv(k)'
  BY <1>1 DEF Begin, ContendedInv, Present, TypeOK
<1>2. ASSUME NEW w \in Writers, StartDelete(w) PROVE ContendedInv(k)'
  <2>1. UNCHANGED <<rows, gone, added, settled>> /\ pc[w] = "delete"
    BY <1>2 DEF StartDelete
  <2>2. pc' = [pc EXCEPT ![w] = "deleting"] /\ seen' = [seen EXCEPT ![w] = rows]
    BY <1>2 DEF StartDelete
  <2>3. \A v \in Writers : rows[k] = v => pc[v] = "done"
    BY DEF ContendedInv
  <2>4. \A v \in Writers : /\ pc[v] = "done" => pc'[v] = "done"
                           /\ pc'[v] # "done" => pc[v] # "done"
    BY <2>1, <2>2 DEF TypeOK
  <2>5. ASSUME NEW v \in Writers, pc'[v] = "deleting"
        PROVE  /\ seen'[v][k] # NoRow
               /\ \A u \in Writers : seen'[v][k] = u => pc'[u] = "done"
               /\ seen'[v][k] = rows[k] => seen'[v] = rows
    <3>1. CASE v = w
      BY <1>0, <2>2, <2>3, <2>4, <3>1 DEF TypeOK
    <3>2. CASE v # w
      <4>1. pc[v] = "deleting" /\ seen'[v] = seen[v]
        BY <2>2, <2>5, <3>2 DEF TypeOK
      <4> QED
        BY <2>4, <4>1 DEF ContendedInv
    <3> QED
      BY <3>1, <3>2
  <2> QED
    BY <2>1, <2>4, <2>5 DEF ContendedInv, Present
<1>3. ASSUME NEW w \in Writers, FinishDelete(w) PROVE ContendedInv(k)'
  <2>1. /\ UNCHANGED <<rows, seen, added, settled>> /\ pc[w] = "deleting" /\ ~Waits(w)
        /\ gone' = [gone EXCEPT ![w] = FoundAndThere(w)]
        /\ pc' = [pc EXCEPT ![w] = "insert"]
    BY <1>3 DEF FinishDelete
  <2>2. \A v \in Writers \ {w} : k \notin gone[v]
    BY <1>0, <2>1 DEF Waits, Present, ContendedInv
  <2>3. gone'[w] = FoundAndThere(w) /\ \A v \in Writers \ {w} : gone'[v] = gone[v]
    BY <2>1 DEF TypeOK
  <2>4. k \in FoundAndThere(w) => FoundAndThere(w) = Present(rows)
    <3>1. k \in FoundAndThere(w) => seen[w] = rows
      BY <2>1 DEF FoundAndThere, ContendedInv
    <3> QED
      BY <3>1 DEF FoundAndThere, Present
  <2>5. added[w] = {}
    BY <2>1 DEF TypeOK
  <2>6. \A v \in Writers : /\ pc[v] = "done" <=> pc'[v] = "done"
                           /\ pc'[v] = "deleting" => pc[v] = "deleting"
    BY <2>1 DEF TypeOK
  <2>7. \A v \in Writers : /\ k \in gone'[v] => gone'[v] = Present(rows)
                           /\ k \in added[v] => k \in gone'[v]
    BY <2>3, <2>4, <2>5 DEF ContendedInv
  <2>8. \A u, v \in Writers : k \in gone'[u] /\ k \in gone'[v] => u = v
    BY <2>2, <2>3
  <2> QED
    BY <2>1, <2>6, <2>7, <2>8 DEF ContendedInv, Present
<1>4. ASSUME NEW w \in Writers, Insert(w) PROVE ContendedInv(k)'
  <2>1. UNCHANGED <<rows, pc, seen, gone, settled>>
    BY <1>4 DEF Insert
  <2>2. \A v \in Writers : k \in added'[v] => k \in gone[v]
    <3>1. PICK j \in todo[w] : ~Duplicate(w, j) /\ added' = [added EXCEPT ![w] = @ \union {j}]
      BY <1>4 DEF Insert
    <3>2. j = k => k \in gone[w]
      BY <1>0, <3>1 DEF Duplicate
    <3> QED
      BY <3>1, <3>2 DEF ContendedInv, TypeOK
  <2> QED
    BY <2>1, <2>2 DEF ContendedInv, Present
<1>5. ASSUME NEW w \in Writers, SkipDuplicate(w) PROVE ContendedInv(k)'
  BY <1>5 DEF SkipDuplicate, Contended
<1>6. ASSUME NEW w \in Writers, Commit(w) PROVE ContendedInv(k)'
  <2>1. k \in added[w] /\ k \in gone[w]
    BY <1>6, ContendedCommit DEF ContendedInv
  <2>2. /\ rows'[k] = w /\ settled'.by = w /\ seen' = seen
        /\ pc' = [pc EXCEPT ![w] = "done"] /\ pc[w] = "insert"
    BY <1>0, <1>6, <2>1 DEF Commit
  <2>3. /\ gone'[w] = {} /\ added'[w] = {}
        /\ \A v \in Writers \ {w} : gone'[v] = gone[v] /\ added'[v] = added[v]
    BY <1>6 DEF Commit, Released, TypeOK
  <2>4. \A v \in Writers \ {w} : k \notin gone[v] /\ k \notin added[v]
    BY <2>1 DEF ContendedInv
  <2>5. \A v \in Writers : pc'[v] # "done" => v # w
    BY <2>2 DEF TypeOK
  <2>6. ASSUME NEW v \in Writers, pc'[v] = "deleting"
        PROVE  /\ seen'[v][k] # NoRow
               /\ \A u \in Writers : seen'[v][k] = u => pc'[u] = "done"
               /\ seen'[v][k] # rows'[k]
    <3>1. pc[v] = "deleting"
      BY <2>2, <2>6 DEF TypeOK
    <3>2. seen[v][k] # w
      BY <2>2, <3>1 DEF ContendedInv
    <3> QED
      <4>1. /\ seen[v][k] # NoRow
            /\ \A u \in Writers : seen[v][k] = u => pc[u] = "done"
        BY <3>1 DEF ContendedInv
      <4>2. \A u \in Writers : pc[u] = "done" => pc'[u] = "done"
        BY <2>2 DEF TypeOK
      <4> QED
        BY <2>2, <3>2, <4>1, <4>2
  <2> QED
    BY <2>2, <2>3, <2>4, <2>5, <2>6 DEF ContendedInv
<1>7. ASSUME NEW w \in Writers, Rollback(w) PROVE ContendedInv(k)'
  <2>1. UNCHANGED <<rows, seen, settled>> /\ pc' = [pc EXCEPT ![w] = "done"]
    BY <1>7 DEF Rollback
  <2>2. /\ gone'[w] = {} /\ added'[w] = {}
        /\ \A v \in Writers \ {w} : gone'[v] = gone[v] /\ added'[v] = added[v]
    BY <1>7 DEF Rollback, Released, TypeOK
  <2>3. \A v \in Writers : /\ pc[v] = "done" => pc'[v] = "done"
                           /\ pc'[v] = "deleting" => pc[v] = "deleting"
    BY <2>1 DEF TypeOK
  <2> QED
    BY <2>1, <2>2, <2>3 DEF ContendedInv, Present
<1>8. CASE UNCHANGED vars
  BY <1>8 DEF vars, ContendedInv, Present
<1> QED
  BY <1>1, <1>2, <1>3, <1>4, <1>5, <1>6, <1>7, <1>8 DEF Next

----------------------------------------------------------------------------
(* Both together. *)

Guarded == regime.lock \/ \E k \in Keys : Contended(k)

\* Every step of a guarded regime keeps the stored list the last committed one.
LEMMA StepReplaced ==
  ASSUME IInv, [Next]_vars, Guarded
  PROVE  ReplacedExactly'
<1>0. ReplacedExactly /\ Typed
  BY DEF IInv, ReplacesWhenGuarded, Guarded, Typed
<1>1. ASSUME NEW w \in Writers, Commit(w) PROVE ReplacedExactly'
  <2>1. gone[w] = Present(rows) /\ todo[w] \union added[w] = want[w]
    <3>1. CASE regime.lock
      BY <1>1, <3>1 DEF IInv, LockedInv, Commit, Inside
    <3>2. ASSUME NEW k \in Keys, Contended(k)
          PROVE  gone[w] = Present(rows) /\ todo[w] \union added[w] = want[w]
      BY <1>0, <1>1, <3>2, ContendedCommit DEF IInv
    <3> QED
      BY <3>1, <3>2 DEF Guarded
  <2> QED
    BY <1>0, <1>1, <2>1, WholeCommit DEF Typed
<1>2. ASSUME NEW w \in Writers, ~Commit(w),
             \/ Begin(w) \/ StartDelete(w) \/ FinishDelete(w) \/ Insert(w)
             \/ SkipDuplicate(w) \/ Rollback(w)
      PROVE  ReplacedExactly'
  BY <1>0, <1>2, OnlyCommitReplaces
<1>3. CASE UNCHANGED vars
  BY <1>0, <1>3 DEF vars, ReplacedExactly, Present
<1> QED
  BY <1>1, <1>2, <1>3 DEF Next

\* The invariant holds at the start.
LEMMA InitIInv == Init => IInv
<1> SUFFICES ASSUME Init PROVE IInv
  OBVIOUS
<1>1. Typed
  BY InitTyped
<1>2. LockedInv
  BY DEF Init, LockedInv, Inside
<1>3. ReplacedExactly
  BY DEF Init, ReplacedExactly, Present
<1>4. ASSUME NEW k \in Keys, Contended(k) PROVE ContendedInv(k)
  <2>1. settled.by = Seed /\ k \in settled.list
    BY <1>4 DEF Init, Contended
  <2>2. rows[k] = Seed
    BY <2>1 DEF Init
  <2> QED
    BY <2>1, <2>2 DEF Init, ContendedInv
<1> QED
  BY <1>1, <1>2, <1>3, <1>4 DEF IInv, Typed, ReplacesWhenGuarded

\* The invariant is inductive.
LEMMA StepIInv == IInv /\ [Next]_vars => IInv'
<1> SUFFICES ASSUME IInv, [Next]_vars PROVE IInv'
  OBVIOUS
<1>1. Typed /\ Typed'
  BY StepType, StepAsked DEF IInv, Typed
<1>2. regime' = regime
  BY RegimeKept
<1>3. regime'.lock => LockedInv'
  BY <1>1, <1>2, StepLocked DEF IInv, Good
<1>4. ASSUME NEW k \in Keys, Contended(k)' PROVE ContendedInv(k)'
  <2>1. Contended(k)
    BY <1>2, <1>4 DEF Contended
  <2> QED
    BY <1>1, <2>1, StepContended DEF IInv
<1>5. ReplacesWhenGuarded'
  <2>1. Guarded' => Guarded
    BY <1>2 DEF Guarded, Contended
  <2> QED
    BY <2>1, StepReplaced DEF ReplacesWhenGuarded, Guarded
<1> QED
  BY <1>1, <1>3, <1>4, <1>5 DEF IInv, Typed

\* A week (its row upserted first) and a Kantor ladder (whose lowest band every
\* request has, under a unique index) are replaced and never merged, for any
\* number of concurrent editors.
THEOREM Replacement == Spec => []ReplacesWhenGuarded
<1>1. IInv => ReplacesWhenGuarded
  BY DEF IInv
<1> QED
  BY <1>1, InitIInv, StepIInv, PTL DEF Spec

----------------------------------------------------------------------------
(* Rows that were shown. *)

\* A writer's rows are there, and shown to others, only once it has committed,
\* and a writer commits once: a row that is gone never comes back.
OnceOnly ==
  \A v \in Writers :
    /\ settled.by = v => pc[v] = "done"
    /\ \A k \in Keys : rows[k] = v => pc[v] = "done"
    /\ \A w \in Writers, k \in Keys : seen[w][k] = v => pc[v] = "done"

\* What a DELETE was shown and did not take had gone before.
ShownInv ==
  \A w \in Writers : pc[w] = "insert" =>
    \A k \in Present(seen[w]) \ gone[w] : rows[k] # seen[w][k]

\* Statements that commit nothing leave rows as they are.
LEMMA StepOnceOnly ==
  ASSUME TypeOK, OnceOnly, [Next]_vars
  PROVE  OnceOnly'
<1> USE DEF TypeOK
<1>1. ASSUME NEW w \in Writers, Begin(w) \/ FinishDelete(w) \/ Insert(w) \/ SkipDuplicate(w)
                                \/ Rollback(w)
      PROVE  OnceOnly'
  <2>1. UNCHANGED <<rows, seen, settled>> /\ \A v \in Writers : pc[v] = "done" => pc'[v] = "done"
    BY <1>1 DEF Begin, FinishDelete, Insert, SkipDuplicate, Rollback
  <2> QED
    BY <2>1 DEF OnceOnly
<1>2. ASSUME NEW w \in Writers, StartDelete(w) PROVE OnceOnly'
  <2>1. rows' = rows /\ settled' = settled
        /\ seen'[w] = rows /\ \A u \in Writers : u # w => seen'[u] = seen[u]
    BY <1>2 DEF StartDelete
  <2>2. \A v \in Writers : pc[v] = "done" => pc'[v] = "done"
    BY <1>2 DEF StartDelete
  <2>3. ASSUME NEW u \in Writers, NEW v \in Writers, NEW k \in Keys, seen'[u][k] = v
        PROVE  pc[v] = "done"
    <3>1. CASE u = w
      BY <2>1, <2>3, <3>1 DEF OnceOnly
    <3>2. CASE u # w
      BY <2>1, <2>3, <3>2 DEF OnceOnly
    <3> QED BY <3>1, <3>2
  <2> QED
    BY <2>1, <2>2, <2>3 DEF OnceOnly
<1>3. ASSUME NEW w \in Writers, Commit(w) PROVE OnceOnly'
  <2>1. seen' = seen /\ settled'.by = w /\ \A k \in Keys : rows'[k] \in {w, NoRow, rows[k]}
    BY <1>3 DEF Commit
  <2>2. pc'[w] = "done" /\ \A v \in Writers : pc[v] = "done" => pc'[v] = "done"
    BY <1>3 DEF Commit
  <2>3. ASSUME NEW v \in Writers, NEW k \in Keys, rows'[k] = v PROVE pc'[v] = "done"
    <3>1. v = w \/ rows[k] = v
      BY <2>1, <2>3
    <3> QED
      BY <2>2, <3>1 DEF OnceOnly
  <2>4. ASSUME NEW v \in Writers, NEW u \in Writers, NEW k \in Keys, seen'[u][k] = v
        PROVE  pc'[v] = "done"
    BY <2>1, <2>2, <2>4 DEF OnceOnly
  <2> QED
    BY <2>1, <2>2, <2>3, <2>4, Zenon DEF OnceOnly
<1>4. CASE UNCHANGED vars
  BY <1>4 DEF vars, OnceOnly
<1> QED
  BY <1>1, <1>2, <1>3, <1>4 DEF Next

LEMMA StepShown ==
  ASSUME TypeOK, OnceOnly, ShownInv, ShownIsReplaced, [Next]_vars
  PROVE  ShownInv' /\ ShownIsReplaced'
<1> USE DEF TypeOK
<1>1. ASSUME NEW w \in Writers, Begin(w) \/ StartDelete(w) \/ FinishDelete(w)
      PROVE  ShownInv' /\ ShownIsReplaced'
  <2>1. rows' = rows /\ settled' = settled /\ pc[w] # "done"
        /\ \A v \in Writers \ {w} : pc'[v] = pc[v] /\ seen'[v] = seen[v] /\ gone'[v] = gone[v]
    BY <1>1 DEF Begin, StartDelete, FinishDelete
  <2>2. CASE FinishDelete(w)
    <3>1. seen' = seen /\ gone'[w] = FoundAndThere(w)
      BY <2>2 DEF FinishDelete
    <3>2. \A k \in Present(seen[w]) \ gone'[w] : rows[k] # seen[w][k]
      BY <3>1 DEF FoundAndThere
    <3>3. ShownInv'
      BY <2>1, <3>1, <3>2 DEF ShownInv, Present
    <3> QED
      BY <2>1, <3>1, <3>3 DEF ShownIsReplaced, Present
  <2>3. CASE Begin(w)
    <3>1. seen' = seen /\ gone' = gone /\ pc'[w] # "insert"
      BY <2>3 DEF Begin
    <3> QED
      BY <2>1, <3>1 DEF ShownInv, ShownIsReplaced, Present
  <2>4. CASE StartDelete(w)
    <3>1. pc'[w] # "insert" /\ gone' = gone
      BY <2>4 DEF StartDelete
    <3>2. settled.by # w
      BY <2>1 DEF OnceOnly
    <3>3. settled.by # Seed => seen'[settled.by] = seen[settled.by]
      BY <2>1, <3>2
    <3>4. ShownIsReplaced'
      BY <2>1, <3>3 DEF ShownIsReplaced, Present
    <3> QED
      BY <2>1, <3>1, <3>4 DEF ShownInv, Present
  <2> QED
    BY <1>1, <2>2, <2>3, <2>4
<1>2. ASSUME NEW w \in Writers, Insert(w) \/ SkipDuplicate(w)
      PROVE  ShownInv' /\ ShownIsReplaced'
  BY <1>2 DEF Insert, SkipDuplicate, ShownInv, ShownIsReplaced, Present
<1>3. ASSUME NEW w \in Writers, Rollback(w) PROVE ShownInv' /\ ShownIsReplaced'
  BY <1>3 DEF Rollback, Released, ShownInv, ShownIsReplaced, Present
<1>4. ASSUME NEW w \in Writers, Commit(w) PROVE ShownInv' /\ ShownIsReplaced'
  <2>1. /\ seen' = seen /\ settled'.by = w /\ pc[w] = "insert" /\ pc'[w] = "done"
        /\ \A v \in Writers \ {w} : pc'[v] = pc[v] /\ gone'[v] = gone[v]
        /\ \A k \in Keys : rows'[k] = IF k \in added[w] THEN w
                                      ELSE IF k \in gone[w] THEN NoRow ELSE rows[k]
    BY <1>4 DEF Commit, Released
  <2>2. \A v \in Writers, k \in Keys : seen[v][k] # w
    BY <2>1 DEF OnceOnly
  <2>3. ASSUME NEW v \in Writers, pc[v] = "insert", NEW k \in Present(seen[v]) \ gone[v]
        PROVE  rows'[k] # seen[v][k]
    BY <2>1, <2>2, <2>3 DEF ShownInv, Present
  <2>4. \A k \in Present(seen[w]) : rows'[k] # seen[w][k]
    BY <2>1, <2>2, <2>3 DEF Present
  <2>5. ShownInv'
    BY <2>1, <2>3 DEF ShownInv, Present
  <2> QED
    BY <2>1, <2>4, <2>5 DEF ShownIsReplaced, Present
<1>5. CASE UNCHANGED vars
  BY <1>5 DEF vars, ShownInv, ShownIsReplaced, Present
<1> QED
  BY <1>1, <1>2, <1>3, <1>4, <1>5 DEF Next

\* With or without a guard, a row that the last replace was shown is gone: its
\* DELETE took it, or whoever took it before was done.
THEOREM ShownRowsGo == Spec => []ShownIsReplaced
<1>1. Init => OnceOnly /\ ShownInv /\ ShownIsReplaced
  BY DEF Init, OnceOnly, ShownInv, ShownIsReplaced
<1>2. TypeOK /\ OnceOnly /\ ShownInv /\ ShownIsReplaced /\ [Next]_vars
        => OnceOnly' /\ ShownInv' /\ ShownIsReplaced'
  BY StepOnceOnly, StepShown
<1> QED
  BY <1>1, <1>2, TypeCorrect, PTL DEF Spec
=============================================================================
