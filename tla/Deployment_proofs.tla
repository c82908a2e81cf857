------------------------- MODULE Deployment_proofs -------------------------
(***************************************************************************)
(* For any number of migrations, releases and runners, and any needs       *)
(* between migrations that point to earlier ones: the schema is some       *)
(* version's, whole, while ups and downs do not overlap; of racing ups one *)
(* gets through; and a server's schema stays complete until a rollback.    *)
(*                                                                         *)
(* The last part is about the seed, the other command that races itself:   *)
(* SeedRuns, for any number of processes, captured pages and weeks.        *)
(***************************************************************************)
EXTENDS Deployment, SeedRuns, FiniteSetTheorems, WellFoundedInduction, TLAPS

-----------------------------------------------------------------------------
(* First and last versions *)

\* A set of natural numbers that is not empty has a least member.
LEMMA LeastOfNat ==
  ASSUME NEW T \in SUBSET Nat, T # {}
  PROVE  \E x \in T : \A y \in T : x <= y
<1>1. PICK x \in T : \A y \in T : <<y, x>> \notin OpToRel(<, Nat)
  BY NatLessThanWellFounded, WFMin, Zenon
<1>2. \A y \in T : ~(y < x)
  BY <1>1 DEF OpToRel
<1> QED
  BY <1>2

\* The step an up takes is the least of those it has left.
LEMMA FirstIsLeast ==
  ASSUME NEW S \in SUBSET Versions, S # {}
  PROVE  First(S) \in S /\ \A w \in S : First(S) <= w
<1>1. \E v \in S : \A w \in S : v <= w
  BY LeastOfNat, ReleaseAssumption DEF Versions
<1> QED
  BY <1>1, Zenon DEF First

\* The step a down takes is the greatest: the one nearest to the newest.
LEMMA LastIsGreatest ==
  ASSUME NEW S \in SUBSET Versions, S # {}
  PROVE  Last(S) \in S /\ \A w \in S : Last(S) >= w
<1> DEFINE T == {Latest - v : v \in S}
<1>1. T \in SUBSET Nat /\ T # {}
  <2>1. \A v \in S : Latest - v \in Nat
    BY ReleaseAssumption DEF Versions
  <2>2. PICK u \in S : TRUE
    OBVIOUS
  <2>3. Latest - u \in T
    OBVIOUS
  <2> QED
    BY <2>1, <2>3
<1>2. PICK x \in T : \A y \in T : x <= y
  BY <1>1, LeastOfNat, Zenon
<1>3. PICK v \in S : x = Latest - v
  OBVIOUS
<1>4. \A w \in S : v >= w
  BY <1>2, <1>3, ReleaseAssumption DEF Versions
<1>5. \E u \in S : \A w \in S : u >= w
  BY <1>4
<1> QED
  BY <1>5, Zenon DEF Last

\* What a down takes with a version it takes with every newer one.
LEMMA LastOfIsTop ==
  ASSUME NEW S \in SUBSET Versions, NEW n \in Int,
         NEW v \in LastOf(S, n), NEW w \in S, w > v
  PROVE  w \in LastOf(S, n)
<1> DEFINE Above(x) == {u \in S : u > x}
<1>1. IsFiniteSet(Versions)
  BY FS_Interval, ReleaseAssumption DEF Versions
<1>2. IsFiniteSet(S)
  BY <1>1, FS_Subset
<1>3. Above(w) \subseteq Above(v) /\ Above(v) \subseteq S
  <2>1. v \in Int /\ w \in Int /\ \A u \in S : u \in Int
    BY ReleaseAssumption DEF LastOf, Versions
  <2>2. \A u \in S : u > w => u > v
    BY <2>1
  <2> QED
    BY <2>2
<1>4. IsFiniteSet(Above(v)) /\ IsFiniteSet(Above(w))
  BY <1>2, <1>3, FS_Subset
<1>5. Cardinality(Above(w)) <= Cardinality(Above(v))
  BY <1>3, <1>4, FS_Subset
<1>6. Cardinality(Above(w)) \in Nat /\ Cardinality(Above(v)) \in Nat
  BY <1>4, FS_CardinalityType
<1> QED
  BY <1>5, <1>6 DEF LastOf

LEMMA LastOfIsSubset == \A S, n : LastOf(S, n) \subseteq S
BY DEF LastOf

-----------------------------------------------------------------------------
(* Types *)

\* Releases and the steps of a release are versions.
LEMMA ReleaseTypes ==
  /\ Latest \in Nat
  /\ \A K \in Releases : K \in 1 .. Latest /\ 1 .. K \subseteq Versions
BY ReleaseAssumption DEF Versions

\* Replacing one runner's state by another of its type keeps the runners'.
LEMMA RunnerUpdate ==
  ASSUME runner \in [Runners -> Runner], NEW r \in Runners, NEW x \in Runner,
         runner' = [runner EXCEPT ![r] = x]
  PROVE  /\ runner' \in [Runners -> Runner]
         /\ runner'[r] = x
         /\ \A q \in Runners : q # r => runner'[q] = runner[q]
OBVIOUS

LEMMA IdleIsRunner == Idle \in Runner /\ Idle.cmd = "idle" /\ Idle.todo = {}
BY DEF Idle, Runner

\* What a runner that takes a step has left, and the step it takes.
LEMMA StepTaken ==
  ASSUME TypeOK, NEW r \in Runners, NEW v \in Versions
  PROVE  [cmd |-> runner[r].cmd, todo |-> runner[r].todo \ {v}] \in Runner
BY DEF TypeOK, Runner

LEMMA TakeStep ==
  ASSUME TypeOK, NEW r \in Runners, NEW v,
         runner' = [runner EXCEPT ![r].todo = @ \ {v}]
  PROVE  runner' = [runner EXCEPT ![r] = [cmd |-> runner[r].cmd,
                                          todo |-> runner[r].todo \ {v}]]
<1>1. runner[r] \in [cmd : {"idle", "up", "down"}, todo : SUBSET Versions]
  BY DEF TypeOK, Runner
<1>2. [runner[r] EXCEPT !.todo = runner[r].todo \ {v}]
        = [cmd |-> runner[r].cmd, todo |-> runner[r].todo \ {v}]
  BY <1>1
<1> QED
  BY <1>2

\* The variables of the schema's versions keep their types; a version that is
\* partly gone is recorded.
THEOREM TypeCorrect == Spec => []TypeOK
<1>1. Init => TypeOK
  <2>1. Init => runner \in [Runners -> Runner]
    BY IdleIsRunner DEF Init
  <2>2. Init => asked \in 0 .. Latest
    BY ReleaseTypes DEF Init
  <2> QED
    BY <2>1, <2>2 DEF Init, TypeOK
<1>2. TypeOK /\ [Next]_vars => TypeOK'
  <2> SUFFICES ASSUME TypeOK, [Next]_vars PROVE TypeOK'
    OBVIOUS
  <2>1. ASSUME NEW r \in Runners, NEW K \in Releases, UpStart(r, K) PROVE TypeOK'
    <3>1. [cmd |-> "up", todo |-> ToApply(K)] \in Runner
      BY ReleaseTypes DEF Runner, ToApply, Versions
    <3>2. runner' \in [Runners -> Runner]
      BY <2>1, <3>1, RunnerUpdate DEF UpStart, TypeOK
    <3>3. asked' \in 0 .. Latest
      BY <2>1, ReleaseTypes DEF UpStart, TypeOK
    <3>4. calm' \in BOOLEAN
      BY <2>1 DEF UpStart, TypeOK
    <3> QED
      BY <2>1, <3>2, <3>3, <3>4 DEF UpStart, TypeOK
  <2>2. ASSUME NEW r \in Runners, NEW K \in Releases, NEW n \in 0 .. 2, DownStart(r, K, n)
        PROVE  TypeOK'
    <3>1. [cmd |-> "down", todo |-> LastOf(applied \cap (1 .. K), n)] \in Runner
      BY LastOfIsSubset DEF Runner, TypeOK
    <3>2. runner' \in [Runners -> Runner]
      BY <2>2, <3>1, RunnerUpdate DEF DownStart, TypeOK
    <3>3. calm' \in BOOLEAN
      BY <2>2 DEF DownStart, TypeOK
    <3> QED
      BY <2>2, <3>2, <3>3 DEF DownStart, TypeOK
  <2>3. ASSUME NEW r \in Runners, UpStep(r) PROVE TypeOK'
    <3> DEFINE v == First(runner[r].todo)
    <3>1. v \in Versions
      BY <2>3, FirstIsLeast DEF UpStep, TypeOK, Runner
    <3>2. runner' \in [Runners -> Runner]
      <4>1. CASE CanApply(v)
        BY <2>3, <4>1, <3>1, StepTaken, TakeStep, RunnerUpdate DEF UpStep, TypeOK
      <4>2. CASE ~CanApply(v)
        BY <2>3, <4>2, IdleIsRunner, RunnerUpdate DEF UpStep, TypeOK
      <4> QED BY <4>1, <4>2
    <3>3. applied' \in SUBSET Versions /\ applied \subseteq applied'
      BY <2>3, <3>1 DEF UpStep, TypeOK
    <3> QED
      BY <2>3, <3>2, <3>3 DEF UpStep, TypeOK
  <2>4. ASSUME NEW r \in Runners, DownStep(r) PROVE TypeOK'
    <3> DEFINE v == Last(runner[r].todo)
    <3>1. v \in Versions
      BY <2>4, LastIsGreatest DEF DownStep, TypeOK, Runner
    <3>2. runner' \in [Runners -> Runner]
      <4>1. CASE CanUndo(v)
        BY <2>4, <4>1, <3>1, StepTaken, TakeStep, RunnerUpdate DEF DownStep, TypeOK
      <4>2. CASE ~CanUndo(v)
        BY <2>4, <4>2, IdleIsRunner, RunnerUpdate DEF DownStep, TypeOK
      <4> QED BY <4>1, <4>2
    <3>3. applied' \in SUBSET Versions /\ broken' \in SUBSET applied'
      <4>1. CASE CanUndo(v)
        <5>1. LostWith(v) \subseteq applied /\ broken \subseteq applied
          BY DEF LostWith, TypeOK
        <5>2. applied' = applied \ {v} /\ broken' \subseteq (broken \cup LostWith(v)) \ {v}
          BY <2>4, <4>1 DEF DownStep
        <5> QED
          BY <5>1, <5>2 DEF TypeOK
      <4>2. CASE ~CanUndo(v)
        BY <2>4, <4>2 DEF DownStep, TypeOK
      <4> QED BY <4>1, <4>2
    <3>4. asked' \in 0 .. Latest
      <4>1. asked' = 0 \/ asked' = asked
        BY <2>4 DEF DownStep
      <4> QED
        BY <4>1, ReleaseTypes DEF TypeOK
    <3>5. undone' \in BOOLEAN
      <4>1. undone' = TRUE \/ undone' = undone
        BY <2>4 DEF DownStep
      <4> QED
        BY <4>1 DEF TypeOK
    <3> QED
      BY <2>4, <3>2, <3>3, <3>4, <3>5 DEF DownStep, TypeOK
  <2>5. ASSUME NEW r \in Runners, Finish(r) PROVE TypeOK'
    BY <2>5, IdleIsRunner, RunnerUpdate DEF Finish, TypeOK
  <2>6. ASSUME NEW r \in Runners, Crash(r) PROVE TypeOK'
    <3>1. asked' \in 0 .. Latest
      BY <2>6, ReleaseTypes DEF Crash, TypeOK
    <3> QED
      BY <2>6, <3>1, IdleIsRunner, RunnerUpdate DEF Crash, TypeOK
  <2>7. ASSUME NEW K \in Releases, Serve(K) PROVE TypeOK'
    BY <2>7 DEF Serve, TypeOK
  <2>8. CASE Stop
    BY <2>8 DEF Stop, TypeOK
  <2>9. CASE UNCHANGED vars
    BY <2>9 DEF vars, TypeOK
  <2> QED
    BY <2>1, <2>2, <2>3, <2>4, <2>5, <2>6, <2>7, <2>8, <2>9 DEF Next, Migrate
<1> QED
  BY <1>1, <1>2, PTL DEF Spec

-----------------------------------------------------------------------------
(* A server and its schema *)

\* Only a rollback takes a step away from under a server: what it found when it
\* started stays there, whatever ups run or die beside it.
THEOREM ServedSchemaStays == Spec => []ServesOnWholeSchema
<1>1. Init => ServesOnWholeSchema
  BY DEF Init, ServesOnWholeSchema
<1>2. TypeOK /\ ServesOnWholeSchema /\ [Next]_vars => ServesOnWholeSchema'
  <2> SUFFICES ASSUME TypeOK, ServesOnWholeSchema, [Next]_vars
               PROVE  ServesOnWholeSchema'
    OBVIOUS
  <2>1. ASSUME NEW r \in Runners, Migrate(r) PROVE ServesOnWholeSchema'
    <3>1. serving' = serving
      BY <2>1 DEF Migrate, UpStart, DownStart, UpStep, DownStep, Finish, Crash
    <3>2. undone' \/ (undone' = undone /\ applied \subseteq applied')
      BY <2>1 DEF Migrate, UpStart, DownStart, UpStep, DownStep, Finish, Crash
    <3> QED
      BY <3>1, <3>2 DEF ServesOnWholeSchema
  <2>2. ASSUME NEW K \in Releases, Serve(K) PROVE ServesOnWholeSchema'
    <3>1. serving' = K /\ 1 .. K \subseteq applied'
      BY <2>2 DEF Serve, Pending
    <3> QED
      BY <3>1 DEF ServesOnWholeSchema
  <2>3. CASE Stop
    BY <2>3 DEF Stop, ServesOnWholeSchema
  <2>4. CASE UNCHANGED vars
    BY <2>4 DEF vars, ServesOnWholeSchema
  <2> QED
    BY <2>1, <2>2, <2>3, <2>4 DEF Next
<1> QED
  BY <1>1, <1>2, TypeCorrect, PTL DEF Spec

-----------------------------------------------------------------------------
(* A whole schema while ups and downs keep apart *)

\* What an up has left fills the applied versions from below; what a down has
\* left is the top of them.
FillsUp(r) ==
  \A v \in runner[r].todo : \A w \in Versions : w < v => w \in applied \cup runner[r].todo
FromTheTop(r) ==
  \A v \in runner[r].todo : \A w \in applied : w > v => w \in runner[r].todo

CalmInv ==
  calm => /\ broken = {}
          /\ \E k \in 0 .. Latest : applied = 1 .. k
          /\ Running("up") = {} \/ Running("down") = {}
          /\ \A r \in Running("up") : FillsUp(r)
          /\ \A r \in Running("down") : FromTheTop(r)

\* A runner that ends leaves the others what they have left.
LEMMA EndKeepsCalm ==
  ASSUME TypeOK, CalmInv, NEW r \in Runners,
         runner' = [runner EXCEPT ![r] = Idle],
         UNCHANGED <<applied, broken, calm>>
  PROVE  CalmInv'
<1>1. runner'[r].cmd = "idle" /\ \A q \in Runners : q # r => runner'[q] = runner[q]
  BY IdleIsRunner, RunnerUpdate DEF TypeOK
<1>2. Running("up")' \subseteq Running("up") /\ Running("down")' \subseteq Running("down")
  BY <1>1 DEF Running
<1>3. \A q \in Running("up")' : FillsUp(q) => FillsUp(q)'
  BY <1>1 DEF Running, FillsUp
<1>4. \A q \in Running("down")' : FromTheTop(q) => FromTheTop(q)'
  BY <1>1 DEF Running, FromTheTop
<1> QED
  BY <1>2, <1>3, <1>4 DEF CalmInv

LEMMA UpStartKeepsCalm ==
  ASSUME TypeOK, CalmInv, NEW r \in Runners, NEW K \in Releases, UpStart(r, K)
  PROVE  CalmInv'
<1> SUFFICES ASSUME calm' PROVE CalmInv'
  BY DEF CalmInv
<1> DEFINE x == [cmd |-> "up", todo |-> ToApply(K)]
<1>1. x \in Runner
  BY ReleaseTypes DEF Runner, ToApply, Versions
<1>2. runner'[r] = x /\ \A q \in Runners : q # r => runner'[q] = runner[q]
  BY <1>1, RunnerUpdate DEF UpStart, TypeOK
<1>3. calm /\ Running("down") = {} /\ applied' = applied /\ broken' = broken
  BY DEF UpStart
<1>4. Running("down")' = {}
  BY <1>2, <1>3 DEF Running
<1>5. ASSUME NEW q \in Running("up")' PROVE FillsUp(q)'
  <2>1. CASE q = r
    <3>1. \A v \in ToApply(K), w \in Versions : w < v => w \in applied \cup ToApply(K)
      BY ReleaseTypes DEF ToApply, Versions
    <3> QED
      BY <2>1, <3>1, <1>2, <1>3 DEF FillsUp
  <2>2. CASE q # r
    <3>1. q \in Running("up") /\ runner'[q] = runner[q]
      BY <2>2, <1>2 DEF Running
    <3> QED
      BY <3>1, <1>3 DEF CalmInv, FillsUp
  <2> QED BY <2>1, <2>2
<1> QED
  BY <1>3, <1>4, <1>5 DEF CalmInv

LEMMA DownStartKeepsCalm ==
  ASSUME TypeOK, CalmInv, NEW r \in Runners, NEW K \in Releases, NEW n \in 0 .. 2,
         DownStart(r, K, n)
  PROVE  CalmInv'
<1> SUFFICES ASSUME calm' PROVE CalmInv'
  BY DEF CalmInv
<1> DEFINE x == [cmd |-> "down", todo |-> LastOf(applied \cap (1 .. K), n)]
<1>1. x \in Runner
  BY LastOfIsSubset DEF Runner, TypeOK
<1>2. runner'[r] = x /\ \A q \in Runners : q # r => runner'[q] = runner[q]
  BY <1>1, RunnerUpdate DEF DownStart, TypeOK
<1>3. calm /\ Running("up") = {} /\ applied \cap (1 .. K) = applied
      /\ applied' = applied /\ broken' = broken
  BY DEF DownStart
<1>4. Running("up")' = {}
  BY <1>2, <1>3 DEF Running
<1>5. ASSUME NEW q \in Running("down")' PROVE FromTheTop(q)'
  <2>1. CASE q = r
    <3>1. \A v \in LastOf(applied, n), w \in applied : w > v => w \in LastOf(applied, n)
      BY LastOfIsTop DEF TypeOK
    <3>2. runner'[q].todo = LastOf(applied, n)
      BY <2>1, <1>2, <1>3
    <3> QED
      BY <3>1, <3>2, <1>3 DEF FromTheTop
  <2>2. CASE q # r
    <3>1. q \in Running("down") /\ runner'[q] = runner[q]
      BY <2>2, <1>2 DEF Running
    <3> QED
      BY <3>1, <1>3 DEF CalmInv, FromTheTop
  <2> QED BY <2>1, <2>2
<1> QED
  BY <1>3, <1>4, <1>5 DEF CalmInv

\* The first step an up has left, when it can be applied, is the next version.
LEMMA UpStepKeepsCalm ==
  ASSUME TypeOK, CalmInv, NEW r \in Runners, UpStep(r)
  PROVE  CalmInv'
<1> SUFFICES ASSUME calm PROVE CalmInv'
  BY DEF CalmInv, UpStep
<1> DEFINE v == First(runner[r].todo)
<1>1. v \in runner[r].todo /\ v \in Versions /\ \A w \in runner[r].todo : v <= w
  BY FirstIsLeast DEF UpStep, TypeOK, Runner
<1>2. CASE ~CanApply(v)
  <2>1. runner' = [runner EXCEPT ![r] = Idle] /\ UNCHANGED <<applied, broken, calm>>
    BY <1>2 DEF UpStep
  <2> QED
    BY <2>1, EndKeepsCalm
<1>3. CASE CanApply(v)
  <2> DEFINE x == [cmd |-> runner[r].cmd, todo |-> runner[r].todo \ {v}]
  <2>1. runner' = [runner EXCEPT ![r] = x]
    BY <1>3, TakeStep DEF UpStep
  <2>2. runner'[r] = x /\ \A q \in Runners : q # r => runner'[q] = runner[q]
    BY <2>1, <1>1, StepTaken, RunnerUpdate DEF TypeOK
  <2>3. applied' = applied \cup {v} /\ broken' = broken /\ v \notin applied /\ calm' = calm
    BY <1>3 DEF UpStep, CanApply
  <2>4. r \in Running("up") /\ Running("down") = {} /\ broken = {} /\ FillsUp(r)
    BY DEF UpStep, Running, CalmInv
  <2>5. \A q \in Runners : runner'[q].cmd = runner[q].cmd
    BY <2>2
  <2>6. Running("up")' = Running("up") /\ Running("down")' = {}
    BY <2>4, <2>5 DEF Running
  <2>7. \E k \in 0 .. Latest : applied' = 1 .. k
    <3>1. PICK k \in 0 .. Latest : applied = 1 .. k
      BY DEF CalmInv
    <3>2. \A w \in Versions : w < v => w \in 1 .. k
      <4>1. ASSUME NEW w \in Versions, w < v PROVE w \in applied
        <5>1. w \in applied \cup runner[r].todo
          BY <1>1, <2>4, <4>1 DEF FillsUp
        <5>2. w \notin runner[r].todo
          BY <1>1, <4>1 DEF Versions
        <5> QED BY <5>1, <5>2
      <4> QED BY <3>1, <4>1
    <3>3. v \in 1 .. Latest /\ Latest \in Nat /\ v \notin 1 .. k
      BY <1>1, <2>3, <3>1, ReleaseTypes DEF Versions
    <3>4. v = k + 1
      <4>1. v > k
        BY <3>3
      <4>2. CASE v > k + 1
        <5>1. k + 1 \in Versions /\ k + 1 < v
          BY <4>2, <3>3 DEF Versions
        <5> QED BY <5>1, <3>2
      <4> QED BY <4>1, <4>2, <3>3
    <3>5. applied' = 1 .. (k + 1)
      BY <2>3, <3>1, <3>4
    <3>6. k + 1 \in 0 .. Latest
      BY <3>3, <3>4
    <3> QED BY <3>5, <3>6
  <2>8. ASSUME NEW q \in Running("up")' PROVE FillsUp(q)'
    <3>1. q \in Running("up") /\ FillsUp(q)
      BY <2>6 DEF CalmInv
    <3>2. q \in Runners
      BY <3>1 DEF Running
    <3>3. runner'[q].todo \subseteq runner[q].todo
          /\ runner[q].todo \subseteq runner'[q].todo \cup {v}
      BY <2>2, <3>2
    <3> QED
      BY <2>3, <3>1, <3>3 DEF FillsUp
  <2> QED
    BY <2>3, <2>4, <2>6, <2>7, <2>8 DEF CalmInv
<1> QED
  BY <1>2, <1>3

\* The last step a down has left, while it is applied, is the newest version:
\* nothing that is applied needs it.
LEMMA DownStepKeepsCalm ==
  ASSUME TypeOK, CalmInv, NEW r \in Runners, DownStep(r)
  PROVE  CalmInv'
<1> SUFFICES ASSUME calm PROVE CalmInv'
  BY DEF CalmInv, DownStep
<1> DEFINE v == Last(runner[r].todo)
<1>1. v \in runner[r].todo /\ v \in Versions /\ \A w \in runner[r].todo : v >= w
  BY LastIsGreatest DEF DownStep, TypeOK, Runner
<1>2. CASE ~CanUndo(v)
  <2>1. runner' = [runner EXCEPT ![r] = Idle] /\ UNCHANGED <<applied, broken, calm>>
    BY <1>2 DEF DownStep
  <2> QED
    BY <2>1, EndKeepsCalm
<1>3. CASE CanUndo(v)
  <2> DEFINE x == [cmd |-> runner[r].cmd, todo |-> runner[r].todo \ {v}]
  <2>1. runner' = [runner EXCEPT ![r] = x]
    BY <1>3, TakeStep DEF DownStep
  <2>2. runner'[r] = x /\ \A q \in Runners : q # r => runner'[q] = runner[q]
    BY <2>1, <1>1, StepTaken, RunnerUpdate DEF TypeOK
  <2>3. applied' = applied \ {v} /\ calm' = calm
        /\ broken' = (IF v \in applied THEN broken \cup LostWith(v) ELSE broken) \ {v}
    BY <1>3 DEF DownStep
  <2>4. r \in Running("down") /\ Running("up") = {} /\ broken = {} /\ FromTheTop(r)
    BY DEF DownStep, Running, CalmInv
  <2>5. \A q \in Runners : runner'[q].cmd = runner[q].cmd
    BY <2>2
  <2>6. Running("down")' = Running("down") /\ Running("up")' = {}
    BY <2>4, <2>5 DEF Running
  <2>7. PICK k \in 0 .. Latest : applied = 1 .. k
    BY DEF CalmInv
  <2>8. v \in applied => v = k
    <3> SUFFICES ASSUME v \in applied, v # k PROVE FALSE
      OBVIOUS
    <3>1. k \in applied /\ k > v
      BY <2>7
    <3>2. k \in runner[r].todo
      BY <1>1, <2>4, <3>1 DEF FromTheTop
    <3>3. v >= k
      BY <1>1, <3>2
    <3> QED BY <2>7, <3>1, <3>3
  <2>9. \E j \in 0 .. Latest : applied' = 1 .. j
    <3>1. CASE v \in applied
      <4>1. v = k /\ k \in 1 .. Latest
        BY <3>1, <2>7, <2>8, ReleaseTypes
      <4>2. applied' = 1 .. (k - 1) /\ k - 1 \in 0 .. Latest
        BY <4>1, <2>3, <2>7, ReleaseTypes
      <4> QED BY <4>2
    <3>2. CASE v \notin applied
      BY <3>2, <2>3, <2>7
    <3> QED BY <3>1, <3>2
  <2>10. broken' = {}
    <3>1. ASSUME v \in applied PROVE LostWith(v) = {}
      <4> SUFFICES ASSUME NEW w \in applied, v \in Needs[w] PROVE FALSE
        BY DEF LostWith
      <4>1. v < w
        BY NeedsAssumption DEF TypeOK
      <4>2. w \in 1 .. k /\ v = k
        BY <3>1, <2>7, <2>8
      <4> QED BY <4>1, <4>2
    <3> QED BY <3>1, <2>3, <2>4
  <2>11. ASSUME NEW q \in Running("down")' PROVE FromTheTop(q)'
    <3>1. q \in Running("down") /\ FromTheTop(q)
      BY <2>6 DEF CalmInv
    <3>2. q \in Runners
      BY <3>1 DEF Running
    <3>3. runner'[q].todo \subseteq runner[q].todo
          /\ runner[q].todo \subseteq runner'[q].todo \cup {v}
      BY <2>2, <3>2
    <3> QED
      BY <2>3, <3>1, <3>3 DEF FromTheTop
  <2> QED
    BY <2>3, <2>6, <2>9, <2>10, <2>11 DEF CalmInv
<1> QED
  BY <1>2, <1>3

\* "A failure leaves the schema at the last good version": racing ups, racing
\* downs and crashed runners leave a whole schema, and only an up beside a down,
\* or an older binary's down under newer steps, may not.
THEOREM SchemaStaysWhole == Spec => []SchemaIsWhole
<1>1. Init => CalmInv
  <2> SUFFICES ASSUME Init PROVE CalmInv
    OBVIOUS
  <2>1. Running("up") = {} /\ Running("down") = {}
    BY DEF Init, Running, Idle
  <2>2. applied = 1 .. 0 /\ 0 \in 0 .. Latest
    BY ReleaseTypes DEF Init
  <2> QED
    BY <2>1, <2>2 DEF Init, CalmInv
<1>2. TypeOK /\ CalmInv /\ [Next]_vars => CalmInv'
  <2> SUFFICES ASSUME TypeOK, CalmInv, [Next]_vars PROVE CalmInv'
    OBVIOUS
  <2>1. ASSUME NEW r \in Runners, Finish(r) \/ Crash(r) PROVE CalmInv'
    BY <2>1, EndKeepsCalm DEF Finish, Crash
  <2>2. ASSUME UNCHANGED <<applied, broken, runner, calm>> PROVE CalmInv'
    BY <2>2 DEF CalmInv, Running, FillsUp, FromTheTop
  <2> QED
    BY <2>1, <2>2, UpStartKeepsCalm, DownStartKeepsCalm, UpStepKeepsCalm, DownStepKeepsCalm
       DEF Next, Migrate, Serve, Stop, vars
<1>3. CalmInv => SchemaIsWhole
  BY DEF CalmInv, SchemaIsWhole
<1> QED
  BY <1>1, <1>2, <1>3, TypeCorrect, PTL DEF Spec

-----------------------------------------------------------------------------
(* Of racing ups one gets through *)

\* What is still to be recorded up to asked, r has left to take.
Covers(r) == 1 .. asked \subseteq applied \cup runner[r].todo

\* Where another has taken a step that r has left, it took the earlier ones too.
Overtaken(r) ==
  \A x \in runner[r].todo \cap applied : \A w \in runner[r].todo : w < x => w \in applied

\* The up that is ahead: nobody has taken a step it has left.
Leads(r) == Covers(r) /\ runner[r].todo \cap applied = {}

\* While there is something that racing ups are to reach, one of them leads.
RaceInv ==
  asked > 0 => /\ \A r \in Running("up") : Covers(r) /\ FillsUp(r) /\ Overtaken(r)
               /\ 1 .. asked \subseteq applied \/ \E r \in Running("up") : Leads(r)

\* An up that is not ahead may end: the one that is stays ahead.
LEMMA EndKeepsRace ==
  ASSUME TypeOK, RaceInv, NEW r \in Runners,
         runner' = [runner EXCEPT ![r] = Idle],
         UNCHANGED <<applied, asked>>,
         r \in Running("up") /\ Leads(r) => 1 .. asked \subseteq applied
  PROVE  RaceInv'
<1>1. runner'[r].cmd = "idle" /\ \A q \in Runners : q # r => runner'[q] = runner[q]
  BY IdleIsRunner, RunnerUpdate DEF TypeOK
<1>2. Running("up")' = Running("up") \ {r}
  BY <1>1 DEF Running
<1>3. ASSUME NEW q \in Running("up")'
      PROVE  (Covers(q)' <=> Covers(q)) /\ (FillsUp(q)' <=> FillsUp(q))
             /\ (Overtaken(q)' <=> Overtaken(q)) /\ (Leads(q)' <=> Leads(q))
  <2>1. runner'[q] = runner[q]
    BY <1>1, <1>2 DEF Running
  <2> QED
    BY <2>1 DEF Covers, FillsUp, Overtaken, Leads
<1>4. SUFFICES ASSUME asked > 0, ~(1 .. asked \subseteq applied)
      PROVE  \E q \in Running("up")' : Leads(q)'
  BY <1>2, <1>3 DEF RaceInv
<1>5. PICK q \in Running("up") : Leads(q)
  BY <1>4 DEF RaceInv
<1>6. q # r
  BY <1>4, <1>5
<1> QED
  BY <1>2, <1>3, <1>5, <1>6

LEMMA UpStartKeepsRace ==
  ASSUME TypeOK, RaceInv, NEW r \in Runners, NEW K \in Releases, UpStart(r, K)
  PROVE  RaceInv'
<1> SUFFICES ASSUME asked' > 0 PROVE RaceInv'
  BY DEF RaceInv
<1> DEFINE x == [cmd |-> "up", todo |-> ToApply(K)]
<1>1. x \in Runner
  BY ReleaseTypes DEF Runner, ToApply, Versions
<1>2. runner'[r] = x /\ \A q \in Runners : q # r => runner'[q] = runner[q]
  BY <1>1, RunnerUpdate DEF UpStart, TypeOK
<1>3. applied' = applied /\ runner[r].cmd = "idle"
  BY DEF UpStart
<1>4. Running("up")' = Running("up") \cup {r} /\ r \notin Running("up")
  BY <1>2, <1>3 DEF Running
<1>5. K \in Nat /\ asked \in Nat /\ asked' \in Nat /\ asked' <= K
  BY ReleaseTypes DEF UpStart, TypeOK
<1>6. Covers(r)' /\ FillsUp(r)' /\ Overtaken(r)' /\ Leads(r)'
  <2>1. 1 .. asked' \subseteq applied \cup ToApply(K)
    BY <1>5 DEF ToApply
  <2>2. \A v \in ToApply(K), w \in Versions : w < v => w \in applied \cup ToApply(K)
    BY ReleaseTypes DEF ToApply, Versions
  <2>3. ToApply(K) \cap applied = {}
    BY DEF ToApply
  <2> QED
    BY <1>2, <1>3, <2>1, <2>2, <2>3 DEF Covers, FillsUp, Overtaken, Leads
<1>7. CASE Running("up") = {}
  BY <1>4, <1>6, <1>7 DEF RaceInv
<1>8. CASE Running("up") # {}
  <2>1. asked > 0 /\ asked' <= asked
    BY <1>8, <1>5 DEF UpStart
  <2>2. ASSUME NEW q \in Running("up")
        PROVE  (Covers(q) => Covers(q)') /\ (FillsUp(q) => FillsUp(q)')
               /\ (Overtaken(q) => Overtaken(q)')
    <3>1. runner'[q] = runner[q]
      BY <1>2, <1>4 DEF Running
    <3>2. 1 .. asked' \subseteq 1 .. asked
      BY <2>1, <1>5
    <3> QED
      BY <1>3, <3>1, <3>2 DEF Covers, FillsUp, Overtaken
  <2> QED
    BY <1>4, <1>6, <2>1, <2>2 DEF RaceInv
<1> QED
  BY <1>7, <1>8

\* A step that is applied makes its runner the one ahead; a step that fails is
\* not the leader's: what the leader's step needs is earlier and so applied.
LEMMA UpStepKeepsRace ==
  ASSUME TypeOK, RaceInv, NEW r \in Runners, UpStep(r)
  PROVE  RaceInv'
<1> SUFFICES ASSUME asked > 0 PROVE RaceInv'
  BY DEF RaceInv, UpStep
<1> DEFINE v == First(runner[r].todo)
<1>1. v \in runner[r].todo /\ v \in Versions /\ runner[r].todo \subseteq Versions
      /\ \A w \in runner[r].todo : v <= w
  BY FirstIsLeast DEF UpStep, TypeOK, Runner
<1>2. r \in Running("up") /\ Covers(r) /\ FillsUp(r) /\ Overtaken(r)
  BY DEF UpStep, Running, RaceInv
<1>3. \A w \in Versions : w < v => w \in applied
  <2> SUFFICES ASSUME NEW w \in Versions, w < v PROVE w \in applied
    OBVIOUS
  <2>1. w \in applied \cup runner[r].todo
    BY <1>1, <1>2 DEF FillsUp
  <2>2. w \notin runner[r].todo
    BY <1>1 DEF Versions
  <2> QED BY <2>1, <2>2
<1>4. CASE ~CanApply(v)
  <2>1. runner' = [runner EXCEPT ![r] = Idle] /\ UNCHANGED <<applied, asked>>
    BY <1>4 DEF UpStep
  <2>2. ~Leads(r)
    <3> SUFFICES ASSUME Leads(r) PROVE CanApply(v)
      BY <1>4
    <3>1. v \notin applied
      BY <1>1 DEF Leads
    <3>2. \A w \in Needs[v] : w \in Versions /\ w < v
      BY <1>1, NeedsAssumption
    <3> QED
      BY <3>1, <3>2, <1>3 DEF CanApply
  <2> QED
    BY <2>1, <2>2, EndKeepsRace
<1>5. CASE CanApply(v)
  <2> DEFINE x == [cmd |-> runner[r].cmd, todo |-> runner[r].todo \ {v}]
  <2>1. runner' = [runner EXCEPT ![r] = x]
    BY <1>5, TakeStep DEF UpStep
  <2>2. runner'[r] = x /\ \A q \in Runners : q # r => runner'[q] = runner[q]
    BY <2>1, <1>1, StepTaken, RunnerUpdate DEF TypeOK
  <2>3. applied' = applied \cup {v} /\ v \notin applied /\ asked' = asked
    BY <1>5 DEF UpStep, CanApply
  <2>4. \A q \in Runners : runner'[q].cmd = runner[q].cmd
    BY <2>2
  <2>5. Running("up")' = Running("up")
    BY <2>4 DEF Running
  <2>6. Leads(r)' /\ FillsUp(r)' /\ Overtaken(r)'
    <3>1. runner'[r].todo = runner[r].todo \ {v}
      BY <2>2
    <3>2. runner'[r].todo \cap applied' = {}
      BY <1>1, <1>2, <2>3, <3>1 DEF Overtaken, Versions
    <3>3. Covers(r)' /\ FillsUp(r)'
      BY <1>2, <2>3, <3>1 DEF Covers, FillsUp
    <3> QED
      BY <3>2, <3>3 DEF Leads, Overtaken
  <2>7. ASSUME NEW q \in Running("up"), q # r PROVE Covers(q)' /\ FillsUp(q)' /\ Overtaken(q)'
    <3>1. runner'[q] = runner[q] /\ runner[q].todo \subseteq Versions
      BY <2>2, <2>7 DEF Running, TypeOK, Runner
    <3>2. Covers(q) /\ FillsUp(q) /\ Overtaken(q)
      BY DEF RaceInv
    <3>3. Covers(q)' /\ FillsUp(q)'
      BY <2>3, <3>1, <3>2 DEF Covers, FillsUp
    <3>4. Overtaken(q)'
      BY <1>3, <2>3, <3>1, <3>2 DEF Overtaken
    <3> QED BY <3>3, <3>4
  <2> QED
    BY <1>2, <2>5, <2>6, <2>7 DEF RaceInv, Leads
<1> QED
  BY <1>4, <1>5

\* Each racing up stops at the first step another took before it, but the one
\* ahead goes on to its end: when none runs any more, none died and nothing was
\* rolled back, the schema is where all of them were to bring it.
THEOREM OneUpGetsThrough == Spec => []SomebodyFinishes
<1>1. Init => RaceInv
  BY DEF Init, RaceInv
<1>2. TypeOK /\ RaceInv /\ [Next]_vars => RaceInv'
  <2> SUFFICES ASSUME TypeOK, RaceInv, [Next]_vars PROVE RaceInv'
    OBVIOUS
  <2>1. ASSUME NEW r \in Runners, NEW K \in Releases, NEW n \in 0 .. 2, DownStart(r, K, n)
        PROVE  RaceInv'
    <3>1. [cmd |-> "down", todo |-> LastOf(applied \cap (1 .. K), n)] \in Runner
      BY LastOfIsSubset DEF Runner, TypeOK
    <3>2. runner'[r].cmd = "down" /\ \A q \in Runners : q # r => runner'[q] = runner[q]
      BY <2>1, <3>1, RunnerUpdate DEF DownStart, TypeOK
    <3>3. Running("up")' = Running("up") /\ r \notin Running("up")
      BY <2>1, <3>2 DEF DownStart, Running
    <3>4. \A q \in Running("up") : runner'[q] = runner[q]
      BY <3>2, <3>3 DEF Running
    <3> QED
      BY <2>1, <3>3, <3>4 DEF DownStart, RaceInv, Covers, FillsUp, Overtaken, Leads
  <2>2. ASSUME NEW r \in Runners, DownStep(r) PROVE RaceInv'
    <3>1. CASE CanUndo(Last(runner[r].todo))
      BY <2>2, <3>1 DEF DownStep, RaceInv
    <3>2. CASE ~CanUndo(Last(runner[r].todo))
      <4>1. r \notin Running("up")
        BY <2>2 DEF DownStep, Running
      <4> QED
        BY <2>2, <3>2, <4>1, EndKeepsRace DEF DownStep
    <3> QED BY <3>1, <3>2
  <2>3. ASSUME NEW r \in Runners, Finish(r) PROVE RaceInv'
    <3>1. Leads(r) => 1 .. asked \subseteq applied
      BY <2>3 DEF Finish, Leads, Covers
    <3> QED
      BY <2>3, <3>1, EndKeepsRace DEF Finish
  <2>4. ASSUME NEW r \in Runners, Crash(r) PROVE RaceInv'
    <3>1. CASE runner[r].cmd = "up"
      BY <2>4, <3>1 DEF Crash, RaceInv
    <3>2. CASE runner[r].cmd # "up"
      <4>1. r \notin Running("up")
        BY <3>2 DEF Running
      <4> QED
        BY <2>4, <3>2, <4>1, EndKeepsRace DEF Crash
    <3> QED BY <3>1, <3>2
  <2>5. ASSUME UNCHANGED <<applied, runner, asked>> PROVE RaceInv'
    BY <2>5 DEF RaceInv, Running, Covers, FillsUp, Overtaken, Leads
  <2> QED
    BY <2>1, <2>2, <2>3, <2>4, <2>5, UpStartKeepsRace, UpStepKeepsRace
       DEF Next, Migrate, Serve, Stop, vars
<1>3. TypeOK /\ RaceInv => SomebodyFinishes
  <2> SUFFICES ASSUME TypeOK, RaceInv, Running("up") = {}, asked > 0
               PROVE  1 .. asked \subseteq applied
    BY ReleaseTypes DEF TypeOK, SomebodyFinishes
  <2> QED
    BY DEF RaceInv
<1> QED
  BY <1>1, <1>2, <1>3, TypeCorrect, PTL DEF Spec

-----------------------------------------------------------------------------
(* Seeds, beside each other and beside admins: SeedRuns *)

\* Only a forced seed clears, so only its first statement sees weeks to delete.
\* From there to its end, a week that is there and was not seen is one that got
\* past the waiting statement.
SeenInv ==
  \A s \in Seeders :
    /\ ~seeder[s].force \/ seeder[s].phase \in {"idle", "counted"} => seeder[s].seen = {}
    /\ seeder[s].phase \in {"first", "cleared", "loading"} /\ seeder[s].force
         => There(cycles) \ seeder[s].seen \subseteq raced

\* A seed that loads has found nothing in its way.
LoadInv ==
  \A s \in Seeders : seeder[s].phase = "loading" => ~Clashes(s)

\* The weeks of the page in force, no others.
WeeksInv ==
  \A w \in Weeks \ (edited \cup raced) :
    cycles[w] = IF plans # None /\ w \in WeeksOf[plans]
                  THEN [by |-> plans, days |-> TRUE] ELSE None

SeedsInv == SeedTypeOK /\ SeenInv /\ LoadInv /\ WeeksInv

\* What a seed's step leaves of the processes.
LEMMA Moves ==
  ASSUME SeedTypeOK, NEW s \in Seeders, NEW phase \in Phases,
         Go(s, phase)
  PROVE  /\ seeder' \in [Seeders -> Seeder]
         /\ seeder'[s].phase = phase /\ seeder'[s].page = seeder[s].page
         /\ seeder'[s].force = seeder[s].force /\ seeder'[s].seen = seeder[s].seen
         /\ \A t \in Seeders \ {s} : seeder'[t] = seeder[t]
<1>1. seeder \in [Seeders -> Seeder] /\ seeder[s] \in Seeder
  BY DEF SeedTypeOK
<1>2. seeder' = [seeder EXCEPT ![s] = [seeder[s] EXCEPT !.phase = phase]]
  BY DEF Go
<1>3. [seeder[s] EXCEPT !.phase = phase] \in Seeder
  BY <1>1 DEF Seeder
<1> QED
  BY <1>1, <1>2, <1>3 DEF Seeder

\* A process between two seeds, and the weeks a seed loads, are of their types.
LEMMA IdleTyped == NoSeed \in Seeder
<1>1. (CHOOSE p \in Pages : TRUE) \in Pages
  BY PageAssumption
<1> QED
  BY <1>1 DEF NoSeed, Seeder, Phases

\* The weeks after a commit.
LEMMA LoadedTyped ==
  ASSUME SeedTypeOK, NEW s \in Seeders
  PROVE  Loaded(s) \in [Weeks -> Cycle \cup {None}]
<1>1. seeder[s].page \in Pages
  BY DEF SeedTypeOK, Seeder
<1>2. ASSUME NEW w \in Weeks PROVE Kept(s)[w] \in Cycle \cup {None}
  <2>1. cycles[w] \in Cycle \cup {None}
    BY DEF SeedTypeOK
  <2>2. cycles[w] # None => [cycles[w] EXCEPT !.days = FALSE] \in Cycle
    BY <2>1 DEF Cycle
  <2> QED
    BY <2>1, <2>2 DEF Kept
<1>3. [by |-> seeder[s].page, days |-> TRUE] \in Cycle
  BY <1>1 DEF Cycle
<1> QED
  BY <1>2, <1>3 DEF Loaded

-----------------------------------------------------------------------------
\* Counting the plans changes nothing but what the process knows.
LEMMA CountKeeps ==
  ASSUME SeedsInv, NEW s \in Seeders, NEW page \in Pages,
         NEW force \in BOOLEAN, Count(s, page, force)
  PROVE  SeedsInv'
<1> DEFINE row == [phase |-> "counted", page |-> page, force |-> force, seen |-> {}]
<1>1. row \in Seeder
  BY DEF Seeder, Phases
<1>2. /\ seeder' = [seeder EXCEPT ![s] = row]
      /\ seeder[s].phase = "idle"
      /\ UNCHANGED <<plans, cycles, lock, edited, raced>>
  BY DEF Count
<1>3. /\ seeder' \in [Seeders -> Seeder] /\ seeder'[s] = row
      /\ \A t \in Seeders \ {s} : seeder'[t] = seeder[t]
  BY <1>1, <1>2 DEF SeedsInv, SeedTypeOK
<1>4. SeedTypeOK'
  BY <1>2, <1>3 DEF SeedsInv, SeedTypeOK
<1>5. SeenInv'
  BY <1>2, <1>3 DEF SeedsInv, SeenInv, There
<1>6. LoadInv'
  <2>1. \A t \in Seeders \ {s} : Kept(t)' = Kept(t)
    BY <1>2, <1>3 DEF Kept
  <2> QED
    BY <1>2, <1>3, <2>1 DEF SeedsInv, LoadInv, Clashes, There
<1>7. WeeksInv'
  BY <1>2 DEF SeedsInv, WeeksInv
<1> QED
  BY <1>4, <1>5, <1>6, <1>7 DEF SeedsInv

\* A forced seed's clearing statement sees what is committed now.
LEMMA FirstStatementKeeps ==
  ASSUME SeedsInv, NEW s \in Seeders, FirstStatement(s)
  PROVE  SeedsInv'
<1> DEFINE saw == IF seeder[s].force THEN There(cycles) ELSE {}
           row == [seeder[s] EXCEPT !.phase = "first", !.seen = saw]
<1>1. seeder[s] \in Seeder /\ saw \in SUBSET Weeks
  BY DEF SeedsInv, SeedTypeOK, There
<1>2. /\ row \in Seeder /\ row.phase = "first" /\ row.seen = saw
      /\ row.force = seeder[s].force
  BY <1>1 DEF Seeder, Phases
<1>3. /\ seeder' = [seeder EXCEPT ![s] = row]
      /\ seeder[s].phase = "counted"
      /\ UNCHANGED <<plans, cycles, lock, edited, raced>>
  BY DEF FirstStatement
<1> HIDE DEF row
<1>4. /\ seeder' \in [Seeders -> Seeder] /\ seeder'[s] = row
      /\ \A t \in Seeders \ {s} : seeder'[t] = seeder[t]
  BY <1>2, <1>3 DEF SeedsInv, SeedTypeOK
<1>5. SeedTypeOK'
  BY <1>2, <1>3, <1>4 DEF SeedsInv, SeedTypeOK
<1>6. SeenInv'
  BY <1>2, <1>3, <1>4 DEF SeedsInv, SeenInv, There
<1>7. LoadInv'
  <2>1. \A t \in Seeders \ {s} : Kept(t)' = Kept(t)
    BY <1>2, <1>3, <1>4 DEF Kept
  <2> QED
    BY <1>2, <1>3, <1>4, <2>1 DEF SeedsInv, LoadInv, Clashes, There
<1>8. WeeksInv'
  BY <1>3 DEF SeedsInv, WeeksInv
<1> QED
  BY <1>5, <1>6, <1>7, <1>8 DEF SeedsInv

\* content_revision is free: the seed takes it.
LEMMA LockKeeps ==
  ASSUME SeedsInv, NEW s \in Seeders, Lock(s)
  PROVE  SeedsInv'
<1>1. /\ seeder' \in [Seeders -> Seeder]
      /\ seeder'[s].phase = "cleared" /\ seeder'[s].page = seeder[s].page
      /\ seeder'[s].force = seeder[s].force /\ seeder'[s].seen = seeder[s].seen
      /\ \A t \in Seeders \ {s} : seeder'[t] = seeder[t]
  BY Moves DEF Lock, SeedsInv, Phases
<1>2. /\ seeder[s].phase = "first" /\ lock = None /\ lock' = s
      /\ UNCHANGED <<plans, cycles, edited, raced>>
  BY DEF Lock
<1>3. SeedTypeOK'
  BY <1>1, <1>2, NoneAssumption DEF SeedsInv, SeedTypeOK
<1>4. SeenInv'
  BY <1>1, <1>2 DEF SeedsInv, SeenInv, There
<1>5. LoadInv'
  <2>1. \A t \in Seeders \ {s} : Kept(t)' = Kept(t)
    BY <1>1, <1>2 DEF Kept
  <2> QED
    BY <1>1, <1>2, <2>1 DEF SeedsInv, LoadInv, Clashes, There
<1>6. WeeksInv'
  BY <1>2 DEF SeedsInv, WeeksInv
<1> QED
  BY <1>3, <1>4, <1>5, <1>6 DEF SeedsInv

\* A seed goes on to load only when nothing of its page is in the way.
LEMMA LoadKeeps ==
  ASSUME SeedsInv, NEW s \in Seeders, Load(s)
  PROVE  SeedsInv'
<1>1. /\ seeder' \in [Seeders -> Seeder]
      /\ seeder'[s].phase = "loading" /\ seeder'[s].page = seeder[s].page
      /\ seeder'[s].force = seeder[s].force /\ seeder'[s].seen = seeder[s].seen
      /\ \A t \in Seeders \ {s} : seeder'[t] = seeder[t]
  BY Moves DEF Load, SeedsInv, Phases
<1>2. /\ seeder[s].phase = "cleared" /\ ~Clashes(s)
      /\ UNCHANGED <<plans, cycles, lock, edited, raced>>
  BY DEF Load
<1>3. SeedTypeOK'
  BY <1>1, <1>2 DEF SeedsInv, SeedTypeOK
<1>4. SeenInv'
  BY <1>1, <1>2 DEF SeedsInv, SeenInv, There
<1>5. LoadInv'
  <2>1. \A t \in Seeders : Kept(t)' = Kept(t)
    BY <1>1, <1>2 DEF Kept
  <2> QED
    BY <1>1, <1>2, <2>1 DEF SeedsInv, LoadInv, Clashes, There
<1>6. WeeksInv'
  BY <1>2 DEF SeedsInv, WeeksInv
<1> QED
  BY <1>3, <1>4, <1>5, <1>6 DEF SeedsInv

\* A seed that fails leaves the content as it was.
LEMMA SeedFails ==
  ASSUME SeedsInv, NEW s \in Seeders, Fail(s)
  PROVE  SeedsInv'
<1>1. /\ seeder' = [seeder EXCEPT ![s] = NoSeed] /\ lock' = IF lock = s THEN None ELSE lock
      /\ UNCHANGED <<plans, cycles, edited, raced>>
  BY DEF Fail, Unlock, Rollback
<1>2. /\ seeder' \in [Seeders -> Seeder] /\ seeder'[s] = NoSeed
      /\ NoSeed.phase = "idle" /\ NoSeed.seen = {}
      /\ \A t \in Seeders \ {s} : seeder'[t] = seeder[t]
  BY <1>1, IdleTyped DEF SeedsInv, SeedTypeOK, NoSeed
<1>3. SeedTypeOK'
  BY <1>1, <1>2, NoneAssumption DEF SeedsInv, SeedTypeOK
<1>4. SeenInv'
  BY <1>1, <1>2 DEF SeedsInv, SeenInv, There
<1>5. LoadInv'
  <2>1. \A t \in Seeders \ {s} : Kept(t)' = Kept(t)
    BY <1>1, <1>2 DEF Kept
  <2> QED
    BY <1>1, <1>2, <2>1 DEF SeedsInv, LoadInv, Clashes, There
<1>6. WeeksInv'
  BY <1>1 DEF SeedsInv, WeeksInv
<1> QED
  BY <1>3, <1>4, <1>5, <1>6 DEF SeedsInv

-----------------------------------------------------------------------------
\* No seed holds the revision row while an admin writes.
LEMMA AdminAlone ==
  ASSUME SeedsInv, lock = None, NEW s \in Seeders
  PROVE  seeder[s].phase \notin {"cleared", "loading"}
BY NoneAssumption DEF SeedsInv, SeedTypeOK

\* A week saved past a waiting seed is one of those that raced it.
LEMMA SaveWeekKeeps ==
  ASSUME SeedsInv, NEW w \in Weeks, SaveWeek(w)
  PROVE  SeedsInv'
<1> DEFINE row == [by |-> Admin, days |-> plans # None]
<1>1. row \in Cycle
  BY DEF Cycle
<1>2. /\ lock = None /\ w \notin LockedWeeks
      /\ cycles' = [cycles EXCEPT ![w] = row] /\ edited' = edited \cup {w}
      /\ UNCHANGED <<plans, seeder, lock>>
  BY DEF SaveWeek
<1>3. /\ raced \subseteq raced' /\ raced' \subseteq raced \cup {w}
      /\ (cycles[w] = None /\ \E s \in Seeders : seeder[s].phase = "first" /\ seeder[s].force)
           => w \in raced'
  BY DEF SaveWeek
<1> HIDE DEF row
<1>4. SeedTypeOK'
  BY <1>1, <1>2, <1>3 DEF SeedsInv, SeedTypeOK
<1>5. SeenInv'
  <2>1. SUFFICES ASSUME NEW s \in Seeders, seeder[s].phase = "first", seeder[s].force,
                        NEW v \in Weeks, cycles'[v] # None, v \notin seeder[s].seen
                 PROVE  v \in raced'
    BY <1>2, AdminAlone DEF SeedsInv, SeenInv, There
  <2>2. CASE v # w \/ cycles[w] # None
    BY <1>2, <1>3, <2>1, <2>2 DEF SeedsInv, SeenInv, There, SeedTypeOK
  <2>3. CASE v = w /\ cycles[w] = None
    BY <1>3, <2>1, <2>3
  <2> QED
    BY <2>2, <2>3
<1>6. LoadInv'
  BY <1>2, AdminAlone DEF LoadInv
<1>7. WeeksInv'
  BY <1>2, <1>3 DEF SeedsInv, WeeksInv, SeedTypeOK
<1> QED
  BY <1>4, <1>5, <1>6, <1>7 DEF SeedsInv

\* A week that is gone is nobody's any more.
LEMMA DeleteWeekKeeps ==
  ASSUME SeedsInv, NEW w \in Weeks, DeleteWeek(w)
  PROVE  SeedsInv'
<1>1. /\ lock = None /\ cycles' = [cycles EXCEPT ![w] = None]
      /\ edited' = edited \cup {w} /\ raced' = raced \ {w}
      /\ UNCHANGED <<plans, seeder, lock>>
  BY DEF DeleteWeek
<1>2. SeedTypeOK'
  BY <1>1 DEF SeedsInv, SeedTypeOK
<1>3. SeenInv'
  BY <1>1 DEF SeedsInv, SeenInv, There, SeedTypeOK
<1>4. LoadInv'
  BY <1>1, AdminAlone DEF LoadInv
<1>5. WeeksInv'
  BY <1>1 DEF SeedsInv, WeeksInv, SeedTypeOK
<1> QED
  BY <1>2, <1>3, <1>4, <1>5 DEF SeedsInv

-----------------------------------------------------------------------------
\* A commit puts the loaded weeks in place and leaves the other seeds to see
\* less of what they saw.
LEMMA CommitSteps ==
  ASSUME SeedsInv, NEW s \in Seeders, Commit(s)
  PROVE  /\ seeder' \in [Seeders -> Seeder]
         /\ seeder'[s] = NoSeed /\ NoSeed.phase = "idle" /\ NoSeed.seen = {}
         /\ \A t \in Seeders \ {s} :
              /\ seeder'[t].phase = seeder[t].phase /\ seeder'[t].force = seeder[t].force
              /\ seeder'[t].page = seeder[t].page
              /\ seeder'[t].seen
                   = seeder[t].seen \ (seeder[s].seen \cup WeeksOf[seeder[s].page])
<1> DEFINE gone == seeder[s].seen \cup WeeksOf[seeder[s].page]
           row(t) == [seeder[t] EXCEPT !.seen = @ \ gone]
<1>1. ASSUME NEW t \in Seeders
      PROVE  /\ row(t) \in Seeder /\ row(t).phase = seeder[t].phase
             /\ row(t).force = seeder[t].force /\ row(t).page = seeder[t].page
             /\ row(t).seen = seeder[t].seen \ gone
  <2>1. seeder[t] \in Seeder
    BY DEF SeedsInv, SeedTypeOK
  <2> QED
    BY <2>1 DEF Seeder
<1>2. seeder' = [t \in Seeders |-> IF t = s THEN NoSeed ELSE row(t)]
  BY DEF Commit
<1> HIDE DEF row
<1>3. NoSeed.phase = "idle" /\ NoSeed.seen = {}
  BY DEF NoSeed
<1> QED
  BY <1>1, <1>2, <1>3, IdleTyped

\* A week that is there after a commit came with the page or was there before,
\* and out of a forced seed's sight.
LEMMA LoadedThere ==
  ASSUME NEW s \in Seeders, NEW w \in Weeks, Loaded(s)[w] # None,
         w \notin WeeksOf[seeder[s].page]
  PROVE  cycles[w] # None /\ ~(seeder[s].force /\ w \in seeder[s].seen)
BY DEF Loaded, Kept

\* The page's weeks replace what the seed saw, and no others.
LEMMA CommitKeeps ==
  ASSUME SeedsInv, NEW s \in Seeders, Commit(s)
  PROVE  SeedsInv'
<1> DEFINE brought == WeeksOf[seeder[s].page]
           waits == \E t \in Seeders \ {s} : seeder[t].phase = "first" /\ seeder[t].force
<1>1. /\ seeder[s].phase = "loading" /\ plans' = seeder[s].page /\ cycles' = Loaded(s)
      /\ lock' = None /\ edited' = IF seeder[s].force THEN {} ELSE edited
  BY DEF Commit
<1>2. raced' = (raced \ seeder[s].seen) \cup {w \in brought : waits}
  BY DEF Commit
<1>3. /\ seeder' \in [Seeders -> Seeder] /\ seeder'[s] = NoSeed
      /\ NoSeed.phase = "idle" /\ NoSeed.seen = {}
      /\ \A t \in Seeders \ {s} :
           /\ seeder'[t].phase = seeder[t].phase /\ seeder'[t].force = seeder[t].force
           /\ seeder'[t].page = seeder[t].page
           /\ seeder'[t].seen = seeder[t].seen \ (seeder[s].seen \cup brought)
  BY CommitSteps
<1>4. lock = s /\ seeder[s] \in Seeder /\ seeder[s].page \in Pages /\ brought \in SUBSET Weeks
  BY <1>1, PageAssumption DEF SeedsInv, SeedTypeOK, Seeder
<1> HIDE DEF brought, waits
<1>5. \A t \in Seeders \ {s} : seeder[t].phase \notin {"cleared", "loading"}
  BY <1>4 DEF SeedsInv, SeedTypeOK
<1>6. SeedTypeOK'
  <2>1. cycles' \in [Weeks -> Cycle \cup {None}]
    BY <1>1, LoadedTyped DEF SeedsInv
  <2>2. edited' \in SUBSET Weeks /\ raced' \in SUBSET Weeks
    BY <1>1, <1>2, <1>4 DEF SeedsInv, SeedTypeOK
  <2>3. \A t \in Seeders : lock' = t <=> seeder'[t].phase \in {"cleared", "loading"}
    BY <1>1, <1>3, <1>5, NoneAssumption
  <2> QED
    BY <1>1, <1>3, <1>4, <2>1, <2>2, <2>3 DEF SeedTypeOK
<1>7. SeenInv'
  <2>1. ASSUME NEW t \in Seeders,
               ~seeder'[t].force \/ seeder'[t].phase \in {"idle", "counted"}
        PROVE  seeder'[t].seen = {}
    BY <1>3, <2>1 DEF SeedsInv, SeenInv
  <2>2. ASSUME NEW t \in Seeders, seeder'[t].phase \in {"first", "cleared", "loading"},
               seeder'[t].force, NEW w \in Weeks, cycles'[w] # None, w \notin seeder'[t].seen
        PROVE  w \in raced'
    <3>1. t # s /\ seeder[t].phase = "first" /\ seeder[t].force
      BY <1>3, <1>5, <2>2
    <3>2. CASE w \in brought
      BY <1>2, <3>1, <3>2 DEF waits
    <3>3. CASE w \notin brought
      <4>1. cycles[w] # None /\ ~(seeder[s].force /\ w \in seeder[s].seen)
        BY <1>1, <2>2, <3>3, LoadedThere DEF brought
      <4>2. w \notin seeder[s].seen
        BY <4>1 DEF SeedsInv, SeenInv
      <4>3. w \notin seeder[t].seen
        BY <1>3, <2>2, <3>1, <3>3, <4>2
      <4>4. w \in raced
        BY <3>1, <4>1, <4>3 DEF SeedsInv, SeenInv, There
      <4> QED
        BY <1>2, <4>2, <4>4
    <3> QED
      BY <3>2, <3>3
  <2> QED
    BY <2>1, <2>2 DEF SeenInv, There
<1>8. LoadInv'
  BY <1>3, <1>5 DEF LoadInv
<1>9. WeeksInv'
  <2> SUFFICES ASSUME NEW w \in Weeks, w \notin edited', w \notin raced'
               PROVE  cycles'[w] = IF plans' # None /\ w \in WeeksOf[plans']
                                     THEN [by |-> plans', days |-> TRUE] ELSE None
    BY DEF WeeksInv
  <2>1. plans' # None
    BY <1>1, <1>4, NoneAssumption
  <2>2. CASE w \in brought
    BY <1>1, <2>1, <2>2 DEF Loaded, brought
  <2>3. CASE w \notin brought /\ seeder[s].force
    <3>1. w \in seeder[s].seen \/ cycles[w] = None
      BY <1>1, <1>2, <2>3 DEF SeedsInv, SeenInv, There
    <3> QED
      BY <1>1, <2>1, <2>3, <3>1 DEF Loaded, Kept, brought
  <2>4. CASE w \notin brought /\ ~seeder[s].force
    <3>1. plans = None
      BY <1>1, <2>4 DEF SeedsInv, LoadInv, Clashes
    <3>2. seeder[s].seen = {}
      BY <2>4 DEF SeedsInv, SeenInv
    <3>3. cycles[w] = None
      BY <1>1, <1>2, <2>4, <3>1, <3>2 DEF SeedsInv, WeeksInv
    <3> QED
      BY <1>1, <2>1, <2>4, <3>3 DEF Loaded, Kept, brought
  <2> QED
    BY <2>2, <2>3, <2>4
<1> QED
  BY <1>6, <1>7, <1>8, <1>9 DEF SeedsInv

-----------------------------------------------------------------------------
\* The invariant is inductive.
LEMMA SeedsInvariance == SeedSpec => []SeedsInv
<1>1. SeedInit => SeedsInv
  <2> SUFFICES ASSUME SeedInit PROVE SeedsInv
    OBVIOUS
  <2>1. NoSeed.phase = "idle" /\ NoSeed.seen = {}
    BY DEF NoSeed
  <2>2. SeedTypeOK
    BY <2>1, IdleTyped, NoneAssumption DEF SeedInit, SeedTypeOK
  <2> QED
    BY <2>1, <2>2 DEF SeedInit, SeedsInv, SeenInv, LoadInv, WeeksInv
<1>2. SeedsInv /\ [SeedNext]_seedVars => SeedsInv'
  <2> SUFFICES ASSUME SeedsInv, [SeedNext]_seedVars PROVE SeedsInv'
    OBVIOUS
  <2>1. ASSUME NEW s \in Seeders, Seed(s) PROVE SeedsInv'
    BY <2>1, CountKeeps, FirstStatementKeeps, LockKeeps, LoadKeeps, CommitKeeps,
       SeedFails DEF Seed
  <2>2. ASSUME NEW w \in Weeks, SaveWeek(w) \/ DeleteWeek(w) PROVE SeedsInv'
    BY <2>2, SaveWeekKeeps, DeleteWeekKeeps
  <2>3. CASE UNCHANGED seedVars
    BY <2>3 DEF seedVars, SeedsInv, SeedTypeOK, SeenInv, LoadInv, WeeksInv,
                Clashes, There, Kept
  <2> QED
    BY <2>1, <2>2, <2>3 DEF SeedNext
<1> QED
  BY <1>1, <1>2, PTL DEF SeedSpec

\* Whatever seeds and admins do side by side, the content and each process are in
\* one of the states of the model, and at most one seed holds content_revision.
THEOREM SeedsTyped == SeedSpec => []SeedTypeOK
<1>1. SeedsInv => SeedTypeOK
  BY DEF SeedsInv
<1> QED
  BY <1>1, SeedsInvariance, PTL

\* After any number of seeds, forced or not, every week no admin saved or deleted
\* since and none that got past a waiting clearing statement is exactly what the
\* page in force shows: no week of an older page is left, none is without its days
\* (seed.go, seed_write.go).
THEOREM SeedsWhole == SeedSpec => []SeededWhole
<1>1. SeedsInv => SeededWhole
  BY DEF SeedsInv, WeeksInv, SeededWhole
<1> QED
  BY <1>1, SeedsInvariance, PTL

\* A seed without --force never replaces content: two that counted no plans at
\* the same time do not both load (seed.go).
THEOREM ForceReplaces == SeedSpec => OnlyForceReplaces
<1> DEFINE Replaces == \A s \in Seeders :
       (seeder[s].phase = "loading" /\ ~seeder[s].force /\ plans' # plans) => plans = None
<1>1. SeedsInv /\ [SeedNext]_seedVars => [Replaces]_seedVars
  <2> SUFFICES ASSUME SeedsInv, SeedNext, NEW s \in Seeders, seeder[s].phase = "loading",
                      ~seeder[s].force
               PROVE  plans = None
    OBVIOUS
  <2> QED
    BY DEF SeedsInv, LoadInv, Clashes
<1> QED
  BY <1>1, SeedsInvariance, PTL DEF SeedSpec, OnlyForceReplaces
=============================================================================
