----------------------- MODULE SiteConfigCache_proofs -----------------------
(* Proofs about SiteConfigCache, for every number of clients, writers,       *)
(* sections, revisions and weeks: IInv is inductive, the safety properties  *)
(* follow from it, and the service refines ConfigRegister.                  *)
EXTENDS SiteConfigCache, TLAPS

USE ConstantsAssumption

\* The initial state has the types.
LEMMA InitType == Init => TypeOK
<1> SUFFICES ASSUME Init PROVE TypeOK
  OBVIOUS
<1>1. Idle \in Calls
  BY DEF Idle, Calls, NoDoc, NoSnap, Bodies, Sections
<1>2. NoTx \in [rev : 0..MaxRevision, wrote : SUBSET Sections]
  BY DEF NoTx
<1>3. NoCopy \in [doc : Documents \union {NoDoc}, etag : 0..MaxRevision]
  BY DEF NoCopy
<1>4. [s \in Sections |-> 1] \in Bodies
  BY DEF Bodies
<1> QED
  BY <1>1, <1>2, <1>3, <1>4 DEF Init, TypeOK, Snapshots

\* Each step of a writer keeps the types.
LEMMA WriteType ==
  ASSUME TypeOK, LockInv, NEW w \in Writers, Write(w)
  PROVE  TypeOK'
<1>1. CASE \E s \in Sections : WriteStatement(w, s)
  BY <1>1 DEF WriteStatement, TypeOK
<1>2. CASE Commit(w)
  <2>1. tx[w].rev \in 1..MaxRevision
    BY <1>2 DEF Commit, TypeOK, LockInv
  <2>2. CommittedBody(w) \in Bodies
    BY <2>1 DEF CommittedBody, Bodies, TypeOK
  <2>3. NoTx \in [rev : 0..MaxRevision, wrote : SUBSET Sections]
    BY DEF NoTx
  <2> QED
    BY <1>2, <2>1, <2>2, <2>3 DEF Commit, TypeOK, Snapshots
<1>3. CASE Rollback(w)
  BY <1>3 DEF Rollback, TypeOK, NoTx
<1>4. CASE Invalidate(w)
  BY <1>4 DEF Invalidate, TypeOK
<1> QED
  BY <1>1, <1>2, <1>3, <1>4 DEF Write

\* Giving one client another record of the right type keeps call well typed.
LEMMA CallUpdate ==
  ASSUME call \in [Clients -> Calls], NEW c \in Clients, NEW r \in Calls,
         call' = [call EXCEPT ![c] = r]
  PROVE  call' \in [Clients -> Calls]
OBVIOUS

\* So is the record of a handler at rest.
LEMMA IdleType == Idle \in Calls
BY DEF Idle, Calls, NoDoc, NoSnap, Bodies, Sections

\* Each step of a request keeps the types.
LEMMA RequestType ==
  ASSUME TypeOK, NEW c \in Clients, CallInv(c), Request(c)
  PROVE  TypeOK'
<1>a. call \in [Clients -> Calls]
  BY DEF TypeOK
<1>0. /\ call[c] \in Calls
      /\ revision \in 0..MaxRevision
      /\ week \in 0..MaxWeek
      /\ copy[c].etag \in 0..MaxRevision
      /\ body \in Bodies
  BY DEF TypeOK
<1>z. /\ 0 \in 0..MaxRevision /\ 1 \in 1..(NSections + 1)
      /\ NoSnap \in [rev : 0..MaxRevision, body : Bodies]
  BY ConstantsAssumption DEF NoSnap, Bodies
<1>1. CASE StartPage(c)
  <2>1. [Idle EXCEPT !.pc = "tag", !.waiting = TRUE,
                     !.inm = copy[c].etag, !.floor = revision, !.asked = week] \in Calls
    BY <1>0, IdleType, Zenon DEF Calls
  <2>2. call' \in [Clients -> Calls]
    BY <1>a, <1>0, <1>1, <2>1, CallUpdate DEF StartPage
  <2> QED
    BY <1>1, <2>2 DEF StartPage, TypeOK
<1>2. CASE StartGet(c)
  <2>1. [Idle EXCEPT !.pc = "revision",
                     !.floor = revision, !.asked = week] \in Calls
    BY <1>0, IdleType, Zenon DEF Calls
  <2>2. call' \in [Clients -> Calls]
    BY <1>a, <1>0, <1>2, <2>1, CallUpdate DEF StartGet
  <2> QED
    BY <1>2, <2>2 DEF StartGet, TypeOK
<1>3. CASE CheckTag(c)
  <2>1. [call[c] EXCEPT !.pc = "reply", !.inm = 0, !.etag = revision, !.status = "NotModified"] \in Calls
    BY <1>0, <1>z, Zenon DEF Calls
  <2>2. [call[c] EXCEPT !.pc = "revision", !.inm = 0, !.etag = revision] \in Calls
    BY <1>0, <1>z, Zenon DEF Calls
  <2>3. call' \in [Clients -> Calls]
    <3>1. CASE call[c].inm = revision
      BY <1>a, <1>0, <1>3, <2>1, <3>1, CallUpdate DEF CheckTag
    <3>2. CASE call[c].inm # revision
      BY <1>a, <1>0, <1>3, <2>2, <3>2, CallUpdate DEF CheckTag
    <3> QED
      BY <3>1, <3>2
  <2> QED
    BY <1>3, <2>3 DEF CheckTag, TypeOK
<1>4. CASE ReadRevision(c)
  <2>1. [call[c] EXCEPT !.pc = "peek", !.rev = revision] \in Calls
    BY <1>0, Zenon DEF Calls
  <2>2. call' \in [Clients -> Calls]
    BY <1>a, <1>0, <1>4, <2>1, CallUpdate DEF ReadRevision
  <2> QED
    BY <1>4, <2>2 DEF ReadRevision, TypeOK
<1>5. CASE Peek(c)
  <2>1. cached \in [rev : 0..MaxRevision, body : Bodies, week : 0..MaxWeek]
    BY DEF TypeOK, Documents, NoDoc, Bodies
  <2>2. [call[c] EXCEPT !.pc = "reply", !.rev = 0, !.status = "OK", !.doc = cached] \in Calls
    BY <1>0, <1>z, <2>1, Zenon DEF Calls
  <2>3. [call[c] EXCEPT !.pc = "begin", !.rev = 0] \in Calls
    BY <1>0, <1>z, Zenon DEF Calls
  <2>4. call' \in [Clients -> Calls]
    <3>1. CASE CacheHit(c)
      BY <1>a, <1>0, <1>5, <2>2, <3>1, CallUpdate DEF Peek
    <3>2. CASE ~CacheHit(c)
      BY <1>a, <1>0, <1>5, <2>3, <3>2, CallUpdate DEF Peek
    <3> QED
      BY <3>1, <3>2
  <2> QED
    BY <1>5, <2>4 DEF Peek, TypeOK
<1>6. CASE BeginLoad(c)
  <2>1. [NoDoc EXCEPT !.rev = revision] \in
           [rev : 0..MaxRevision, body : Bodies, week : 0..MaxWeek]
    BY <1>0 DEF NoDoc, Bodies
  <2>2. [rev |-> revision, body |-> body] \in [rev : 0..MaxRevision, body : Bodies]
    BY <1>0
  <2>3. [call[c] EXCEPT !.pc = "load",
                        !.snap = [rev |-> revision, body |-> body],
                        !.doc = [NoDoc EXCEPT !.rev = revision]] \in Calls
    BY <1>0, <2>1, <2>2, Zenon DEF Calls
  <2>4. call' \in [Clients -> Calls]
    BY <1>a, <1>0, <1>6, <2>3, CallUpdate DEF BeginLoad
  <2> QED
    BY <1>6, <2>4 DEF BeginLoad, TypeOK
<1>7. CASE LoadSection(c)
  <2>1. SectionRead(c, call[c].next) \in 0..MaxRevision
    BY <1>0, <1>7 DEF LoadSection, SectionRead, Calls, Bodies
  <2>2. call[c].next + 1 \in 1..(NSections + 1)
    BY <1>0, <1>7 DEF LoadSection, Calls, Sections
  <2>3. WithSection(c) \in [rev : 0..MaxRevision, body : Bodies, week : 0..MaxWeek]
    BY <1>0, <2>1 DEF WithSection, Calls, Bodies
  <2>4. [call[c] EXCEPT !.doc = WithSection(c), !.next = call[c].next + 1] \in Calls
    BY <1>0, <2>2, <2>3, Zenon DEF Calls
  <2>5. call' \in [Clients -> Calls]
    BY <1>a, <1>0, <1>7, <2>4, CallUpdate DEF LoadSection
  <2> QED
    BY <1>7, <2>5 DEF LoadSection, TypeOK
<1>8. CASE FinishLoad(c)
  <2>1. ResolvedDoc(c) \in [rev : 0..MaxRevision, body : Bodies, week : 0..MaxWeek]
    BY <1>0 DEF ResolvedDoc, Calls
  <2>2. [call[c] EXCEPT !.pc = "store", !.snap = NoSnap, !.next = 1, !.doc = ResolvedDoc(c)] \in Calls
    BY <1>0, <1>z, <2>1, Zenon DEF Calls
  <2>3. call' \in [Clients -> Calls]
    BY <1>a, <1>0, <1>8, <2>2, CallUpdate DEF FinishLoad
  <2> QED
    BY <1>8, <2>3 DEF FinishLoad, TypeOK
<1>9. CASE StoreCache(c)
  <2>1. call[c].doc \in Documents
    BY <1>9 DEF StoreCache, CallInv, Publishable
  <2>2. [call[c] EXCEPT !.pc = "reply", !.status = "OK"] \in Calls
    BY <1>0, Zenon DEF Calls
  <2>3. call' \in [Clients -> Calls]
    BY <1>a, <1>0, <1>9, <2>2, CallUpdate DEF StoreCache
  <2> QED
    BY <1>9, <2>1, <2>3 DEF StoreCache, TypeOK
<1>10. CASE QueryFails(c)
  <2>1. call' \in [Clients -> Calls]
    BY <1>a, <1>0, <1>10, IdleType, CallUpdate DEF QueryFails
  <2> QED
    BY <1>10, <2>1 DEF QueryFails, TypeOK
<1>11. CASE GiveUp(c)
  <2>1. [call[c] EXCEPT !.waiting = FALSE] \in Calls
    BY <1>0 DEF Calls
  <2>2. call' \in [Clients -> Calls]
    BY <1>a, <1>0, <1>11, <2>1, CallUpdate DEF GiveUp
  <2> QED
    BY <1>11, <2>2 DEF GiveUp, TypeOK
<1>12. CASE Deliver(c)
  <2>1. call[c].pc = "reply" /\ call[c].status = "OK" => call[c].doc \in Documents
    BY DEF CallInv, Publishable
  <2>2. call' \in [Clients -> Calls]
    BY <1>a, <1>0, <1>12, IdleType, CallUpdate DEF Deliver
  <2>3. call[c].etag \in 0..MaxRevision
    BY <1>0 DEF Calls
  <2>4. copy' \in [Clients -> [doc : Documents \union {NoDoc}, etag : 0..MaxRevision]]
    BY <1>12, <2>1, <2>3 DEF Deliver, StoredCopy, TypeOK
  <2> QED
    BY <1>12, <2>2, <2>4 DEF Deliver, TypeOK
<1> QED
  BY <1>1, <1>2, <1>3, <1>4, <1>5, <1>6, <1>7, <1>8, <1>9, <1>10, <1>11, <1>12
     DEF Request, Get

\* Every step, of whatever actor, keeps the types.
LEMMA StepType ==
  ASSUME TypeOK, LockInv, \A c \in Clients : CallInv(c), [Next]_vars
  PROVE  TypeOK'
<1>1. CASE \E w \in Writers : Write(w)
  BY <1>1, WriteType
<1>2. CASE \E c \in Clients : Request(c)
  BY <1>2, RequestType
<1>3. CASE Restart
  <2>1. NoTx \in [rev : 0..MaxRevision, wrote : SUBSET Sections]
    BY DEF NoTx
  <2> QED
    BY <1>3, <2>1, IdleType DEF Restart, TypeOK
<1>4. CASE NextWeek
  BY <1>4 DEF NextWeek, TypeOK
<1>5. CASE UNCHANGED vars
  BY <1>5 DEF vars, TypeOK
<1> QED
  BY <1>1, <1>2, <1>3, <1>4, <1>5 DEF Next

----------------------------------------------------------------------------
(* The rest of the inductive invariant. *)

\* The initial state: one snapshot, an empty cache, nobody asking.
LEMMA InitIInv == Init => IInv
<1> SUFFICES ASSUME Init PROVE IInv
  OBVIOUS
<1>1. TypeOK
  BY InitType
<1>2. HistoryInv
  BY DEF Init, HistoryInv, Published, RevisionNamesOneContent
<1>3. LockInv
  BY DEF Init, LockInv
<1>4. CacheInv
  BY DEF Init, CacheInv
<1>5. \A c \in Clients : CallInv(c) /\ CopyInv(c)
  <2> SUFFICES ASSUME NEW c \in Clients PROVE CallInv(c) /\ CopyInv(c)
    OBVIOUS
  <2>1. call[c] = Idle /\ copy[c] = NoCopy /\ revision = 1
    BY DEF Init
  <2>2. CallInv(c)
    BY <2>1 DEF CallInv, Idle
  <2>3. CopyInv(c)
    BY <2>1 DEF CopyInv, NoCopy, NoDoc
  <2> QED
    BY <2>2, <2>3
<1> QED
  BY <1>1, <1>2, <1>3, <1>4, <1>5 DEF IInv

\* History only grows, so what a client has established survives the steps of
\* everybody else.
LEMMA Survives ==
  ASSUME NEW c \in Clients, IInv, TypeOK', snapshots \subseteq snapshots',
         revision <= revision', call'[c] = call[c], copy'[c] = copy[c]
  PROVE  CallInv(c)' /\ CopyInv(c)'
<1> USE DEF IInv
<1>1. CopyInv(c)'
  BY DEF CopyInv, Content
<1>2. /\ call[c].floor \in Nat /\ call[c].etag \in Nat
      /\ revision \in Nat /\ revision' \in Nat
  BY DEF TypeOK, Calls
<1>3. call[c].floor <= revision' /\ call[c].etag <= revision'
  BY <1>2 DEF CallInv
<1>4. \A d : Publishable(c, d) => Publishable(c, d)'
  BY DEF Publishable, Content
<1>5. CallInv(c)'
  BY <1>3, <1>4 DEF CallInv, Content
<1> QED
  BY <1>1, <1>5

\* A commit extends the history with a revision no snapshot has.
LEMMA CommitHistory ==
  ASSUME IInv, NEW w \in Writers, Commit(w)
  PROVE  HistoryInv' /\ snapshots \subseteq snapshots' /\ revision < revision'
<1>1. /\ tx[w].rev \in Nat /\ revision \in Nat
      /\ revision < tx[w].rev /\ revision' = tx[w].rev
  BY DEF Commit, IInv, TypeOK, LockInv
<1>2. snapshots' = snapshots \union {[rev |-> revision', body |-> body']}
  BY DEF Commit
<1>3. \A s \in snapshots : s.rev \in Nat /\ s.rev <= revision
  BY DEF IInv, TypeOK, Snapshots, HistoryInv
<1>4. \A s \in snapshots' : s.rev <= revision'
  BY <1>1, <1>2, <1>3
<1>5. RevisionNamesOneContent'
  <2> SUFFICES ASSUME NEW a \in snapshots', NEW b \in snapshots', a.rev = b.rev
               PROVE  a = b
    BY DEF RevisionNamesOneContent
  <2>1. CASE a \in snapshots /\ b \in snapshots
    BY <2>1 DEF IInv, HistoryInv, RevisionNamesOneContent
  <2>2. CASE a \notin snapshots \/ b \notin snapshots
    BY <1>1, <1>2, <1>3, <2>2
  <2> QED
    BY <2>1, <2>2
<1> QED
  BY <1>1, <1>2, <1>4, <1>5 DEF HistoryInv, Published

\* A writer's step keeps the invariant: only Commit touches what readers rely on,
\* and it only adds to it.
LEMMA WriteIInv ==
  ASSUME IInv, TypeOK', NEW w \in Writers, Write(w)
  PROVE  IInv'
<1>1. CASE \E s \in Sections : WriteStatement(w, s)
  <2> PICK s \in Sections : WriteStatement(w, s)
    BY <1>1
  <2>1. LockInv'
    BY DEF WriteStatement, BumpLockFree, LockInv, IInv, TypeOK
  <2>2. HistoryInv' /\ CacheInv'
    BY DEF WriteStatement, IInv, HistoryInv, Published, RevisionNamesOneContent, CacheInv, Content
  <2>3. \A c \in Clients : CallInv(c)' /\ CopyInv(c)'
    BY Survives DEF WriteStatement, IInv, TypeOK
  <2> QED
    BY <2>1, <2>2, <2>3 DEF IInv
<1>2. CASE Commit(w)
  <2>1. HistoryInv' /\ snapshots \subseteq snapshots' /\ revision < revision'
    BY <1>2, CommitHistory
  <2>2. LockInv'
    BY <1>2 DEF Commit, LockInv, IInv, TypeOK
  <2>3. CacheInv'
    BY <1>2, <2>1 DEF Commit, CacheInv, IInv, Content
  <2>4. \A c \in Clients : CallInv(c)' /\ CopyInv(c)'
    BY <1>2, <2>1, Survives DEF Commit, IInv, TypeOK
  <2> QED
    BY <2>1, <2>2, <2>3, <2>4 DEF IInv
<1>3. CASE Rollback(w)
  <2>1. LockInv'
    BY <1>3 DEF Rollback, LockInv, IInv, TypeOK
  <2>2. HistoryInv' /\ CacheInv'
    BY <1>3 DEF Rollback, IInv, HistoryInv, Published, RevisionNamesOneContent, CacheInv, Content
  <2>3. \A c \in Clients : CallInv(c)' /\ CopyInv(c)'
    BY <1>3, Survives DEF Rollback, IInv, TypeOK
  <2> QED
    BY <2>1, <2>2, <2>3 DEF IInv
<1>4. CASE Invalidate(w)
  <2>1. LockInv'
    BY <1>4 DEF Invalidate, LockInv, IInv, TypeOK
  <2>2. HistoryInv' /\ CacheInv'
    BY <1>4 DEF Invalidate, IInv, HistoryInv, Published, RevisionNamesOneContent, CacheInv
  <2>3. \A c \in Clients : CallInv(c)' /\ CopyInv(c)'
    BY <1>4, Survives DEF Invalidate, IInv, TypeOK
  <2> QED
    BY <2>1, <2>2, <2>3 DEF IInv
<1> QED
  BY <1>1, <1>2, <1>3, <1>4 DEF Write

\* A request's own step re-establishes what its next program point claims.
LEMMA RequestCall ==
  ASSUME IInv, TypeOK', NEW c \in Clients, Request(c)
  PROVE  CallInv(c)' /\ CopyInv(c)'
<1>0. /\ CallInv(c) /\ CopyInv(c)
      /\ revision \in 1..MaxRevision
      /\ call[c] \in Calls /\ call'[c] \in Calls
      /\ copy[c] \in [doc : Documents \union {NoDoc}, etag : 0..MaxRevision]
  BY DEF IInv, TypeOK
<1>b. /\ call \in [Clients -> Calls]
      /\ copy \in [Clients -> [doc : Documents \union {NoDoc}, etag : 0..MaxRevision]]
  BY DEF IInv, TypeOK
<1>1. CASE StartPage(c)
  <2>1. call'[c] = [Idle EXCEPT !.pc = "tag", !.waiting = TRUE,
           !.inm = copy[c].etag, !.floor = revision, !.asked = week]
    BY <1>b, <1>1 DEF StartPage
  <2>2. CallInv(c)'
    BY <1>0, <1>1, <2>1 DEF StartPage, CallInv, Idle
  <2> QED
    BY <1>0, <1>1, <2>2 DEF StartPage, CopyInv
<1>2. CASE StartGet(c)
  <2>1. call'[c] = [Idle EXCEPT !.pc = "revision",
           !.floor = revision, !.asked = week]
    BY <1>b, <1>2 DEF StartGet
  <2>2. CallInv(c)'
    BY <1>0, <1>2, <2>1 DEF StartGet, CallInv, Idle
  <2> QED
    BY <1>0, <1>2, <2>2 DEF StartGet, CopyInv
<1>3. CASE CheckTag(c)
  <2>1. CASE call[c].inm = revision
    <3>1. call'[c] = [call[c] EXCEPT !.pc = "reply", !.inm = 0, !.etag = revision, !.status = "NotModified"]
      BY <1>b, <1>3, <2>1 DEF CheckTag
    <3>2. copy[c] # NoCopy /\ revision <= copy[c].doc.rev
      BY <1>0, <1>3, <2>1 DEF CheckTag, CallInv, CopyInv, NoCopy
    <3>3. call[c].floor <= copy[c].doc.rev
      BY <1>0, <3>2 DEF CallInv, Calls, Documents, NoDoc
    <3>4. CallInv(c)'
      BY <1>0, <1>3, <3>1, <3>2, <3>3 DEF CheckTag, CallInv, CopyInv, Calls
    <3> QED
      BY <1>0, <1>3, <3>4 DEF CheckTag, CopyInv
  <2>2. CASE call[c].inm # revision
    <3>1. call'[c] = [call[c] EXCEPT !.pc = "revision", !.inm = 0, !.etag = revision]
      BY <1>b, <1>3, <2>2 DEF CheckTag
    <3>2. /\ call'[c].pc = "revision" /\ call'[c].etag = revision
          /\ call'[c].floor = call[c].floor /\ call'[c].status = call[c].status
          /\ call'[c].next = call[c].next
      BY <1>0, <3>1 DEF Calls
    <3>3. CallInv(c)'
      BY <1>0, <1>3, <3>2 DEF CheckTag, CallInv
    <3> QED
      BY <1>0, <1>3, <3>3 DEF CheckTag, CopyInv
  <2> QED
    BY <2>1, <2>2
<1>4. CASE ReadRevision(c)
  <2>1. call'[c] = [call[c] EXCEPT !.pc = "peek", !.rev = revision]
    BY <1>b, <1>4 DEF ReadRevision
  <2>2. CallInv(c)'
    BY <1>0, <1>4, <2>1 DEF ReadRevision, CallInv, Calls
  <2> QED
    BY <1>0, <1>4, <2>2 DEF ReadRevision, CopyInv
<1>5. CASE Peek(c)
  <2>1. CASE CacheHit(c)
    <3>1. call'[c] = [call[c] EXCEPT !.pc = "reply", !.rev = 0, !.status = "OK", !.doc = cached]
      BY <1>b, <1>5, <2>1 DEF Peek
    <3>2. cached \in Documents /\ Content(cached) \in snapshots
      BY <2>1 DEF CacheHit, CacheInv, TypeOK, IInv
    <3>3. call[c].floor <= cached.rev /\ call[c].etag <= cached.rev
      BY <1>0, <1>5, <2>1 DEF Peek, CacheHit, CallInv
    <3>4. CallInv(c)'
      BY <1>0, <1>5, <3>1, <3>2, <3>3 DEF Peek, CallInv, Publishable, Content, Calls
    <3> QED
      BY <1>0, <1>5, <3>4 DEF Peek, CopyInv
  <2>2. CASE ~CacheHit(c)
    <3>1. call'[c] = [call[c] EXCEPT !.pc = "begin", !.rev = 0]
      BY <1>b, <1>5, <2>2 DEF Peek
    <3>2. /\ call'[c].pc = "begin" /\ call'[c].etag = call[c].etag
          /\ call'[c].floor = call[c].floor /\ call'[c].status = call[c].status
          /\ call'[c].next = call[c].next
      BY <1>0, <3>1 DEF Calls
    <3>3. CallInv(c)'
      BY <1>0, <1>5, <3>2 DEF Peek, CallInv
    <3> QED
      BY <1>0, <1>5, <3>3 DEF Peek, CopyInv
  <2> QED
    BY <2>1, <2>2
<1>6. CASE BeginLoad(c)
  <2>1. call'[c] = [call[c] EXCEPT !.pc = "load",
                      !.snap = [rev |-> revision, body |-> body],
                      !.doc = [NoDoc EXCEPT !.rev = revision]]
    BY <1>b, <1>6 DEF BeginLoad
  <2>2. call[c].next = 1
    BY <1>0, <1>6 DEF BeginLoad, CallInv
  <2>3. /\ call'[c].pc = "load" /\ call'[c].etag = call[c].etag
        /\ call'[c].floor = call[c].floor /\ call'[c].status = call[c].status
        /\ call'[c].next = call[c].next
        /\ call'[c].snap = [rev |-> revision, body |-> body]
        /\ call'[c].doc = [NoDoc EXCEPT !.rev = revision]
    BY <1>0, <2>1 DEF Calls
  <2>4. call'[c].doc.rev = revision
    BY <2>3 DEF NoDoc
  <2>5. \A s \in Sections : ~(s < 1)
    BY DEF Sections
  <2>6. [rev |-> revision, body |-> body] \in snapshots
    BY DEF IInv, HistoryInv, Published
  <2>7. CallInv(c)'
    BY <1>0, <1>6, <2>2, <2>3, <2>4, <2>5, <2>6 DEF BeginLoad, CallInv
  <2> QED
    BY <1>0, <1>6, <2>7 DEF BeginLoad, CopyInv
<1>7. CASE LoadSection(c)
  <2>1. call'[c] = [call[c] EXCEPT !.doc = WithSection(c), !.next = call[c].next + 1]
    BY <1>b, <1>7 DEF LoadSection
  <2>2. /\ WithSection(c).rev = call[c].doc.rev
        /\ \A s \in Sections : WithSection(c).body[s] =
             IF s = call[c].next THEN call[c].snap.body[s] ELSE call[c].doc.body[s]
    BY <1>0 DEF WithSection, SectionRead, Calls, Bodies
  <2>3. \A s \in Sections : s < call[c].next + 1 =>
           WithSection(c).body[s] = call[c].snap.body[s]
    BY <1>0, <1>7, <2>2 DEF LoadSection, CallInv, Calls, Sections
  <2>4. CallInv(c)'
    BY <1>0, <1>7, <2>1, <2>2, <2>3 DEF LoadSection, CallInv, Calls
  <2> QED
    BY <1>0, <1>7, <2>4 DEF LoadSection, CopyInv
<1>8. CASE FinishLoad(c)
  <2>1. call'[c] = [call[c] EXCEPT !.pc = "store", !.snap = NoSnap, !.next = 1, !.doc = ResolvedDoc(c)]
    BY <1>b, <1>8 DEF FinishLoad
  <2>2. call[c].snap \in snapshots /\ call[c].snap \in Snapshots
    BY <1>0, <1>8 DEF FinishLoad, CallInv, IInv, TypeOK
  <2>3. /\ ResolvedDoc(c).rev = call[c].snap.rev
        /\ ResolvedDoc(c).body = call[c].doc.body
        /\ ResolvedDoc(c).week = week
    <3>1. ResolvedDoc(c) = [call[c].doc EXCEPT !.week = week]
      BY DEF ResolvedDoc
    <3>2. call[c].doc \in [rev : 0..MaxRevision, body : Bodies, week : 0..MaxWeek]
      BY <1>0 DEF Calls
    <3>3. call[c].doc.rev = call[c].snap.rev
      BY <1>0, <1>8 DEF FinishLoad, CallInv
    <3> QED
      BY <3>1, <3>2, <3>3
  <2>4. call[c].doc.body = call[c].snap.body
    <3>1. \A s \in Sections : call[c].doc.body[s] = call[c].snap.body[s]
      BY <1>0, <1>8 DEF FinishLoad, CallInv, Sections
    <3>2. call[c].doc.body \in Bodies /\ call[c].snap.body \in Bodies
      BY <1>0 DEF Calls
    <3> QED
      BY <3>1, <3>2 DEF Bodies
  <2>5. ResolvedDoc(c) \in Documents /\ Content(ResolvedDoc(c)) \in snapshots
    BY <1>0, <2>2, <2>3, <2>4 DEF ResolvedDoc, Content, Documents, Snapshots, IInv, TypeOK, Calls
  <2>6. call[c].floor <= ResolvedDoc(c).rev /\ call[c].etag <= ResolvedDoc(c).rev
    BY <1>0, <1>8, <2>3 DEF FinishLoad, CallInv
  <2>7. CallInv(c)'
    BY <1>0, <1>8, <2>1, <2>5, <2>6 DEF FinishLoad, CallInv, Publishable, Content, Calls
  <2> QED
    BY <1>0, <1>8, <2>7 DEF FinishLoad, CopyInv
<1>9. CASE StoreCache(c)
  <2>1. call'[c] = [call[c] EXCEPT !.pc = "reply", !.status = "OK"]
    BY <1>b, <1>9 DEF StoreCache
  <2>2. CallInv(c)'
    BY <1>0, <1>9, <2>1 DEF StoreCache, CallInv, Publishable, Content, Calls
  <2> QED
    BY <1>0, <1>9, <2>2 DEF StoreCache, CopyInv
<1>10. CASE QueryFails(c)
  <2>1. call'[c] = Idle
    BY <1>b, <1>10 DEF QueryFails
  <2>2. CallInv(c)'
    BY <1>0, <1>10, <2>1 DEF QueryFails, CallInv, Idle
  <2> QED
    BY <1>0, <1>10, <2>2 DEF QueryFails, CopyInv
<1>11. CASE GiveUp(c)
  <2>1. call'[c] = [call[c] EXCEPT !.waiting = FALSE]
    BY <1>b, <1>11 DEF GiveUp
  <2>2. CallInv(c)'
    BY <1>0, <1>11, <2>1 DEF GiveUp, CallInv, Publishable, Content, Calls
  <2> QED
    BY <1>0, <1>11, <2>2 DEF GiveUp, CopyInv
<1>12. CASE Deliver(c)
  <2>1. call'[c] = Idle
    BY <1>b, <1>12 DEF Deliver
  <2>2. CallInv(c)'
    BY <1>0, <1>12, <2>1 DEF Deliver, CallInv, Idle
  <2>3. \/ copy'[c] = copy[c]
        \/ copy'[c] = StoredCopy(c) /\ call[c].status = "OK"
    <3>1. CASE UNCHANGED copy
      BY <3>1
    <3>2. CASE ~UNCHANGED copy
      BY <1>b, <1>12, <3>2 DEF Deliver
    <3> QED
      BY <3>1, <3>2
  <2>4. CopyInv(c)'
    BY <1>0, <1>12, <2>3 DEF Deliver, CopyInv, CallInv, Publishable, StoredCopy, Content
  <2> QED
    BY <2>2, <2>4
<1> QED
  BY <1>1, <1>2, <1>3, <1>4, <1>5, <1>6, <1>7, <1>8, <1>9, <1>10, <1>11, <1>12
     DEF Request, Get

\* A request's step keeps the invariant for its own client and for the others.
LEMMA RequestIInv ==
  ASSUME IInv, TypeOK', NEW c \in Clients, Request(c)
  PROVE  IInv'
<1> USE DEF Request, Get, StartPage, StartGet, CheckTag, ReadRevision, Peek, BeginLoad,
            LoadSection, FinishLoad, StoreCache, QueryFails, GiveUp, Deliver
<1>1. /\ UNCHANGED <<revision, body, snapshots, tx, wpc, week>>
      /\ \A d \in Clients \ {c} : call'[d] = call[d] /\ copy'[d] = copy[d]
  BY DEF IInv, TypeOK
<1>2. HistoryInv' /\ LockInv'
  BY <1>1 DEF IInv, HistoryInv, Published, RevisionNamesOneContent, LockInv
<1>3. cached' = cached \/ (call[c].pc = "store" /\ cached' = call[c].doc)
  OBVIOUS
<1>4. CacheInv'
  BY <1>1, <1>3 DEF IInv, CacheInv, CallInv, Publishable, Content
<1>5. revision <= revision'
  BY <1>1 DEF IInv, TypeOK
<1>6. \A d \in Clients \ {c} : CallInv(d)' /\ CopyInv(d)'
  BY <1>1, <1>5, Survives
<1>7. CallInv(c)' /\ CopyInv(c)'
  BY RequestCall
<1> QED
  BY <1>2, <1>4, <1>6, <1>7 DEF IInv

\* The invariant is inductive.
LEMMA NextIInv == IInv /\ [Next]_vars => IInv'
<1> SUFFICES ASSUME IInv, [Next]_vars PROVE IInv'
  OBVIOUS
<1>1. TypeOK'
  BY StepType DEF IInv
<1>2. CASE \E w \in Writers : Write(w)
  BY <1>1, <1>2, WriteIInv
<1>3. CASE \E c \in Clients : Request(c)
  BY <1>1, <1>3, RequestIInv
<1>4. CASE Restart
  <2>1. HistoryInv' /\ LockInv' /\ CacheInv'
    BY <1>4 DEF Restart, IInv, HistoryInv, Published, RevisionNamesOneContent, LockInv,
                CacheInv, TypeOK, ConstantsAssumption
  <2> SUFFICES ASSUME NEW c \in Clients PROVE CallInv(c)' /\ CopyInv(c)'
    BY <1>1, <2>1 DEF IInv
  <2>2. call'[c] = Idle /\ revision' \in Nat
    BY <1>4 DEF Restart, IInv, TypeOK
  <2>3. CallInv(c)'
    BY <2>2 DEF CallInv, Idle
  <2> QED
    BY <1>4, <2>3 DEF Restart, IInv, CopyInv, Content
<1>5. CASE NextWeek
  <2>1. HistoryInv' /\ LockInv' /\ CacheInv'
    BY <1>5 DEF NextWeek, IInv, HistoryInv, Published, RevisionNamesOneContent, LockInv, CacheInv
  <2>2. \A c \in Clients : CallInv(c)' /\ CopyInv(c)'
    BY <1>1, <1>5, Survives DEF NextWeek, IInv, TypeOK
  <2> QED
    BY <1>1, <2>1, <2>2 DEF IInv
<1>6. CASE UNCHANGED vars
  <2>1. HistoryInv' /\ LockInv' /\ CacheInv'
    BY <1>6 DEF vars, IInv, HistoryInv, Published, RevisionNamesOneContent, LockInv, CacheInv
  <2>2. \A c \in Clients : CallInv(c)' /\ CopyInv(c)'
    BY <1>1, <1>6, Survives DEF vars, IInv, TypeOK
  <2> QED
    BY <1>1, <2>1, <2>2 DEF IInv
<1> QED
  BY <1>2, <1>3, <1>4, <1>5, <1>6 DEF Next

\* The invariant holds in every reachable state.
LEMMA Invariance == Spec => []IInv
<1>1. Init => IInv
  BY InitIInv
<1>2. IInv /\ [Next]_vars => IInv'
  BY NextIInv
<1> QED
  BY <1>1, <1>2, PTL DEF Spec

----------------------------------------------------------------------------
(* The properties. *)

\* Every variable keeps its type, and the cache only ever holds a document that
\* was completely loaded and resolved.
THEOREM TypeCorrect == Spec => []TypeOK
<1>1. IInv => TypeOK
  BY DEF IInv
<1> QED
  BY <1>1, Invariance, PTL

\* A revision names one content, for any number of concurrent writers.
THEOREM RevisionsNameContent == Spec => []RevisionNamesOneContent
<1>1. IInv => RevisionNamesOneContent
  BY DEF IInv, HistoryInv
<1> QED
  BY <1>1, Invariance, PTL

\* No document cached, stored or served mixes two states of the database.
THEOREM DocumentsWhole == Spec => []DocumentsAreSnapshots
<1>1. IInv => DocumentsAreSnapshots
  BY DEF IInv, DocumentsAreSnapshots, CacheInv, CallInv, CopyInv, Publishable, Served
<1> QED
  BY <1>1, Invariance, PTL

\* An edit committed before a request arrives is in the answer, whichever of
\* body, cache hit and 304 the answer is.
THEOREM EditsLive == Spec => []EditsLiveOnNextRequest
<1>1. IInv => EditsLiveOnNextRequest
  BY DEF IInv, EditsLiveOnNextRequest, CallInv, Publishable, Served
<1> QED
  BY <1>1, Invariance, PTL

\* The ETag a browser will send never claims more than the body it holds.
THEOREM TagsHonest == Spec => []TagNotAheadOfCopy
<1>1. IInv => TagNotAheadOfCopy
  BY DEF IInv, TagNotAheadOfCopy, CopyInv
<1> QED
  BY <1>1, Invariance, PTL

----------------------------------------------------------------------------
(* Refinement: the service implements ConfigRegister. *)

\* The operation of a client is a function of its request, of its copy and of
\* the history.
LEMMA OpUnchanged ==
  ASSUME NEW c \in Clients, call'[c] = call[c], copy'[c] = copy[c],
         snapshots' = snapshots
  PROVE  Op(c)' = Op(c)
BY DEF Op, Served, Content

\* When a request arrives, the committed state is all it may return.
LEMMA InvokeValues ==
  ASSUME IInv
  PROVE  {s \in snapshots : s.rev >= revision} = {Published}
<1>1. Published \in snapshots /\ Published.rev = revision /\ revision \in Nat
  BY DEF IInv, HistoryInv, Published, TypeOK
<1>2. ASSUME NEW s \in snapshots, s.rev >= revision PROVE s = Published
  <2>1. s.rev \in Nat /\ s.rev <= revision
    BY DEF IInv, HistoryInv, TypeOK, Snapshots
  <2>2. s.rev = Published.rev
    BY <1>1, <1>2, <2>1
  <2> QED
    BY <1>1, <2>2 DEF IInv, HistoryInv, RevisionNamesOneContent
<1> QED
  BY <1>1, <1>2

\* An answer is one of the states its request may return.
LEMMA ReturnValue ==
  ASSUME IInv, IInv', NEW c \in Clients, call[c].pc \notin {"idle", "reply"},
         call'[c].pc = "reply", call'[c].floor = call[c].floor, snapshots' = snapshots
  PROVE  /\ Content(Served(c))' \in Op(c).values
         /\ Op(c).state = "pending"
         /\ Op(c)' = [state |-> "returned", values |-> {Content(Served(c))'}]
<1>1. CallInv(c)' /\ CopyInv(c)' /\ call'[c] \in Calls /\ copy'[c].doc.rev \in Nat
  BY DEF IInv, TypeOK, Documents, NoDoc
<1>2. /\ Content(Served(c))' \in snapshots
      /\ Content(Served(c))'.rev >= call[c].floor
  BY <1>1 DEF CallInv, Publishable, Served, Content, Calls
<1> QED
  BY <1>2 DEF Op

\* A COMMIT is the register's Publish: a higher revision, seen by every read
\* that is still waiting for its answer.
LEMMA CommitRefines ==
  ASSUME IInv, NEW w \in Writers, Commit(w), Published' \in Snapshots
  PROVE  Register!Publish
<1>1. /\ tx[w].rev \in Nat /\ revision \in Nat
      /\ revision < tx[w].rev /\ revision' = tx[w].rev
  BY DEF Commit, IInv, TypeOK, LockInv
<1>2. snapshots' = snapshots \union {Published'}
  BY DEF Commit, Published
<1>3. Published'.rev > Published.rev
  BY <1>1 DEF Published
<1>4. ASSUME NEW c \in Clients
      PROVE  Op(c)' = IF Op(c).state = "pending"
                        THEN [state |-> "pending", values |-> Op(c).values \union {Published'}]
                        ELSE Op(c)
  <2>1. call' = call /\ copy' = copy
    BY DEF Commit
  <2>2. call[c].floor <= revision /\ call[c].floor \in Nat
    BY DEF IInv, CallInv, TypeOK, Calls
  <2>3. Published'.rev >= call[c].floor
    BY <1>1, <2>2 DEF Published
  <2>4. {s \in snapshots' : s.rev >= call[c].floor}
          = {s \in snapshots : s.rev >= call[c].floor} \union {Published'}
    BY <1>2, <2>3
  <2> QED
    BY <2>1, <2>4 DEF Op, Served, Content
<1> QED
  BY <1>3, <1>4 DEF Register!Publish

\* A step that changes the operation of one client only.
LEMMA OneOp ==
  ASSUME NEW c \in Clients, NEW v, \A d \in Clients \ {c} : Op(d)' = Op(d), Op(c)' = v
  PROVE  [d \in Clients |-> Op(d)'] = [[d \in Clients |-> Op(d)] EXCEPT ![c] = v]
OBVIOUS

\* Arriving is an Invoke, getting an answer a Return, and an error or the
\* delivery of the answer an End; every other step of a request is a stutter.
LEMMA RequestRefines ==
  ASSUME IInv, IInv', NEW c \in Clients, Request(c)
  PROVE  \/ Register!Invoke(c)
         \/ Register!Return(c)
         \/ Register!End(c)
         \/ UNCHANGED <<Published, [d \in Clients |-> Op(d)]>>
<1>1. /\ snapshots' = snapshots
      /\ Published' = Published
      /\ call \in [Clients -> Calls]
      /\ call[c] \in Calls
      /\ \A d \in Clients \ {c} : call'[d] = call[d] /\ copy'[d] = copy[d]
  BY DEF Request, Get, StartPage, StartGet, CheckTag, ReadRevision, Peek, BeginLoad,
         LoadSection, FinishLoad, StoreCache, QueryFails, GiveUp, Deliver, Published,
         IInv, TypeOK
<1>2. \A d \in Clients \ {c} : Op(d)' = Op(d)
  BY <1>1, OpUnchanged
<1>3. CASE StartPage(c) \/ StartGet(c)
  <2>1. call'[c].pc \in {"tag", "revision"} /\ call'[c].floor = revision
    <3>1. CASE StartPage(c)
      <4>1. call'[c].pc = "tag" /\ call'[c].floor = revision
        BY <1>1, <3>1 DEF StartPage, Idle
      <4> QED
        BY <4>1
    <3>2. CASE StartGet(c)
      <4>1. call'[c].pc = "revision" /\ call'[c].floor = revision
        BY <1>1, <3>2 DEF StartGet, Idle
      <4> QED
        BY <4>1
    <3> QED
      BY <1>3, <3>1, <3>2
  <2>2. Op(c)' = [state |-> "pending", values |-> {Published}]
    BY <1>1, <2>1, InvokeValues DEF Op
  <2>3. Op(c).state = "idle"
    BY <1>3 DEF StartPage, StartGet, Op
  <2> QED
    BY <1>1, <1>2, <2>2, <2>3, OneOp DEF Register!Invoke
<1>4. ASSUME call[c].pc \notin {"idle", "reply"},
             call'[c].pc = "reply", call'[c].floor = call[c].floor
      PROVE  Register!Return(c)
  <2>1. /\ Content(Served(c))' \in Op(c).values
        /\ Op(c).state = "pending"
        /\ Op(c)' = [state |-> "returned", values |-> {Content(Served(c))'}]
    BY <1>1, <1>4, ReturnValue
  <2>2. [d \in Clients |-> Op(d)'] =
          [[d \in Clients |-> Op(d)] EXCEPT
             ![c] = [state |-> "returned", values |-> {Content(Served(c))'}]]
    BY <1>2, <2>1, OneOp
  <2> QED
    BY <1>1, <2>1, <2>2 DEF Register!Return
<1>5. ASSUME call'[c] = Idle, call[c].pc # "idle"
      PROVE  Register!End(c)
  <2>1. Op(c)' = [state |-> "idle", values |-> {}]
    BY <1>5 DEF Op, Idle
  <2>2. Op(c).state # "idle"
    BY <1>5 DEF Op
  <2> QED
    BY <1>1, <1>2, <2>1, <2>2, OneOp DEF Register!End, Register!IdleOp
<1>6. ASSUME Op(c)' = Op(c)
      PROVE  UNCHANGED <<Published, [d \in Clients |-> Op(d)]>>
  BY <1>1, <1>2, <1>6
<1>7. ASSUME call[c].pc \notin {"idle", "reply"}, call'[c].pc \notin {"idle", "reply"},
             call'[c].floor = call[c].floor
      PROVE  UNCHANGED <<Published, [d \in Clients |-> Op(d)]>>
  <2>1. Op(c)' = Op(c)
    BY <1>1, <1>7 DEF Op
  <2> QED
    BY <1>6, <2>1
<1>8. CASE CheckTag(c)
  <2>1. CASE call[c].inm = revision
    <3>1. call'[c] = [call[c] EXCEPT !.pc = "reply", !.inm = 0, !.etag = revision, !.status = "NotModified"]
      BY <1>1, <1>8, <2>1 DEF CheckTag
    <3>2. call'[c].pc = "reply" /\ call'[c].floor = call[c].floor
      BY <1>1, <3>1 DEF Calls
    <3> QED
      BY <1>4, <1>8, <3>2 DEF CheckTag
  <2>2. CASE call[c].inm # revision
    <3>1. call'[c] = [call[c] EXCEPT !.pc = "revision", !.inm = 0, !.etag = revision]
      BY <1>1, <1>8, <2>2 DEF CheckTag
    <3>2. call'[c].pc = "revision" /\ call'[c].floor = call[c].floor
      BY <1>1, <3>1 DEF Calls
    <3> QED
      BY <1>7, <1>8, <3>2 DEF CheckTag
  <2> QED
    BY <2>1, <2>2
<1>9. CASE ReadRevision(c)
  <2>1. call'[c] = [call[c] EXCEPT !.pc = "peek", !.rev = revision]
    BY <1>1, <1>9 DEF ReadRevision
  <2> QED
    BY <1>1, <1>7, <1>9, <2>1 DEF ReadRevision, Calls
<1>10. CASE Peek(c)
  <2>1. CASE CacheHit(c)
    <3>1. call'[c] = [call[c] EXCEPT !.pc = "reply", !.rev = 0, !.status = "OK", !.doc = cached]
      BY <1>1, <1>10, <2>1 DEF Peek
    <3>2. call'[c].pc = "reply" /\ call'[c].floor = call[c].floor
      BY <1>1, <3>1 DEF Calls
    <3> QED
      BY <1>4, <1>10, <3>2 DEF Peek
  <2>2. CASE ~CacheHit(c)
    <3>1. call'[c] = [call[c] EXCEPT !.pc = "begin", !.rev = 0]
      BY <1>1, <1>10, <2>2 DEF Peek
    <3>2. call'[c].pc = "begin" /\ call'[c].floor = call[c].floor
      BY <1>1, <3>1 DEF Calls
    <3> QED
      BY <1>7, <1>10, <3>2 DEF Peek
  <2> QED
    BY <2>1, <2>2
<1>11. CASE BeginLoad(c)
  <2>1. call'[c] = [call[c] EXCEPT !.pc = "load",
                      !.snap = [rev |-> revision, body |-> body],
                      !.doc = [NoDoc EXCEPT !.rev = revision]]
    BY <1>1, <1>11 DEF BeginLoad
  <2> QED
    BY <1>1, <1>7, <1>11, <2>1 DEF BeginLoad, Calls
<1>12. CASE LoadSection(c)
  <2>1. call'[c] = [call[c] EXCEPT !.doc = WithSection(c), !.next = call[c].next + 1]
    BY <1>1, <1>12 DEF LoadSection
  <2> QED
    BY <1>1, <1>7, <1>12, <2>1 DEF LoadSection, Calls
<1>13. CASE FinishLoad(c)
  <2>1. call'[c] = [call[c] EXCEPT !.pc = "store", !.snap = NoSnap, !.next = 1, !.doc = ResolvedDoc(c)]
    BY <1>1, <1>13 DEF FinishLoad
  <2> QED
    BY <1>1, <1>7, <1>13, <2>1 DEF FinishLoad, Calls
<1>14. CASE StoreCache(c)
  <2>1. call'[c] = [call[c] EXCEPT !.pc = "reply", !.status = "OK"]
    BY <1>1, <1>14 DEF StoreCache
  <2> QED
    BY <1>1, <1>4, <1>14, <2>1 DEF StoreCache, Calls
<1>15. CASE QueryFails(c)
  BY <1>1, <1>5, <1>15 DEF QueryFails
<1>16. CASE GiveUp(c)
  <2>1. call'[c] = [call[c] EXCEPT !.waiting = FALSE] /\ copy' = copy
    BY <1>1, <1>16 DEF GiveUp
  <2>2. /\ call'[c].pc = call[c].pc /\ call'[c].floor = call[c].floor
        /\ call'[c].doc = call[c].doc /\ call'[c].status = call[c].status
    BY <1>1, <2>1 DEF Calls
  <2>3. Op(c)' = Op(c)
    BY <1>1, <2>1, <2>2 DEF Op, Served, Content
  <2> QED
    BY <1>6, <2>3
<1>17. CASE Deliver(c)
  BY <1>1, <1>5, <1>17 DEF Deliver
<1> QED
  BY <1>3, <1>8, <1>9, <1>10, <1>11, <1>12, <1>13, <1>14, <1>15, <1>16, <1>17
     DEF Request, Get

\* Every step of the service is a step of the register or leaves it alone.
LEMMA StepRefines ==
  ASSUME IInv, IInv', [Next]_vars
  PROVE  [Register!Next]_<<Published, [c \in Clients |-> Op(c)]>>
<1>1. ASSUME snapshots' = snapshots, Published' = Published, call' = call, copy' = copy
      PROVE  UNCHANGED <<Published, [c \in Clients |-> Op(c)]>>
  <2>1. \A c \in Clients : Op(c)' = Op(c)
    BY <1>1, OpUnchanged
  <2> QED
    BY <1>1, <2>1
<1>2. ASSUME NEW w \in Writers, Write(w)
      PROVE  [Register!Next]_<<Published, [c \in Clients |-> Op(c)]>>
  <2>1. CASE Commit(w)
    <3>1. Published' \in Snapshots
      BY DEF IInv, HistoryInv, TypeOK
    <3> QED
      BY <2>1, <3>1, CommitRefines DEF Register!Next
  <2>2. CASE \E s \in Sections : WriteStatement(w, s)
    BY <1>1, <2>2 DEF WriteStatement, Published
  <2>3. CASE Rollback(w)
    BY <1>1, <2>3 DEF Rollback, Published
  <2>4. CASE Invalidate(w)
    BY <1>1, <2>4 DEF Invalidate, Published
  <2> QED
    BY <1>2, <2>1, <2>2, <2>3, <2>4 DEF Write
<1>3. CASE \E c \in Clients : Request(c)
  BY <1>3, RequestRefines DEF Register!Next
<1>4. CASE Restart
  <2>1. \A c \in Clients : Op(c)' = [state |-> "idle", values |-> {}]
    BY <1>4 DEF Restart, Op, Idle
  <2>2. Published' = Published
    BY <1>4 DEF Restart, Published
  <2> QED
    BY <2>1, <2>2 DEF Register!Next, Register!Crash, Register!IdleOp
<1>5. CASE NextWeek
  BY <1>1, <1>5 DEF NextWeek, Published
<1>6. CASE UNCHANGED vars
  BY <1>1, <1>6 DEF vars, Published
<1> QED
  BY <1>2, <1>3, <1>4, <1>5, <1>6 DEF Next

\* Cache, transactions, ETags and browser copies together behave as one
\* register whose reads return a value it held while they were running.
THEOREM Refinement == Spec => RegisterSpec
<1>1. Init => Register!Init
  BY DEF Init, Register!Init, Register!IdleOp, Op, Idle, Published
<1>2. IInv /\ IInv' /\ [Next]_vars => [Register!Next]_<<Published, [c \in Clients |-> Op(c)]>>
  BY StepRefines
<1> QED
  BY <1>1, <1>2, Invariance, PTL DEF Spec, RegisterSpec, Register!Spec, Register!regVars
=============================================================================
