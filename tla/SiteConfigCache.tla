-------------------------- MODULE SiteConfigCache --------------------------
(***************************************************************************)
(* The public configuration document: one content database whose revision  *)
(* is bumped by a trigger, one server process that caches the assembled    *)
(* document under that revision, and browsers that revalidate their own    *)
(* copy with an ETag.                                                      *)
(*                                                                         *)
(* Content is split into sections 1..NSections, the order in which Load    *)
(* reads them.  The content of a section is abstracted to the revision of  *)
(* the transaction that last wrote it, so two documents show the same      *)
(* prices and menus exactly when their bodies are equal.                   *)
(***************************************************************************)
EXTENDS Naturals

CONSTANTS
  Clients,       \* browsers; each has its own localStorage and one call at a time
  Writers,       \* whoever edits content: admin requests and the seed command
  CliWriters,    \* the writers that run in a process of their own (thenied seed)
  NSections,     \* how many content sections Load reads
  MaxRevision,   \* bound: no statement bumps the revision past this
  MaxWeek        \* bound: the calendar stops at this week

ASSUME ConstantsAssumption ==
  /\ CliWriters \subseteq Writers
  /\ NSections \in Nat \ {0}
  /\ MaxRevision \in Nat \ {0}
  /\ MaxWeek \in Nat \ {0}

Sections == 1..NSections

VARIABLES
  revision,   \* content_revision.revision, as committed
  body,       \* the committed content: section -> revision that wrote it
  snapshots,  \* history: every committed [rev, body]
  tx,         \* writer -> its open transaction
  wpc,        \* writer -> "idle", "open" or "committed" (Invalidate still to run)
  cached,     \* Service.cached
  call,       \* client -> the state of the handler serving its request
  copy,       \* client -> the document and ETag in its localStorage
  week        \* the calendar week it is now in the site's timezone

dbVars == <<revision, body, snapshots, tx, wpc>>
vars == <<revision, body, snapshots, tx, wpc, cached, call, copy, week>>

Bodies    == [Sections -> 0..MaxRevision]
Snapshots == [rev : 1..MaxRevision, body : Bodies]
Documents == [rev : 1..MaxRevision, body : Bodies, week : 1..MaxWeek]

\* "No document" (a nil pointer, an absent localStorage key): revisions start at 1.
NoDoc  == [rev |-> 0, body |-> [s \in Sections |-> 0], week |-> 0]
NoCopy == [doc |-> NoDoc, etag |-> 0]
NoSnap == [rev |-> 0, body |-> [s \in Sections |-> 0]]
NoTx   == [rev |-> 0, wrote |-> {}]

\* A handler at rest.  inm: If-None-Match; etag: the ETag header; rev: the
\* revision Get read; snap: the transaction's snapshot; next: the section Load
\* reads next; doc: the document; floor and asked: the revision committed and the
\* week when the request arrived; waiting: a page awaits the answer to store it.
\* A local that is no longer read is set back.
Idle ==
  [pc |-> "idle", waiting |-> FALSE, inm |-> 0, etag |-> 0,
   rev |-> 0, snap |-> NoSnap, next |-> 1, doc |-> NoDoc, status |-> "none",
   floor |-> 0, asked |-> 0]

Init ==
  /\ revision = 1
  /\ body = [s \in Sections |-> 1]
  /\ snapshots = {[rev |-> 1, body |-> [s \in Sections |-> 1]]}
  /\ tx = [w \in Writers |-> NoTx]
  /\ wpc = [w \in Writers |-> "idle"]
  /\ cached = NoDoc
  /\ call = [c \in Clients |-> Idle]
  /\ copy = [c \in Clients |-> NoCopy]
  /\ week = 1

----------------------------------------------------------------------------
(* The database and its writers. *)

\* bump_content_revision updates the single content_revision row, so the row
\* lock the first statement takes is held until its transaction ends.
BumpLockFree_Dropped(w) == w \in Writers
BumpLockFree(w) == \A v \in Writers \ {w} : wpc[v] # "open"

\* One statement on a content table with its AFTER STATEMENT trigger.
WriteStatement(w, s) ==
  /\ wpc[w] \in {"idle", "open"}
  /\ BumpLockFree(w)
  /\ LET base == IF wpc[w] = "open" THEN tx[w].rev ELSE revision
     IN /\ base < MaxRevision
        /\ tx' = [tx EXCEPT ![w] = [rev |-> base + 1, wrote |-> @.wrote \union {s}]]
  /\ wpc' = [wpc EXCEPT ![w] = "open"]
  /\ UNCHANGED <<revision, body, snapshots, cached, call, copy, week>>

\* The content a writer's COMMIT leaves.
CommittedBody(w) ==
  [s \in Sections |-> IF s \in tx[w].wrote THEN tx[w].rev ELSE body[s]]

Commit(w) ==
  /\ wpc[w] = "open"
  /\ revision' = tx[w].rev
  /\ body' = CommittedBody(w)
  /\ snapshots' = snapshots \union {[rev |-> tx[w].rev, body |-> CommittedBody(w)]}
  /\ tx' = [tx EXCEPT ![w] = NoTx]
  /\ wpc' = [wpc EXCEPT ![w] = IF w \in CliWriters THEN "idle" ELSE "committed"]
  /\ UNCHANGED <<cached, call, copy, week>>

\* A validation or constraint error, or a lost connection, before COMMIT.
Rollback(w) ==
  /\ wpc[w] = "open"
  /\ tx' = [tx EXCEPT ![w] = NoTx]
  /\ wpc' = [wpc EXCEPT ![w] = "idle"]
  /\ UNCHANGED <<revision, body, snapshots, cached, call, copy, week>>

\* The admin handler drops the cache after its repository call returned.
Invalidate(w) ==
  /\ wpc[w] = "committed"
  /\ cached' = NoDoc
  /\ wpc' = [wpc EXCEPT ![w] = "idle"]
  /\ UNCHANGED <<revision, body, snapshots, tx, call, copy, week>>

----------------------------------------------------------------------------
(* A request. *)

\* hydrate.html load(): If-None-Match is sent only while a copy is held.
StartPage(c) ==
  /\ call[c].pc = "idle"
  /\ call' = [call EXCEPT ![c] = [Idle EXCEPT
       !.pc = "tag", !.waiting = TRUE, !.inm = copy[c].etag,
       !.floor = revision, !.asked = week]]
  /\ UNCHANGED <<revision, body, snapshots, tx, wpc, cached, copy, week>>

\* POST /quote and GET /admin/validate go straight to Service.Get, and keep
\* nothing of the document.
StartGet(c) ==
  /\ call[c].pc = "idle"
  /\ call' = [call EXCEPT ![c] = [Idle EXCEPT
       !.pc = "revision", !.floor = revision, !.asked = week]]
  /\ UNCHANGED <<revision, body, snapshots, tx, wpc, cached, copy, week>>

\* getSiteConfig: read the revision, set the ETag, answer 304 on a match.
CheckTag(c) ==
  /\ call[c].pc = "tag"
  /\ call' = [call EXCEPT ![c] =
       IF call[c].inm = revision
         THEN [@ EXCEPT !.pc = "reply", !.inm = 0, !.etag = revision, !.status = "NotModified"]
         ELSE [@ EXCEPT !.pc = "revision", !.inm = 0, !.etag = revision]]
  /\ UNCHANGED <<revision, body, snapshots, tx, wpc, cached, copy, week>>

\* Get: the revision is read before the cache is looked at.
ReadRevision(c) ==
  /\ call[c].pc = "revision"
  /\ call' = [call EXCEPT ![c] = [@ EXCEPT !.pc = "peek", !.rev = revision]]
  /\ UNCHANGED <<revision, body, snapshots, tx, wpc, cached, copy, week>>

CacheHit_AnyRevision(c) == cached # NoDoc /\ call[c].rev > 0
CacheHit(c) == cached # NoDoc /\ cached.rev = call[c].rev

\* Get, under the read lock: a hit is the reply, a miss starts a Load.
Peek(c) ==
  /\ call[c].pc = "peek"
  /\ call' = [call EXCEPT ![c] =
       IF CacheHit(c)
         THEN [@ EXCEPT !.pc = "reply", !.rev = 0, !.status = "OK", !.doc = cached]
         ELSE [@ EXCEPT !.pc = "begin", !.rev = 0]]
  /\ UNCHANGED <<revision, body, snapshots, tx, wpc, cached, copy, week>>

\* Load's first query, the revision, fixes the repeatable-read snapshot.
BeginLoad(c) ==
  /\ call[c].pc = "begin"
  /\ call' = [call EXCEPT ![c] =
       [@ EXCEPT !.pc = "load",
                 !.snap = [rev |-> revision, body |-> body],
                 !.doc = [NoDoc EXCEPT !.rev = revision]]]
  /\ UNCHANGED <<revision, body, snapshots, tx, wpc, cached, copy, week>>

\* What a query of Load's transaction returns for a section.
SectionRead_Committed(c, s) == IF s \in DOMAIN call[c].snap.body THEN body[s] ELSE 0
SectionRead(c, s) == call[c].snap.body[s]

\* The document under construction with its next section filled in.
WithSection(c) ==
  [call[c].doc EXCEPT !.body[call[c].next] = SectionRead(c, call[c].next)]

LoadSection(c) ==
  /\ call[c].pc = "load"
  /\ call[c].next \in Sections
  /\ call' = [call EXCEPT ![c] =
       [@ EXCEPT !.doc = WithSection(c), !.next = call[c].next + 1]]
  /\ UNCHANGED <<revision, body, snapshots, tx, wpc, cached, copy, week>>

\* resolveCurrentCycle on the loaded document: "this week" is the week it is now.
ResolvedDoc_Unresolved(c) == [call[c].doc EXCEPT !.week = 0]
ResolvedDoc(c) == [call[c].doc EXCEPT !.week = week]

FinishLoad(c) ==
  /\ call[c].pc = "load"
  /\ call[c].next = NSections + 1
  /\ call' = [call EXCEPT ![c] = 
       [@ EXCEPT !.pc = "store", !.snap = NoSnap, !.next = 1, !.doc = ResolvedDoc(c)]]
  /\ UNCHANGED <<revision, body, snapshots, tx, wpc, cached, copy, week>>

\* Get, under the write lock: the cache is overwritten whatever it holds.
StoreCache(c) ==
  /\ call[c].pc = "store"
  /\ cached' = call[c].doc
  /\ call' = [call EXCEPT ![c] = [@ EXCEPT !.pc = "reply", !.status = "OK"]]
  /\ UNCHANGED <<revision, body, snapshots, tx, wpc, copy, week>>

\* Any query of the handler fails: an error status, the browser keeps its copy.
QueryFails(c) ==
  /\ call[c].pc \in {"tag", "revision", "begin", "load"}
  /\ call' = [call EXCEPT ![c] = Idle]
  /\ UNCHANGED <<revision, body, snapshots, tx, wpc, cached, copy, week>>

\* The browser aborts after its timeout; the handler runs on and its reply is lost.
GiveUp(c) ==
  /\ call[c].waiting
  /\ call' = [call EXCEPT ![c].waiting = FALSE]
  /\ UNCHANGED <<revision, body, snapshots, tx, wpc, cached, copy, week>>

\* What store() writes: the body with the ETag of the same response.
StoredCopy(c) == [doc |-> call[c].doc, etag |-> call[c].etag]

\* The reply ends the call.  A 200 for the page is stored unless the browser
\* gave up or refuses storage; a 304 renders the copy already held.
Deliver(c) ==
  /\ call[c].pc = "reply"
  /\ call' = [call EXCEPT ![c] = Idle]
  /\ \/ UNCHANGED copy
     \/ /\ call[c].waiting /\ call[c].status = "OK"
        /\ copy' = [copy EXCEPT ![c] = StoredCopy(c)]
  /\ UNCHANGED <<revision, body, snapshots, tx, wpc, cached, week>>

----------------------------------------------------------------------------
(* The server process and the calendar. *)

\* The process is stopped and started: memory and in-flight requests are gone,
\* open transactions of its own writers roll back.
Restart ==
  /\ cached' = NoDoc
  /\ call' = [c \in Clients |-> Idle]
  /\ tx' = [w \in Writers |-> IF w \in CliWriters THEN tx[w] ELSE NoTx]
  /\ wpc' = [w \in Writers |-> IF w \in CliWriters THEN wpc[w] ELSE "idle"]
  /\ UNCHANGED <<revision, body, snapshots, copy, week>>

NextWeek ==
  /\ week < MaxWeek
  /\ week' = week + 1
  /\ UNCHANGED <<revision, body, snapshots, tx, wpc, cached, call, copy>>

Write(w) ==
  \/ \E s \in Sections : WriteStatement(w, s)
  \/ Commit(w)
  \/ Rollback(w)
  \/ Invalidate(w)

Get(c) ==
  \/ ReadRevision(c)
  \/ Peek(c)
  \/ BeginLoad(c)
  \/ LoadSection(c)
  \/ FinishLoad(c)
  \/ StoreCache(c)

Request(c) ==
  \/ StartPage(c)
  \/ StartGet(c)
  \/ CheckTag(c)
  \/ Get(c)
  \/ QueryFails(c)
  \/ GiveUp(c)
  \/ Deliver(c)

Next ==
  \/ \E w \in Writers : Write(w)
  \/ \E c \in Clients : Request(c)
  \/ Restart
  \/ NextWeek

Spec == Init /\ [][Next]_vars

----------------------------------------------------------------------------
(* Properties. *)

Calls ==
  [pc : {"idle", "tag", "revision", "peek", "begin", "load", "store", "reply"},
   waiting : BOOLEAN,
   inm : 0..MaxRevision, etag : 0..MaxRevision, rev : 0..MaxRevision,
   snap : [rev : 0..MaxRevision, body : Bodies], next : 1..(NSections + 1),
   doc : [rev : 0..MaxRevision, body : Bodies, week : 0..MaxWeek],
   status : {"none", "OK", "NotModified"}, floor : 0..MaxRevision, asked : 0..MaxWeek]

\* Every variable has its type.  A cached or stored document has been resolved
\* against the calendar: the cache never publishes a half-built one.
TypeOK ==
  /\ revision \in 1..MaxRevision
  /\ body \in Bodies
  /\ snapshots \subseteq Snapshots
  /\ tx \in [Writers -> [rev : 0..MaxRevision, wrote : SUBSET Sections]]
  /\ wpc \in [Writers -> {"idle", "open", "committed"}]
  /\ cached \in Documents \union {NoDoc}
  /\ copy \in [Clients -> [doc : Documents \union {NoDoc}, etag : 0..MaxRevision]]
  /\ week \in 1..MaxWeek
  /\ call \in [Clients -> Calls]

Content(d) == [rev |-> d.rev, body |-> d.body]

\* The document a finished request shows: its own, or the copy a 304 stands for.
Served(c) == IF call[c].status = "NotModified" THEN copy[c].doc ELSE call[c].doc

\* A revision names one content: two committed states with the same revision
\* are the same state.  ETag, cache and overlay all take this for granted.
RevisionNamesOneContent ==
  \A a, b \in snapshots : a.rev = b.rev => a = b

\* Load's promise (config_repo.go): no document anywhere mixes two states of
\* the database or carries a revision that matches neither.
DocumentsAreSnapshots ==
  /\ cached # NoDoc => Content(cached) \in snapshots
  /\ \A c \in Clients :
       /\ copy[c] # NoCopy => Content(copy[c].doc) \in snapshots
       /\ call[c].pc \in {"store", "reply"} => Content(Served(c)) \in snapshots

\* "An edit is live on the next request": whatever a request is answered with,
\* body, cache hit or 304, is at least as new as what was committed when it
\* arrived, although an older Load may overwrite a newer cache entry.
EditsLiveOnNextRequest ==
  \A c \in Clients : call[c].pc = "reply" => Served(c).rev >= call[c].floor

\* A browser never holds a tag newer than the body it holds, so a 304 always
\* stands for a body it really has.
TagNotAheadOfCopy ==
  \A c \in Clients : copy[c].etag <= copy[c].doc.rev

\* The operation a request amounts to: until it has an answer it may return any
\* state committed since it arrived.
Op(c) ==
  IF call[c].pc = "idle" THEN [state |-> "idle", values |-> {}]
  ELSE IF call[c].pc = "reply"
    THEN [state |-> "returned", values |-> {Content(Served(c))}]
    ELSE [state |-> "pending", values |-> {s \in snapshots : s.rev >= call[c].floor}]

Published == [rev |-> revision, body |-> body]

\* The whole of cache, transactions, ETags and browser copies implements a
\* register with linearizable reads: see ConfigRegister.
Register ==
  INSTANCE ConfigRegister WITH
    Values <- Snapshots,
    Initial <- [rev |-> 1, body |-> [s \in Sections |-> 1]],
    current <- Published,
    op <- [c \in Clients |-> Op(c)]

RegisterSpec == Register!Spec

\* The comments on resolveCurrentCycle and hydrate.html: "this week" in the
\* served document is a week that it was while the request was being served.
ServesThisWeek ==
  \A c \in Clients : call[c].pc = "reply" => Served(c).week >= call[c].asked

----------------------------------------------------------------------------
(* The inductive invariant: why the four safety properties hold. *)

\* The committed state is the newest snapshot, and revisions name snapshots.
HistoryInv ==
  /\ Published \in snapshots
  /\ \A s \in snapshots : s.rev <= revision
  /\ RevisionNamesOneContent

\* One transaction at a time is past its first statement, and it is ahead.
LockInv ==
  /\ \A w \in Writers : wpc[w] = "open" => tx[w].rev > revision
  /\ \A v, w \in Writers : wpc[v] = "open" /\ wpc[w] = "open" => v = w

\* The cache holds a whole document, not necessarily the newest.
CacheInv == cached # NoDoc => Content(cached) \in snapshots

\* A document fit to be published to client c: whole, new enough for its
\* request, and not older than the ETag sent with it.
Publishable(c, d) ==
  /\ d \in Documents
  /\ Content(d) \in snapshots
  /\ call[c].floor <= d.rev
  /\ call[c].etag <= d.rev

\* What each program point of a request has established.
CallInv(c) ==
  /\ call[c].floor <= revision
  /\ call[c].etag <= revision
  /\ call[c].pc = "tag" => call[c].inm = copy[c].etag
  /\ call[c].pc \notin {"idle", "reply"} => call[c].status = "none"
  /\ call[c].pc \in {"tag", "revision", "peek", "begin"} => call[c].next = 1
  /\ call[c].pc = "peek" =>
       call[c].floor <= call[c].rev /\ call[c].etag <= call[c].rev /\ 0 < call[c].rev
  /\ call[c].pc = "load" =>
       /\ call[c].snap \in snapshots
       /\ call[c].floor <= call[c].snap.rev
       /\ call[c].etag <= call[c].snap.rev
       /\ call[c].doc.rev = call[c].snap.rev
       /\ \A s \in Sections :
            s < call[c].next => call[c].doc.body[s] = call[c].snap.body[s]
  /\ call[c].pc = "store" => Publishable(c, call[c].doc)
  /\ call[c].pc = "reply" =>
       \/ call[c].status = "OK" /\ Publishable(c, call[c].doc)
       \/ /\ call[c].status = "NotModified"
          /\ Content(copy[c].doc) \in snapshots
          /\ call[c].floor <= copy[c].doc.rev

CopyInv(c) ==
  /\ copy[c] # NoCopy => Content(copy[c].doc) \in snapshots
  /\ copy[c].etag <= copy[c].doc.rev

IInv ==
  /\ TypeOK
  /\ HistoryInv
  /\ LockInv
  /\ CacheInv
  /\ \A c \in Clients : CallInv(c) /\ CopyInv(c)
=============================================================================
