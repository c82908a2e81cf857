-------------------------- MODULE WriteLocks_proofs --------------------------
(* Proofs about WriteLocks, for any number of connections, weeks, plans,      *)
(* packages, grades, parameters, accounts, roles and keys of a list: the only *)
(* circles of waits are the known ones.  The argument is about what each      *)
(* write can still ask for.  A member of a circle that somebody waits for is  *)
(* past a lock already.  A row that others only refer to, a key to be         *)
(* inserted and content_revision are then never what it waits for, or the     *)
(* circle is a known one.  What is left are rows that two writes delete in    *)
(* the order of their keys, and whoever has the row waited for waits for one  *)
(* with a greater key: there is no end to that, and there are only so many.   *)
EXTENDS WriteLocks, FiniteSetTheorems, WellFoundedInduction, TLAPS

-----------------------------------------------------------------------------
(* The locks of each write *)

Row == {<<"revision">>, <<"period">>, <<"rules">>}
       \cup ({"week"} \X Weeks)
       \cup ({"plan", "rates"} \X Plans)
       \cup ({"param"} \X Params)
       \cup ({"package"} \X Packages)
       \cup ({"user"} \X Users)
       \cup ({"role"} \X Roles)
       \cup ({"bands"} \X Packages \X (1 .. Keys))
       \cup ({"kantor"} \X Grades \X (1 .. Keys))
       \cup ({"roles", "session"} \X Users \X (1 .. Keys))
       \cup ({"perms"} \X Roles \X (1 .. Keys))
Lock == [row : Row, mode : {"own", "update", "share", "check", "maybe"}]

\* The lists: each kind and what the lists of it belong to.
Owners(kind) == CASE kind = "bands"  -> Packages
                  [] kind = "kantor" -> Grades
                  [] kind = "perms"  -> Roles
                  [] OTHER           -> Users

\* The rows that the writes name are rows.
LEMMA Rows ==
  /\ Revision \in Lock /\ Own(<<"period">>) \in Lock /\ Share(<<"period">>) \in Lock
  /\ Update(<<"rules">>) \in Lock
  /\ \A w \in Weeks : Own(<<"week", w>>) \in Lock /\ Update(<<"week", w>>) \in Lock
  /\ \A p \in Plans : Update(<<"rates", p>>) \in Lock
  /\ \A k \in Params : Update(<<"param", k>>) \in Lock
  /\ \A k \in Packages : Share(<<"package", k>>) \in Lock
  /\ \A u \in Users : /\ Own(<<"user", u>>) \in Lock /\ Update(<<"user", u>>) \in Lock
                      /\ Share(<<"user", u>>) \in Lock
  /\ \A r \in Roles : Share(<<"role", r>>) \in Lock
BY DEF Revision, Own, Update, Share, Lock, Row

\* And so are the rows of the lists.
LEMMA ListRows ==
  ASSUME NEW kind \in {"bands", "kantor", "roles", "perms", "session"},
         NEW x \in Owners(kind), NEW n \in 1 .. Keys,
         NEW mode \in {"own", "update", "share", "check", "maybe"}
  PROVE  [row |-> <<kind, x, n>>, mode |-> mode] \in Lock
<1>1. <<kind, x, n>> \in Row
  <2>1. CASE kind = "bands"
    BY <2>1 DEF Owners, Row
  <2>2. CASE kind = "kantor"
    BY <2>2 DEF Owners, Row
  <2>3. CASE kind = "perms"
    BY <2>3 DEF Owners, Row
  <2>4. CASE kind \in {"roles", "session"}
    BY <2>4 DEF Owners, Row
  <2> QED
    BY <2>1, <2>2, <2>3, <2>4
<1> QED
  BY <1>1 DEF Lock

\* One lock for each row of a finite set.
LEMMA EachTyped ==
  ASSUME NEW S, IsFiniteSet(S), NEW mode,
         \A r \in S : [row |-> r, mode |-> mode] \in Lock
  PROVE  /\ Each(mode, S) \in Seq(Lock)
         /\ \A i \in 1 .. Len(Each(mode, S)) :
              Each(mode, S)[i].row \in S /\ Each(mode, S)[i].mode = mode
<1> DEFINE n == Cardinality(S)
<1>1. n \in Nat /\ ExistsBijection(1 .. n, S)
  BY FS_CardinalityType
<1>2. SetSeq(S) \in [1 .. n -> S]
  <2>1. PICK f \in Bijection(1 .. n, S) : TRUE
    BY <1>1 DEF ExistsBijection
  <2>2. f \in [1 .. n -> S] /\ \A i, j \in DOMAIN f : f[i] = f[j] => i = j
    BY <2>1 DEF Bijection, Injection, IsInjective
  <2> QED
    BY <2>2 DEF SetSeq
<1> HIDE DEF n
<1>3. Each(mode, S) = [i \in 1 .. n |-> [row |-> SetSeq(S)[i], mode |-> mode]]
  BY DEF Each, n
<1>4. \A i \in 1 .. n : SetSeq(S)[i] \in S
  BY <1>2
<1> DEFINE e == [i \in 1 .. n |-> [row |-> SetSeq(S)[i], mode |-> mode]]
<1>5. e \in Seq(Lock) /\ Len(e) = n
  BY <1>1, <1>4
<1>6. \A i \in 1 .. n : e[i].row = SetSeq(S)[i] /\ e[i].mode = mode
  OBVIOUS
<1> HIDE DEF e
<1> QED
  BY <1>3, <1>4, <1>5, <1>6 DEF e

\* The rows of all lists of one kind are finitely many.
LEMMA ListsFinite ==
  ASSUME NEW kind, NEW S, IsFiniteSet(S)
  PROVE  IsFiniteSet({kind} \X S \X (1 .. Keys))
<1>0. IsFiniteSet(1 .. Keys)
  BY KeysAssumption, FS_Interval
<1>1. IsFiniteSet(S \X (1 .. Keys))
  BY <1>0, FS_Product
<1> DEFINE f == [y \in S \X (1 .. Keys) |-> <<kind, y[1], y[2]>>]
           T == {kind} \X S \X (1 .. Keys)
<1>2. f \in Surjection(S \X (1 .. Keys), T)
  <2>1. f \in [S \X (1 .. Keys) -> T]
    OBVIOUS
  <2>2. ASSUME NEW t \in T PROVE \E y \in S \X (1 .. Keys) : f[y] = t
    <3>1. PICK x \in S, n \in 1 .. Keys : t = <<kind, x, n>>
      OBVIOUS
    <3>2. <<x, n>> \in S \X (1 .. Keys) /\ f[<<x, n>>] = t
      BY <3>1
    <3> QED
      BY <3>2, Zenon
  <2> QED
    BY <2>1, <2>2 DEF Surjection
<1> HIDE DEF f, T
<1>3. IsFiniteSet(T)
  BY <1>1, <1>2, FS_Surjection
<1> QED
  BY <1>3 DEF T

\* Where the elements of a concatenation come from.
LEMMA Concat ==
  ASSUME NEW L, NEW s \in Seq(L), NEW t \in Seq(L)
  PROVE  /\ s \o t \in Seq(L) /\ Len(s \o t) = Len(s) + Len(t)
         /\ Len(s) \in Nat /\ Len(t) \in Nat
         /\ \A i \in 1 .. Len(s \o t) :
              \/ i \in 1 .. Len(s) /\ (s \o t)[i] = s[i]
              \/ i > Len(s) /\ i - Len(s) \in 1 .. Len(t) /\ (s \o t)[i] = t[i - Len(s)]
OBVIOUS

\* The deletion of a list: one row after the other.
LEMMA DeleteTyped ==
  ASSUME NEW kind \in {"bands", "kantor", "roles", "perms", "session"},
         NEW x \in Owners(kind)
  PROVE  /\ Delete(kind, x) \in Seq(Lock) /\ Len(Delete(kind, x)) = Keys
         /\ \A n \in 1 .. Keys : Delete(kind, x)[n] = Maybe(<<kind, x, n>>)
<1>1. \A n \in 1 .. Keys : Maybe(<<kind, x, n>>) \in Lock
  BY ListRows DEF Maybe
<1> DEFINE d == [i \in 1 .. Keys |-> Maybe(<<kind, x, i>>)]
<1>2. d \in Seq(Lock) /\ Len(d) = Keys
  BY <1>1, KeysAssumption
<1>3. \A n \in 1 .. Keys : d[n] = Maybe(<<kind, x, n>>)
  OBVIOUS
<1> HIDE DEF d
<1> QED
  BY <1>2, <1>3 DEF Delete, d

\* The keys that a request asks for.
LEMMA Asks ==
  \A s \in Requests : s \in [1 .. Keys -> 1 .. Keys]
BY DEF Requests

\* The insertion of a list: keys of the list, and what they refer to.
Inserts(ins, mode, kind, x, parent) ==
  \A i \in 1 .. Len(ins) :
    \/ ins[i] = Share(parent)
    \/ \E n \in 1 .. Keys : ins[i] = [row |-> <<kind, x, n>>, mode |-> mode]

LEMMA InsertTyped ==
  ASSUME NEW kind \in {"bands", "kantor", "roles", "perms"}, NEW x \in Owners(kind),
         NEW mode \in {"own", "maybe"}, NEW parent, Share(parent) \in Lock,
         NEW asked \in [1 .. Keys -> 1 .. Keys]
  PROVE  /\ Insert(mode, kind, x, asked, parent) \in Seq(Lock)
         /\ Inserts(Insert(mode, kind, x, asked, parent), mode, kind, x, parent)
<1>1. Len(asked) = Keys
  BY KeysAssumption
<1> DEFINE k(i) == IF i % 2 = 1
                   THEN [row |-> <<kind, x, asked[(i + 1) \div 2]>>, mode |-> mode]
                   ELSE Share(parent)
           ins == [i \in 1 .. 2 * Keys |-> k(i)]
<1>2. ASSUME NEW i \in 1 .. 2 * Keys
      PROVE  /\ k(i) \in Lock
             /\ \/ k(i) = Share(parent)
                \/ \E n \in 1 .. Keys : k(i) = [row |-> <<kind, x, n>>, mode |-> mode]
  <2>1. CASE i % 2 = 1
    <3>1. (i + 1) \div 2 \in 1 .. Keys
      BY <2>1, KeysAssumption
    <3> DEFINE n == asked[(i + 1) \div 2]
    <3>2. n \in 1 .. Keys
      BY <3>1
    <3>3. k(i) = [row |-> <<kind, x, n>>, mode |-> mode]
      BY <2>1
    <3> HIDE DEF n, k
    <3> QED
      BY <3>2, <3>3, ListRows
  <2>2. CASE i % 2 # 1
    BY <2>2
  <2> QED
    BY <2>1, <2>2
<1> HIDE DEF k
<1>3. ins \in Seq(Lock) /\ Len(ins) = 2 * Keys
  BY <1>2, KeysAssumption
<1>4. \A i \in 1 .. 2 * Keys : ins[i] = k(i)
  OBVIOUS
<1>5. Insert(mode, kind, x, asked, parent) = ins
  BY <1>1, Zenon DEF Insert, k
<1> HIDE DEF ins
<1> QED
  BY <1>2, <1>3, <1>4, <1>5 DEF Inserts

\* A row of its own, looks at others, content_revision, and what comes after it.
CycleShape(s, x, a, b) ==
  \A i \in 1 .. Len(s) :
    \/ i = 1 /\ s[i] = x
    \/ i \in 2 .. Len(a) + 1 /\ \E h \in 1 .. Len(a) : s[i] = a[h]
    \/ i = Len(a) + 2 /\ s[i] = Revision
    \/ i > Len(a) + 2 /\ \E h \in 1 .. Len(b) : s[i] = b[h]

\* Each part of a concatenation in its place.
LEMMA CycleLocks ==
  ASSUME NEW x \in Lock, NEW a \in Seq(Lock), NEW b \in Seq(Lock)
  PROVE  CycleShape(<<x>> \o a \o <<Revision>> \o b, x, a, b)
<1> SUFFICES ASSUME NEW s, s = <<x>> \o a \o <<Revision>> \o b, NEW i \in 1 .. Len(s)
             PROVE  \/ i = 1 /\ s[i] = x
                    \/ i \in 2 .. Len(a) + 1 /\ \E h \in 1 .. Len(a) : s[i] = a[h]
                    \/ i = Len(a) + 2 /\ s[i] = Revision
                    \/ i > Len(a) + 2 /\ \E h \in 1 .. Len(b) : s[i] = b[h]
  BY DEF CycleShape
<1> DEFINE t == <<x>> \o a
           u == t \o <<Revision>>
<1>1. /\ t \in Seq(Lock) /\ Len(t) = Len(a) + 1 /\ Len(a) \in Nat
      /\ \A j \in 1 .. Len(t) : \/ j = 1 /\ t[j] = x
                                \/ j > 1 /\ j - 1 \in 1 .. Len(a) /\ t[j] = a[j - 1]
  <2>1. <<x>> \in Seq(Lock) /\ Len(<<x>>) = 1 /\ <<x>>[1] = x
    OBVIOUS
  <2> QED
    BY <2>1, Concat
<1> HIDE DEF t
<1>2. /\ u \in Seq(Lock) /\ Len(u) = Len(t) + 1
      /\ \A j \in 1 .. Len(u) : \/ j \in 1 .. Len(t) /\ u[j] = t[j]
                                \/ j = Len(t) + 1 /\ u[j] = Revision
  <2>1. /\ <<Revision>> \in Seq(Lock) /\ Len(<<Revision>>) = 1
        /\ <<Revision>>[1] = Revision
    BY Rows
  <2> QED
    BY <1>1, <2>1, Concat
<1> HIDE DEF u
<1>3. /\ Len(s) = Len(u) + Len(b) /\ Len(b) \in Nat
      /\ \/ i \in 1 .. Len(u) /\ s[i] = u[i]
         \/ i > Len(u) /\ i - Len(u) \in 1 .. Len(b) /\ s[i] = b[i - Len(u)]
  BY <1>2, Concat DEF u, t
<1>4. CASE i > Len(u)
  BY <1>1, <1>2, <1>3, <1>4
<1>5. CASE i \in 1 .. Len(u) /\ i > Len(t)
  BY <1>1, <1>2, <1>3, <1>5
<1>6. CASE i \in 1 .. Len(t)
  <2>1. s[i] = u[i] /\ u[i] = t[i]
    BY <1>1, <1>2, <1>3, <1>6
  <2>2. CASE i = 1
    BY <2>1, <2>2, <1>1
  <2>3. CASE i > 1
    <3>1. i - 1 \in 1 .. Len(a) /\ t[i] = a[i - 1]
      BY <2>3, <1>1, <1>6
    <3>2. \E h \in 1 .. Len(a) : s[i] = a[h]
      BY <3>1, <2>1, Zenon
    <3> QED
      BY <3>1, <3>2, <1>1
  <2> QED
    BY <2>2, <2>3, <1>1, <1>6
<1> QED
  BY <1>1, <1>2, <1>3, <1>4, <1>5, <1>6

\* The table LocksOf, kind by kind.
LEMMA Table ==
  /\ \A w, c : LocksOf(<<"upsert", w, c>>) = UpsertCycle(w, c)
  /\ \A w, c : LocksOf(<<"publish", w, c>>) = PublishCycle(w, c)
  /\ \A w : LocksOf(<<"delete", w>>) = DeleteCycle(w)
  /\ \A p : LocksOf(<<"rates", p>>) = SetPlanRates(p)
  /\ \A k : LocksOf(<<"param", k>>) = SetParam(k)
  /\ LocksOf(<<"rules">>) = SetPricingRules
  /\ LocksOf(<<"nothing">>) = NothingFound
  /\ \A k, s : LocksOf(<<"bands", k, s>>) = SetTierPrices(k, s)
  /\ \A g, s : LocksOf(<<"kantor", g, s>>) = SetKantorRates(g, s)
  /\ \A u, s : LocksOf(<<"roles", u, s>>) = SetUserRoles(u, s)
  /\ \A r, s : LocksOf(<<"perms", r, s>>) = SetRolePermissions(r, s)
  /\ \A u : LocksOf(<<"create", u>>) = CreateUser(u)
  /\ \A u : LocksOf(<<"remove", u>>) = DeleteUser(u)
  /\ \A u : LocksOf(<<"update", u>>) = UpdateUser(u)
  /\ \A u : LocksOf(<<"login", u>>) = CreateSession(u)
  /\ \A u : LocksOf(<<"logout", u>>) = DeleteUserSessions(u)
  /\ \A s : LocksOf(<<"purge", s>>) = PurgeExpiredSessions(s)
  /\ LocksOf(<<"seed">>) = SeedForce
BY DEF LocksOf

\* Every write is one of the kinds of the table.
LEMMA WriteKinds ==
  ASSUME NEW o \in Writes
  PROVE  \/ \E w \in Weeks, c \in BOOLEAN : o = <<"upsert", w, c>>
         \/ \E w \in Weeks, c \in BOOLEAN : o = <<"publish", w, c>>
         \/ \E w \in Weeks : o = <<"delete", w>>
         \/ \E p \in Plans : o = <<"rates", p>>
         \/ \E k \in Params : o = <<"param", k>>
         \/ o = <<"rules">>
         \/ o = <<"nothing">>
         \/ \E k \in Packages, s \in Requests : o = <<"bands", k, s>>
         \/ \E g \in Grades, s \in Requests : o = <<"kantor", g, s>>
         \/ \E u \in Users, s \in Requests : o = <<"roles", u, s>>
         \/ \E r \in Roles, s \in Requests : o = <<"perms", r, s>>
         \/ \E u \in Users : o = <<"create", u>>
         \/ \E u \in Users : o = <<"remove", u>>
         \/ \E u \in Users : o = <<"update", u>>
         \/ \E u \in Users : o = <<"login", u>>
         \/ \E u \in Users : o = <<"logout", u>>
         \/ \E s \in Sweeps : o = <<"purge", s>>
         \/ o = <<"seed">>
<1>1. CASE o \in ContentWrites
  BY <1>1 DEF ContentWrites
<1>2. CASE o \in {"remove", "update", "logout", "login", "create"} \X Users
  BY <1>2
<1>3. CASE o \in {"roles"} \X Users \X Requests
  BY <1>3
<1>4. CASE o \in {"perms"} \X Roles \X Requests
  BY <1>4
<1>5. CASE o \in {"purge"} \X Sweeps
  BY <1>5
<1> QED
  BY <1>1, <1>2, <1>3, <1>4, <1>5 DEF Writes, AccountWrites

\* What a published week claims, and what it refers to.
LEMMA ClaimTyped ==
  ASSUME NEW w, NEW c \in BOOLEAN
  PROVE  /\ Claim(w, c) \in Seq(Lock)
         /\ \A i \in 1 .. Len(Claim(w, c)) :
              c /\ Claim(w, c)[i].row[1] = "week" /\ Claim(w, c)[i].mode = "check"
<1> DEFINE others == {"week"} \X (Weeks \ {w})
<1>1. IsFiniteSet(others)
  <2>1. IsFiniteSet(Weeks \ {w}) /\ IsFiniteSet({"week"})
    BY FiniteAssumption, FS_Difference, FS_Singleton
  <2> QED
    BY <2>1, FS_Product
<1>2. \A r \in others : [row |-> r, mode |-> "check"] \in Lock /\ r[1] = "week"
  BY DEF Lock, Row
<1> HIDE DEF others
<1>3. /\ Each("check", others) \in Seq(Lock)
      /\ \A i \in 1 .. Len(Each("check", others)) :
           Each("check", others)[i].row \in others /\ Each("check", others)[i].mode = "check"
  BY <1>1, <1>2, EachTyped
<1>4. CASE c
  <2>1. Claim(w, c) = Each("check", others)
    BY <1>4 DEF Claim, others
  <2> QED
    BY <2>1, <1>2, <1>3, <1>4
<1>5. CASE ~c
  BY <1>5 DEF Claim
<1> QED
  BY <1>4, <1>5

LEMMA PlansTyped ==
  /\ Each("share", {"plan"} \X Plans) \in Seq(Lock)
  /\ \A i \in 1 .. Len(Each("share", {"plan"} \X Plans)) :
       /\ Each("share", {"plan"} \X Plans)[i].row[1] = "plan"
       /\ Each("share", {"plan"} \X Plans)[i].mode = "share"
<1> DEFINE plans == {"plan"} \X Plans
<1>1. IsFiniteSet(plans)
  <2>1. IsFiniteSet(Plans) /\ IsFiniteSet({"plan"})
    BY FiniteAssumption, FS_Singleton
  <2> QED
    BY <2>1, FS_Product
<1>2. \A r \in plans : [row |-> r, mode |-> "share"] \in Lock /\ r[1] = "plan"
  BY DEF Lock, Row
<1> HIDE DEF plans
<1>3. /\ Each("share", plans) \in Seq(Lock)
      /\ \A i \in 1 .. Len(Each("share", plans)) :
           Each("share", plans)[i].row \in plans /\ Each("share", plans)[i].mode = "share"
  BY <1>1, <1>2, EachTyped
<1>4. \A i \in 1 .. Len(Each("share", plans)) :
        Each("share", plans)[i].row[1] = "plan" /\ Each("share", plans)[i].mode = "share"
  BY <1>2, <1>3
<1> QED
  BY <1>3, <1>4 DEF plans

\* The locks of "seed --force" are locks.
LEMMA SeedTyped == SeedForce \in Seq(Lock)
<1>1. /\ IsFiniteSet({"week"} \X Weeks) /\ IsFiniteSet({"package"} \X Packages)
      /\ IsFiniteSet({"plan", "rates"} \X Plans)
  <2>1. /\ IsFiniteSet({"week"}) /\ IsFiniteSet({"package"})
        /\ IsFiniteSet({"plan"}) /\ IsFiniteSet({"rates"})
    BY FS_Singleton
  <2>2. IsFiniteSet({"plan"} \cup {"rates"}) /\ {"plan", "rates"} = {"plan"} \cup {"rates"}
    BY <2>1, FS_Union
  <2>3. IsFiniteSet({"plan", "rates"})
    BY <2>2
  <2> QED
    BY <2>1, <2>3, FiniteAssumption, FS_Product
<1>2. /\ IsFiniteSet({"bands"} \X Packages \X (1 .. Keys))
      /\ IsFiniteSet({"kantor"} \X Grades \X (1 .. Keys))
  BY FiniteAssumption, ListsFinite
<1>3. \A mode \in {"own", "maybe"} :
        /\ \A r \in {"week"} \X Weeks : [row |-> r, mode |-> mode] \in Lock
        /\ \A r \in {"package"} \X Packages : [row |-> r, mode |-> mode] \in Lock
        /\ \A r \in {"plan", "rates"} \X Plans : [row |-> r, mode |-> mode] \in Lock
        /\ \A r \in {"bands"} \X Packages \X (1 .. Keys) : [row |-> r, mode |-> mode] \in Lock
        /\ \A r \in {"kantor"} \X Grades \X (1 .. Keys) : [row |-> r, mode |-> mode] \in Lock
  BY DEF Lock, Row
<1>4. /\ Each("maybe", {"week"} \X Weeks) \in Seq(Lock)
      /\ Each("own", {"week"} \X Weeks) \in Seq(Lock)
      /\ Each("own", {"package"} \X Packages) \in Seq(Lock)
      /\ Each("own", {"plan", "rates"} \X Plans) \in Seq(Lock)
      /\ Each("maybe", {"bands"} \X Packages \X (1 .. Keys)) \in Seq(Lock)
      /\ Each("maybe", {"kantor"} \X Grades \X (1 .. Keys)) \in Seq(Lock)
      /\ Each("own", {"kantor"} \X Grades \X (1 .. Keys)) \in Seq(Lock)
  <2>1. \A mode \in {"own", "maybe"} :
          \A S : IsFiniteSet(S) /\ (\A r \in S : [row |-> r, mode |-> mode] \in Lock)
                   => Each(mode, S) \in Seq(Lock)
    BY EachTyped
  <2> QED
    BY <2>1, <1>1, <1>2, <1>3, Zenon
<1>5. <<Revision>> \in Seq(Lock) /\ <<Own(<<"period">>)>> \in Seq(Lock)
  <2>1. \A x \in Lock : <<x>> \in Seq(Lock)
    OBVIOUS
  <2> QED
    BY <2>1, Rows
<1>6. \A s, t \in Seq(Lock) : s \o t \in Seq(Lock)
  BY Concat
<1> QED
  BY <1>4, <1>5, <1>6, Zenon DEF SeedForce

-----------------------------------------------------------------------------
(* What the i-th lock of a write can be *)

Lists == {"bands", "kantor", "roles", "perms"}

AtWeek(o, i, k) ==
  /\ i = 1 /\ o[1] \in {"upsert", "publish", "delete"}
  /\ k.row = <<"week", o[2]>> /\ k.mode \in {"own", "update"}

AtCheck(o, k) ==
  /\ o[1] \in {"upsert", "publish"} /\ o[3]
  /\ k.row[1] = "week" /\ k.mode = "check"

AtReference(k) == k.row[1] \in {"plan", "package", "period", "role"} /\ k.mode = "share"

\* A key, after all deletions.
AtInsert(o, i, k) ==
  /\ o[1] \in Lists /\ i > Keys
  /\ \E n \in 1 .. Keys : k.row = <<o[1], o[2], n>>
  /\ k.mode \in {"own", "maybe"}

\* After it come keys and references.
AtRevision(o, i, k) ==
  /\ k = Revision
  /\ \A j \in 1 .. Len(LocksOf(o)) :
       j > i => AtInsert(o, j, LocksOf(o)[j]) \/ AtReference(LocksOf(o)[j])

AtOneRow(i, k) == i = 1 /\ k.row[1] \in {"rates", "param", "rules"}

AtUser(o, i, k) ==
  /\ k.row = <<"user", o[2]>>
  /\ \/ o[1] \in {"remove", "create"} /\ i = 1 /\ k.mode = "own"
     \/ o[1] = "update" /\ i = 1 /\ k.mode = "update"
     \/ o[1] = "login" /\ i = 1 /\ k.mode = "share"
     \/ o[1] = "roles" /\ k.mode = "share"

\* The i-th key, for deletion.
AtDelete(o, i, k) ==
  o[1] \in Lists /\ i \in 1 .. Keys /\ k = Maybe(<<o[1], o[2], i>>)

AtRoles(o, i, k) ==
  /\ o[1] = "remove"
  /\ \E n \in 1 .. Keys : i = n + 1 /\ k = Maybe(<<"roles", o[2], n>>)

AtSession(o, i, k) ==
  \E u \in Users, n \in 1 .. Keys :
    /\ k = Maybe(<<"session", u, n>>)
    /\ \/ o[1] = "purge"
       \/ o[1] = "logout" /\ i = n
       \/ o[1] = "remove" /\ i = 1 + Keys + n

At(o, i, k) ==
  \/ AtWeek(o, i, k) \/ AtCheck(o, k) \/ AtReference(k) \/ AtInsert(o, i, k)
  \/ AtRevision(o, i, k) \/ AtOneRow(i, k)
  \/ AtUser(o, i, k) \/ AtDelete(o, i, k) \/ AtRoles(o, i, k) \/ AtSession(o, i, k)

\* All a write asks for is known; a list's deletions come first, and an account
\* is deleted before what belongs to it.
Listed(o) ==
  /\ \A i \in 1 .. Len(LocksOf(o)) : At(o, i, LocksOf(o)[i])
  /\ o[1] \in Lists =>
       \A n \in 1 .. Keys : LocksOf(o)[n] = Maybe(<<o[1], o[2], n>>)
  /\ o[1] = "remove" => LocksOf(o)[1] = Own(<<"user", o[2]>>)

Known(o) == LocksOf(o) \in Seq(Lock) /\ Listed(o)

LEMMA WeekContents ==
  ASSUME NEW o, NEW x \in Lock, NEW b \in Seq(Lock),
         o[1] \in {"upsert", "publish"}, o[3] \in BOOLEAN, AtWeek(o, 1, x),
         \A h \in 1 .. Len(b) : AtReference(b[h]),
         LocksOf(o) = <<x>> \o Claim(o[2], o[3]) \o <<Revision>> \o b
  PROVE  Known(o)
<1> DEFINE s == LocksOf(o)
           a == Claim(o[2], o[3])
<1>1. /\ a \in Seq(Lock) /\ Len(a) \in Nat
      /\ \A h \in 1 .. Len(a) : AtCheck(o, a[h])
  <2>1. /\ a \in Seq(Lock)
        /\ \A h \in 1 .. Len(a) : o[3] /\ a[h].row[1] = "week" /\ a[h].mode = "check"
    BY ClaimTyped
  <2> HIDE DEF a
  <2> QED
    BY <2>1 DEF AtCheck
<1>2. s \in Seq(Lock)
  <2>1. <<x>> \in Seq(Lock) /\ <<Revision>> \in Seq(Lock)
    BY Rows
  <2>2. \A t, v \in Seq(Lock) : t \o v \in Seq(Lock)
    BY Concat
  <2> HIDE DEF a
  <2>3. <<x>> \o a \o <<Revision>> \o b \in Seq(Lock)
    BY <1>1, <2>1, <2>2, Zenon
  <2> QED
    BY <2>3 DEF a
<1>3. CycleShape(s, x, a, b)
  BY <1>1, CycleLocks
<1> HIDE DEF s, a
<1>4. ASSUME NEW i \in 1 .. Len(s)
      PROVE  \/ i = 1 /\ s[i] = x
             \/ i \in 2 .. Len(a) + 1 /\ \E h \in 1 .. Len(a) : s[i] = a[h]
             \/ i = Len(a) + 2 /\ s[i] = Revision
             \/ i > Len(a) + 2 /\ \E h \in 1 .. Len(b) : s[i] = b[h]
  BY <1>3, Zenon DEF CycleShape
<1>5. ASSUME NEW i \in 1 .. Len(s), i > Len(a) + 2
      PROVE  AtReference(s[i])
  <2>1. i # 1 /\ i \notin 2 .. Len(a) + 1 /\ i # Len(a) + 2
    BY ONLY <1>1, <1>5
  <2> QED
    BY <1>4, <2>1, Zenon
<1>6. ASSUME NEW i \in 1 .. Len(s), i = Len(a) + 2, s[i] = Revision
      PROVE  AtRevision(o, i, s[i])
  <2>1. \A j \in 1 .. Len(s) : j > i => AtReference(s[j])
    BY ONLY <1>1, <1>5, <1>6
  <2> QED
    BY <1>6, <2>1, Zenon DEF AtRevision, s
<1>7. ASSUME NEW i \in 1 .. Len(s)
      PROVE  At(o, i, s[i])
  <2>1. CASE i = 1 /\ s[i] = x
    BY <2>1 DEF At
  <2>2. CASE \E h \in 1 .. Len(a) : s[i] = a[h]
    BY <1>1, <2>2 DEF At
  <2>3. CASE i = Len(a) + 2 /\ s[i] = Revision
    BY <1>6, <1>7, <2>3, Zenon DEF At
  <2>4. CASE i > Len(a) + 2
    BY <1>5, <1>7, <2>4, Zenon DEF At
  <2> QED
    BY <1>4, <2>1, <2>2, <2>3, <2>4, Zenon
<1> QED
  BY <1>2, <1>7, Zenon DEF s, Known, Listed, Lists

\* One row and content_revision.
LEMMA RowContents ==
  ASSUME NEW o, NEW k \in Lock, LocksOf(o) = <<k, Revision>>,
         AtWeek(o, 1, k) \/ AtOneRow(1, k), o[1] \notin Lists \cup {"remove"}
  PROVE  Known(o)
<1>1. LocksOf(o) \in Seq(Lock) /\ Len(LocksOf(o)) = 2
  BY Rows
<1>2. LocksOf(o)[1] = k /\ LocksOf(o)[2] = Revision
  OBVIOUS
<1>3. AtRevision(o, 2, Revision)
  BY <1>1 DEF AtRevision
<1>4. At(o, 1, k) /\ At(o, 2, Revision)
  BY <1>3 DEF At
<1>5. \A i \in 1 .. Len(LocksOf(o)) : At(o, i, LocksOf(o)[i])
  BY <1>1, <1>2, <1>4
<1> QED
  BY <1>1, <1>5 DEF Known, Listed

\* One lock.
LEMMA LockContents ==
  ASSUME NEW o, NEW k \in Lock, LocksOf(o) = <<k>>, At(o, 1, k),
         o[1] \notin Lists \cup {"remove"}
  PROVE  Known(o)
<1>1. LocksOf(o) \in Seq(Lock) /\ Len(LocksOf(o)) = 1 /\ LocksOf(o)[1] = k
  OBVIOUS
<1>2. \A i \in 1 .. Len(LocksOf(o)) : At(o, i, LocksOf(o)[i])
  BY <1>1
<1> QED
  BY <1>1, <1>2 DEF Known, Listed

\* The insertion of a list, wherever it comes after the deletions.
LEMMA InsertContents ==
  ASSUME NEW kind \in Lists, NEW x \in Owners(kind), NEW o, o[1] = kind, o[2] = x,
         NEW mode \in {"own", "maybe"}, NEW parent, Share(parent) \in Lock,
         NEW asked \in [1 .. Keys -> 1 .. Keys],
         NEW i \in 1 .. Len(Insert(mode, kind, x, asked, parent)),
         NEW j \in Nat, j > Keys
  PROVE  LET k == Insert(mode, kind, x, asked, parent)[i] IN
         k = Share(parent) \/ AtInsert(o, j, k)
<1> DEFINE ins == Insert(mode, kind, x, asked, parent)
           k == ins[i]
<1>0. Inserts(ins, mode, kind, x, parent)
  BY InsertTyped DEF Lists
<1>1. \/ k = Share(parent)
      \/ \E n \in 1 .. Keys : k = [row |-> <<kind, x, n>>, mode |-> mode]
  <2>1. i \in 1 .. Len(ins)
    OBVIOUS
  <2> HIDE DEF ins
  <2> QED
    BY <1>0, <2>1 DEF Inserts
<1> HIDE DEF k
<1>2. ASSUME NEW n \in 1 .. Keys, k = [row |-> <<kind, x, n>>, mode |-> mode]
      PROVE  AtInsert(o, j, k)
  <2>1. k.row = <<kind, x, n>> /\ k.mode = mode
    BY <1>2
  <2> QED
    BY <2>1 DEF AtInsert
<1>3. k = Share(parent) \/ AtInsert(o, j, k)
  BY <1>1, <1>2
<1> QED
  BY <1>3 DEF k

\* A ladder: deletions, content_revision, insertions.
LEMMA LadderContents ==
  ASSUME NEW kind \in {"bands", "kantor"}, NEW x \in Owners(kind),
         NEW o, o[1] = kind, o[2] = x,
         NEW parent, Share(parent) \in Lock, AtReference(Share(parent)),
         NEW asked \in [1 .. Keys -> 1 .. Keys],
         LocksOf(o) = Delete(kind, x) \o <<Revision>>
                        \o Insert("own", kind, x, asked, parent)
  PROVE  Known(o)
<1> DEFINE d == Delete(kind, x)
           ins == Insert("own", kind, x, asked, parent)
           t == d \o <<Revision>>
           s == LocksOf(o)
<1>0. Keys \in Nat
  BY KeysAssumption
<1>1. /\ d \in Seq(Lock) /\ Len(d) = Keys
      /\ \A n \in 1 .. Keys : d[n] = Maybe(<<kind, x, n>>)
  BY DeleteTyped
<1>2. ins \in Seq(Lock)
  BY InsertTyped
<1>3. ASSUME NEW i \in 1 .. Len(ins), NEW j \in Nat, j > Keys
      PROVE  AtReference(ins[i]) \/ AtInsert(o, j, ins[i])
  BY <1>3, InsertContents DEF Lists
<1>4. s = t \o ins
  OBVIOUS
<1> HIDE DEF d, ins, s
<1>5. /\ t \in Seq(Lock) /\ Len(t) = Keys + 1
      /\ \A i \in 1 .. Len(t) : \/ i \in 1 .. Keys /\ t[i] = Maybe(<<kind, x, i>>)
                                \/ i = Keys + 1 /\ t[i] = Revision
  <2>1. /\ <<Revision>> \in Seq(Lock) /\ Len(<<Revision>>) = 1
        /\ <<Revision>>[1] = Revision
    BY Rows
  <2> QED
    BY <1>0, <1>1, <2>1, Concat
<1> HIDE DEF t
<1>6. /\ s \in Seq(Lock) /\ Len(s) = Keys + 1 + Len(ins) /\ Len(ins) \in Nat
      /\ \A i \in 1 .. Len(s) :
           \/ i \in 1 .. Keys /\ s[i] = Maybe(<<kind, x, i>>)
           \/ i = Keys + 1 /\ s[i] = Revision
           \/ i > Keys + 1 /\ \E h \in 1 .. Len(ins) : s[i] = ins[h]
  <2>1. /\ s \in Seq(Lock) /\ Len(s) = Keys + 1 + Len(ins) /\ Len(ins) \in Nat
        /\ \A i \in 1 .. Len(s) :
             \/ i \in 1 .. Len(t) /\ s[i] = t[i]
             \/ /\ i > Keys + 1 /\ i - (Keys + 1) \in 1 .. Len(ins)
                /\ s[i] = ins[i - (Keys + 1)]
    <3>1. /\ t \o ins \in Seq(Lock) /\ Len(t \o ins) = Len(t) + Len(ins)
          /\ Len(ins) \in Nat
          /\ \A i \in 1 .. Len(t \o ins) :
               \/ i \in 1 .. Len(t) /\ (t \o ins)[i] = t[i]
               \/ /\ i > Len(t) /\ i - Len(t) \in 1 .. Len(ins)
                  /\ (t \o ins)[i] = ins[i - Len(t)]
      <4>1. t \in Seq(Lock)
        BY <1>5
      <4> QED
        BY ONLY <1>2, <4>1, Concat, Zenon
    <3>2. Len(t) = Keys + 1
      BY <1>5
    <3> QED
      BY ONLY <1>4, <3>1, <3>2
  <2>2. \A i \in 1 .. Len(t) :
          s[i] = t[i] => \/ i \in 1 .. Keys /\ s[i] = Maybe(<<kind, x, i>>)
                         \/ i = Keys + 1 /\ s[i] = Revision
    BY <1>5
  <2> QED
    BY <2>1, <2>2, Zenon
<1>7. ASSUME NEW i \in 1 .. Len(s), i > Keys + 1
      PROVE  AtInsert(o, i, s[i]) \/ AtReference(s[i])
  <2>0. i \notin 1 .. Keys /\ i # Keys + 1
    BY ONLY <1>0, <1>7
  <2>1. PICK h \in 1 .. Len(ins) : s[i] = ins[h]
    BY <1>6, <2>0, Zenon
  <2>2. i \in Nat /\ i > Keys
    BY <1>0, <1>7
  <2> QED
    BY <1>3, <2>1, <2>2
<1>8. ASSUME NEW i \in 1 .. Len(s), i = Keys + 1, s[i] = Revision
      PROVE  AtRevision(o, i, s[i])
  <2>1. \A j \in 1 .. Len(s) : j > i => AtInsert(o, j, s[j]) \/ AtReference(s[j])
    BY <1>7, <1>8
  <2> QED
    BY <1>8, <2>1, Zenon DEF AtRevision, s
<1>9. ASSUME NEW i \in 1 .. Len(s)
      PROVE  At(o, i, s[i])
  <2>1. CASE i \in 1 .. Keys /\ s[i] = Maybe(<<kind, x, i>>)
    BY <2>1 DEF At, AtDelete, Lists
  <2>2. CASE i = Keys + 1 /\ s[i] = Revision
    BY <1>8, <1>9, <2>2, Zenon DEF At
  <2>3. CASE i > Keys + 1
    BY <1>7, <1>9, <2>3, Zenon DEF At
  <2> QED
    BY <1>6, <2>1, <2>2, <2>3
<1>10. ASSUME NEW n \in 1 .. Keys
       PROVE  s[n] = Maybe(<<kind, x, n>>)
  <2>1. n \in 1 .. Len(s) /\ n # Keys + 1 /\ ~(n > Keys + 1)
    BY ONLY <1>0, <1>6, <1>10
  <2> QED
    BY <1>6, <2>1, Zenon
<1> QED
  BY <1>6, <1>9, <1>10 DEF s, Known, Listed

\* A list of the accounts: deletions, insertions.
LEMMA ListContents ==
  ASSUME NEW kind \in {"roles", "perms"}, NEW x \in Owners(kind),
         NEW o, o[1] = kind, o[2] = x, NEW mode \in {"own", "maybe"},
         NEW parent, Share(parent) \in Lock, \A j \in Nat : At(o, j, Share(parent)),
         NEW asked \in [1 .. Keys -> 1 .. Keys],
         LocksOf(o) = Delete(kind, x) \o Insert(mode, kind, x, asked, parent)
  PROVE  Known(o)
<1> DEFINE d == Delete(kind, x)
           ins == Insert(mode, kind, x, asked, parent)
           s == LocksOf(o)
<1>0. Keys \in Nat
  BY KeysAssumption
<1>1. /\ d \in Seq(Lock) /\ Len(d) = Keys
      /\ \A n \in 1 .. Keys : d[n] = Maybe(<<kind, x, n>>)
  BY DeleteTyped
<1>2. ins \in Seq(Lock)
  BY InsertTyped
<1>3. ASSUME NEW i \in 1 .. Len(ins), NEW j \in Nat, j > Keys
      PROVE  At(o, j, ins[i])
  <2>1. ins[i] = Share(parent) \/ AtInsert(o, j, ins[i])
    BY <1>3, InsertContents DEF Lists
  <2> HIDE DEF ins
  <2> QED
    BY <2>1 DEF At
<1>4. s = d \o ins
  OBVIOUS
<1> HIDE DEF d, ins, s
<1>5. /\ s \in Seq(Lock) /\ Len(s) = Keys + Len(ins) /\ Len(ins) \in Nat
      /\ \A i \in 1 .. Len(s) :
           \/ i \in 1 .. Keys /\ s[i] = Maybe(<<kind, x, i>>)
           \/ i > Keys /\ \E h \in 1 .. Len(ins) : s[i] = ins[h]
  BY <1>0, <1>1, <1>2, <1>4, Concat
<1>6. ASSUME NEW i \in 1 .. Len(s)
      PROVE  At(o, i, s[i])
  <2>1. CASE i \in 1 .. Keys /\ s[i] = Maybe(<<kind, x, i>>)
    BY <2>1 DEF At, AtDelete, Lists
  <2>2. CASE i > Keys
    <3>0. i \notin 1 .. Keys /\ i \in Nat
      BY ONLY <1>0, <2>2, <1>6
    <3>1. PICK h \in 1 .. Len(ins) : s[i] = ins[h]
      BY <1>5, <3>0, Zenon
    <3> QED
      BY <1>3, <2>2, <3>0, <3>1
  <2> QED
    BY <1>5, <2>1, <2>2
<1>7. \A n \in 1 .. Keys : s[n] = Maybe(<<kind, x, n>>)
  BY <1>0, <1>5
<1> QED
  BY <1>5, <1>6, <1>7 DEF s, Known, Listed

\* The deletion of an account, and of what belongs to it.
LEMMA RemoveContents ==
  ASSUME NEW u \in Users
  PROVE  Known(<<"remove", u>>)
<1> DEFINE o == <<"remove", u>>
           s == DeleteUser(u)
           x == Own(<<"user", u>>)
           roles == Delete("roles", u)
           sessions == Delete("session", u)
           t == <<x>> \o roles
<1>0. Keys \in Nat
  BY KeysAssumption
<1>1. LocksOf(o) = s /\ s = t \o sessions
  BY Table DEF DeleteUser
<1>2. /\ roles \in Seq(Lock) /\ Len(roles) = Keys
      /\ \A n \in 1 .. Keys : roles[n] = Maybe(<<"roles", u, n>>)
      /\ sessions \in Seq(Lock) /\ Len(sessions) = Keys
      /\ \A n \in 1 .. Keys : sessions[n] = Maybe(<<"session", u, n>>)
  <2>1. u \in Owners("roles") /\ u \in Owners("session")
    BY DEF Owners
  <2> QED
    BY <2>1, DeleteTyped
<1>3. AtUser(o, 1, x)
  BY DEF AtUser, Own
<1>4. \A n \in 1 .. Keys : AtRoles(o, n + 1, Maybe(<<"roles", u, n>>))
  BY DEF AtRoles
<1>5. \A n \in 1 .. Keys : AtSession(o, 1 + Keys + n, Maybe(<<"session", u, n>>))
  BY DEF AtSession
<1>6. o[1] = "remove" /\ o[2] = u /\ x \in Lock
  BY Rows
<1> HIDE DEF o, s, roles, sessions, x
<1>7. /\ t \in Seq(Lock) /\ Len(t) = Keys + 1
      /\ \A i \in 1 .. Len(t) :
           \/ i = 1 /\ t[i] = x
           \/ i > 1 /\ i - 1 \in 1 .. Keys /\ t[i] = Maybe(<<"roles", u, i - 1>>)
  <2>1. <<x>> \in Seq(Lock) /\ Len(<<x>>) = 1 /\ <<x>>[1] = x
    BY <1>6
  <2> QED
    BY <1>0, <1>2, <2>1, Concat
<1> HIDE DEF t
<1>8. /\ s \in Seq(Lock) /\ Len(s) = Len(t) + Keys
      /\ \A i \in 1 .. Len(s) :
           \/ i \in 1 .. Len(t) /\ s[i] = t[i]
           \/ /\ i > Len(t) /\ i - Len(t) \in 1 .. Keys
              /\ s[i] = Maybe(<<"session", u, i - Len(t)>>)
  <2>1. /\ s \in Seq(Lock) /\ Len(s) = Len(t) + Len(sessions)
        /\ \A i \in 1 .. Len(s) :
             \/ i \in 1 .. Len(t) /\ s[i] = t[i]
             \/ /\ i > Len(t) /\ i - Len(t) \in 1 .. Len(sessions)
                /\ s[i] = sessions[i - Len(t)]
    <3>1. t \in Seq(Lock) /\ sessions \in Seq(Lock) /\ s = t \o sessions
      BY <1>1, <1>2, <1>7
    <3> QED
      BY ONLY <3>1, Concat, Zenon
  <2> QED
    BY ONLY <1>2, <2>1
<1>9. ASSUME NEW i \in 1 .. Len(s)
      PROVE  At(o, i, s[i])
  <2>1. CASE i \in 1 .. Len(t) /\ s[i] = t[i]
    <3>1. CASE i = 1 /\ t[i] = x
      BY <1>3, <2>1, <3>1 DEF At
    <3>2. CASE i - 1 \in 1 .. Keys /\ t[i] = Maybe(<<"roles", u, i - 1>>)
      <4>1. AtRoles(o, i - 1 + 1, t[i]) /\ i - 1 + 1 = i
        BY <1>0, <1>4, <3>2
      <4> QED
        BY <2>1, <4>1 DEF At
    <3> QED
      BY <1>7, <2>1, <3>1, <3>2
  <2>2. CASE i - Len(t) \in 1 .. Keys /\ s[i] = Maybe(<<"session", u, i - Len(t)>>)
    <3>1. 1 + Keys + (i - Len(t)) = i
      BY ONLY <1>0, <1>7
    <3>2. AtSession(o, 1 + Keys + (i - Len(t)), s[i])
      BY <1>5, <2>2
    <3> QED
      BY <3>1, <3>2 DEF At
  <2> QED
    BY <1>8, <2>1, <2>2
<1>10. s[1] = x
  <2>1. 1 \in 1 .. Len(s) /\ 1 \in 1 .. Len(t) /\ ~(1 > Len(t)) /\ ~(1 > 1)
    BY <1>0, <1>7, <1>8
  <2> QED
    BY <1>7, <1>8, <2>1
<1>11. Known(o)
  BY <1>1, <1>6, <1>8, <1>9, <1>10 DEF Known, Listed, Lists, x
<1> QED
  BY <1>11 DEF o

\* Sessions, in the order of their keys or another.
LEMMA LogoutContents ==
  ASSUME NEW u \in Users
  PROVE  Known(<<"logout", u>>)
<1> DEFINE o == <<"logout", u>>
           s == Delete("session", u)
<1>1. LocksOf(o) = s
  BY Table DEF DeleteUserSessions
<1>2. /\ s \in Seq(Lock) /\ Len(s) = Keys
      /\ \A n \in 1 .. Keys : s[n] = Maybe(<<"session", u, n>>)
  <2>1. u \in Owners("session")
    BY DEF Owners
  <2> QED
    BY <2>1, DeleteTyped
<1>3. \A n \in 1 .. Keys : AtSession(o, n, Maybe(<<"session", u, n>>))
  BY DEF AtSession
<1>4. o[1] \notin Lists \cup {"remove"}
  BY DEF Lists
<1> HIDE DEF o, s
<1>5. \A i \in 1 .. Len(s) : At(o, i, s[i])
  BY <1>2, <1>3 DEF At
<1>6. Known(o)
  BY <1>1, <1>2, <1>4, <1>5 DEF Known, Listed
<1> QED
  BY <1>6 DEF o

LEMMA PurgeContents ==
  ASSUME NEW q \in Sweeps
  PROVE  Known(<<"purge", q>>)
<1> DEFINE o == <<"purge", q>>
           s == PurgeExpiredSessions(q)
           all == Users \X (1 .. Keys)
           n == Cardinality(all)
<1>1. LocksOf(o) = s
  BY Table
<1>2. n \in Nat
  <2>1. IsFiniteSet(1 .. Keys)
    BY KeysAssumption, FS_Interval
  <2>2. IsFiniteSet(all)
    BY <2>1, FiniteAssumption, FS_Product
  <2> HIDE DEF all
  <2> QED
    BY <2>2, FS_CardinalityType
<1>3. q \in [1 .. n -> all]
  BY DEF Sweeps
<1> HIDE DEF n
<1>4. \A i \in 1 .. n : q[i][1] \in Users /\ q[i][2] \in 1 .. Keys
  BY <1>3
<1>5. s = [i \in 1 .. n |-> Maybe(<<"session", q[i][1], q[i][2]>>)]
  BY <1>3 DEF PurgeExpiredSessions
<1>6. o[1] = "purge"
  OBVIOUS
<1> HIDE DEF o
<1>7. \A i \in 1 .. n : /\ Maybe(<<"session", q[i][1], q[i][2]>>) \in Lock
                        /\ AtSession(o, i, Maybe(<<"session", q[i][1], q[i][2]>>))
  <2>1. \A u \in Users, m \in 1 .. Keys : Maybe(<<"session", u, m>>) \in Lock
    BY ListRows DEF Owners, Maybe
  <2>2. \A u \in Users, m \in 1 .. Keys : \A i : AtSession(o, i, Maybe(<<"session", u, m>>))
    BY <1>6 DEF AtSession
  <2> QED
    BY <1>4, <2>1, <2>2
<1>8. /\ s \in Seq(Lock) /\ Len(s) = n
      /\ \A i \in 1 .. n : s[i] = Maybe(<<"session", q[i][1], q[i][2]>>)
  <2> DEFINE m(i) == Maybe(<<"session", q[i][1], q[i][2]>>)
             e == [i \in 1 .. n |-> m(i)]
  <2>1. \A i \in 1 .. n : m(i) \in Lock
    BY <1>7
  <2> HIDE DEF m
  <2>2. e \in Seq(Lock) /\ Len(e) = n /\ \A i \in 1 .. n : e[i] = m(i)
    BY <1>2, <2>1
  <2>3. s = e
    BY <1>5 DEF m
  <2> HIDE DEF s, e
  <2> QED
    BY <2>2, <2>3 DEF m
<1> HIDE DEF s
<1>9. \A i \in 1 .. Len(s) : At(o, i, s[i])
  BY <1>7, <1>8 DEF At
<1>10. Known(o)
  <2>1. o[1] \notin Lists \cup {"remove"}
    BY <1>6 DEF Lists
  <2> QED
    BY <1>1, <1>8, <1>9, <2>1 DEF Known, Listed
<1> QED
  BY <1>10 DEF o

\* The locks of every write, and what is known of those of all but the seed's.
LEMMA Contents ==
  ASSUME NEW o \in Writes
  PROVE  LocksOf(o) \in Seq(Lock) /\ (o # <<"seed">> => Listed(o))
<1> USE DEF Own, Update, Share
<1>1. ASSUME NEW w \in Weeks, NEW c \in BOOLEAN, o = <<"upsert", w, c>>
      PROVE  Known(o)
  <2> DEFINE x == Own(<<"week", w>>)
             b == Each("share", {"plan"} \X Plans)
  <2>1. x \in Lock /\ AtWeek(o, 1, x)
    BY <1>1, Rows DEF AtWeek
  <2>2. b \in Seq(Lock) /\ \A h \in 1 .. Len(b) : AtReference(b[h])
    BY PlansTyped DEF AtReference
  <2>3. LocksOf(o) = <<x>> \o Claim(o[2], o[3]) \o <<Revision>> \o b
    BY <1>1, Table DEF UpsertCycle
  <2>4. o[1] \in {"upsert", "publish"} /\ o[3] \in BOOLEAN
    BY <1>1
  <2> HIDE DEF x, b
  <2> QED
    BY <2>1, <2>2, <2>3, <2>4, WeekContents
<1>2. ASSUME NEW w \in Weeks, NEW c \in BOOLEAN, o = <<"publish", w, c>>
      PROVE  Known(o)
  <2> DEFINE x == Update(<<"week", w>>)
             b == <<>>
  <2>1. x \in Lock /\ AtWeek(o, 1, x)
    BY <1>2, Rows DEF AtWeek
  <2>2. b \in Seq(Lock) /\ \A h \in 1 .. Len(b) : AtReference(b[h])
    OBVIOUS
  <2>3. LocksOf(o) = <<x>> \o Claim(o[2], o[3]) \o <<Revision>> \o b
    <3>1. LocksOf(o) = <<x>> \o Claim(o[2], o[3]) \o <<Revision>>
      BY <1>2, Table DEF PublishCycle
    <3>2. <<x>> \o Claim(o[2], o[3]) \o <<Revision>> \in Seq(Lock)
      <4>1. /\ <<x>> \in Seq(Lock) /\ Claim(o[2], o[3]) \in Seq(Lock)
            /\ <<Revision>> \in Seq(Lock)
        BY <1>2, <2>1, ClaimTyped, Rows
      <4> QED
        BY <4>1, Concat
    <3>3. \A t \in Seq(Lock) : t \o <<>> = t
      OBVIOUS
    <3> QED
      BY <3>1, <3>2, <3>3, Zenon
  <2>4. o[1] \in {"upsert", "publish"} /\ o[3] \in BOOLEAN
    BY <1>2
  <2> HIDE DEF x, b
  <2> QED
    BY <2>1, <2>2, <2>3, <2>4, WeekContents
<1>3. ASSUME NEW w \in Weeks, o = <<"delete", w>>
      PROVE  Known(o)
  <2>1. LocksOf(o) = <<Own(<<"week", w>>), Revision>>
    BY <1>3, Table DEF DeleteCycle
  <2>2. AtWeek(o, 1, Own(<<"week", w>>)) /\ o[1] \notin Lists \cup {"remove"}
    BY <1>3 DEF AtWeek, Lists
  <2> QED
    BY <2>1, <2>2, Rows, RowContents
<1>4. ASSUME NEW k \in {Update(<<"rates", p>>) : p \in Plans}
                       \cup {Update(<<"param", m>>) : m \in Params}
                       \cup {Update(<<"rules">>)},
             LocksOf(o) = <<k, Revision>>, o[1] \in {"rates", "param", "rules"}
      PROVE  Known(o)
  <2>1. k \in Lock /\ AtOneRow(1, k)
    BY <1>4, Rows DEF AtOneRow
  <2>2. o[1] \notin Lists \cup {"remove"}
    BY <1>4 DEF Lists
  <2> QED
    BY <1>4, <2>1, <2>2, RowContents
<1>5. ASSUME NEW p \in Plans, o = <<"rates", p>>
      PROVE  Known(o)
  <2>1. LocksOf(o) = <<Update(<<"rates", p>>), Revision>> /\ o[1] = "rates"
    BY <1>5, Table DEF SetPlanRates
  <2> QED
    BY <1>4, <2>1
<1>6. ASSUME NEW m \in Params, o = <<"param", m>>
      PROVE  Known(o)
  <2>1. LocksOf(o) = <<Update(<<"param", m>>), Revision>> /\ o[1] = "param"
    BY <1>6, Table DEF SetParam
  <2> QED
    BY <1>4, <2>1
<1>7. ASSUME o = <<"rules">>
      PROVE  Known(o)
  <2>1. LocksOf(o) = <<Update(<<"rules">>), Revision>> /\ o[1] = "rules"
    BY <1>7, Table DEF SetPricingRules
  <2> QED
    BY <1>4, <2>1
<1>8. ASSUME o = <<"nothing">>
      PROVE  Known(o)
  <2>1. LocksOf(o) = <<Revision>> /\ o[1] = "nothing"
    BY <1>8, Table DEF NothingFound
  <2>2. At(o, 1, Revision)
    <3>1. Len(LocksOf(o)) = 1
      BY <2>1
    <3>2. AtRevision(o, 1, Revision)
      BY <3>1 DEF AtRevision
    <3> QED
      BY <3>2 DEF At
  <2> QED
    BY <2>1, <2>2, Rows, LockContents DEF Lists
<1>9. ASSUME NEW k \in Packages, NEW s \in Requests, o = <<"bands", k, s>>
      PROVE  Known(o)
  <2>1. LocksOf(o) = Delete("bands", k) \o <<Revision>>
                       \o Insert("own", "bands", k, s, <<"package", k>>)
    BY <1>9, Table DEF SetTierPrices
  <2>2. /\ Share(<<"package", k>>) \in Lock /\ AtReference(Share(<<"package", k>>))
        /\ k \in Owners("bands") /\ o[1] = "bands" /\ o[2] = k
    BY <1>9, Rows DEF AtReference, Owners
  <2> QED
    BY <2>1, <2>2, Asks, LadderContents
<1>10. ASSUME NEW g \in Grades, NEW s \in Requests, o = <<"kantor", g, s>>
       PROVE  Known(o)
  <2>1. LocksOf(o) = Delete("kantor", g) \o <<Revision>>
                       \o Insert("own", "kantor", g, s, <<"period">>)
    BY <1>10, Table DEF SetKantorRates
  <2>2. /\ Share(<<"period">>) \in Lock /\ AtReference(Share(<<"period">>))
        /\ g \in Owners("kantor") /\ o[1] = "kantor" /\ o[2] = g
    BY <1>10, Rows DEF AtReference, Owners
  <2> QED
    BY <2>1, <2>2, Asks, LadderContents
<1>11. ASSUME NEW u \in Users, NEW s \in Requests, o = <<"roles", u, s>>
       PROVE  Known(o)
  <2>1. LocksOf(o) = Delete("roles", u) \o Insert("maybe", "roles", u, s, <<"user", u>>)
    BY <1>11, Table DEF SetUserRoles
  <2>2. /\ Share(<<"user", u>>) \in Lock /\ u \in Owners("roles")
        /\ o[1] = "roles" /\ o[2] = u
    BY <1>11, Rows DEF Owners
  <2>3. \A j \in Nat : At(o, j, Share(<<"user", u>>))
    BY <2>2 DEF AtUser, At
  <2> QED
    BY <2>1, <2>2, <2>3, Asks, ListContents
<1>12. ASSUME NEW r \in Roles, NEW s \in Requests, o = <<"perms", r, s>>
       PROVE  Known(o)
  <2>1. LocksOf(o) = Delete("perms", r) \o Insert("own", "perms", r, s, <<"role", r>>)
    BY <1>12, Table DEF SetRolePermissions
  <2>2. /\ Share(<<"role", r>>) \in Lock /\ r \in Owners("perms")
        /\ o[1] = "perms" /\ o[2] = r
    BY <1>12, Rows DEF Owners
  <2>3. \A j \in Nat : At(o, j, Share(<<"role", r>>))
    BY DEF AtReference, At
  <2> QED
    BY <2>1, <2>2, <2>3, Asks, ListContents
<1>13. ASSUME NEW u \in Users, NEW k \in Lock, LocksOf(o) = <<k>>, AtUser(o, 1, k),
              o[1] \in {"create", "update", "login"}
       PROVE  Known(o)
  <2>1. At(o, 1, k) /\ o[1] \notin Lists \cup {"remove"}
    BY <1>13 DEF At, Lists
  <2> QED
    BY <1>13, <2>1, LockContents
<1>14. ASSUME NEW u \in Users, o \in {<<"create", u>>, <<"update", u>>, <<"login", u>>}
       PROVE  Known(o)
  <2>1. CASE o = <<"create", u>>
    <3>1. LocksOf(o) = <<Own(<<"user", u>>)>> /\ AtUser(o, 1, Own(<<"user", u>>)) /\ o[1] = "create"
      BY <2>1, Table DEF CreateUser, AtUser
    <3> QED
      BY <1>13, <3>1, Rows
  <2>2. CASE o = <<"update", u>>
    <3>1. LocksOf(o) = <<Update(<<"user", u>>)>> /\ AtUser(o, 1, Update(<<"user", u>>)) /\ o[1] = "update"
      BY <2>2, Table DEF UpdateUser, AtUser
    <3> QED
      BY <1>13, <3>1, Rows
  <2>3. CASE o = <<"login", u>>
    <3>1. LocksOf(o) = <<Share(<<"user", u>>)>> /\ AtUser(o, 1, Share(<<"user", u>>)) /\ o[1] = "login"
      BY <2>3, Table DEF CreateSession, AtUser
    <3> QED
      BY <1>13, <3>1, Rows
  <2> QED
    BY <1>14, <2>1, <2>2, <2>3
<1>15. CASE o = <<"seed">>
  BY <1>15, Table, SeedTyped
<1> QED
  <2>1. \/ Known(o)
        \/ o = <<"seed">>
    BY <1>1, <1>2, <1>3, <1>5, <1>6, <1>7, <1>8, <1>9, <1>10, <1>11, <1>12, <1>14,
       RemoveContents, LogoutContents, PurgeContents, WriteKinds, Zenon
  <2> QED
    BY <2>1, <1>15 DEF Known

-----------------------------------------------------------------------------
(* The invariant *)

\* What each connection asks for is what its write asks for.
LocksAreTheWrites ==
  /\ DOMAIN locks = Procs
  /\ \A p \in Procs : locks[p] = IF op[p] = Idle THEN <<>> ELSE LocksOf(op[p])

\* No two connections hold locks one of which had to wait for the other.
HeldAgree ==
  \A p, q \in Procs : p # q =>
    \A k \in Held(p), l \in Held(q) : k.mode # "check" => ~Conflict(k, l)

IInv == TypeOK /\ LocksAreTheWrites /\ HeldAgree

\* Locks that wait for each other do so either way round, but for a check.
LEMMA ConflictIsMutual ==
  ASSUME NEW k, NEW l, k.mode # "check", l.mode # "check", ~Conflict(k, l)
  PROVE  ~Conflict(l, k)
BY DEF Conflict

\* The lists of locks are sequences of locks.
LEMMA LockLists ==
  ASSUME TypeOK, LocksAreTheWrites, NEW p \in Procs
  PROVE  /\ locks[p] \in Seq(Lock) /\ Len(locks[p]) \in Nat
         /\ op[p] \in Writes \cup {Idle} /\ pos[p] \in Nat /\ pos[p] <= Len(locks[p])
<1>1. op[p] \in Writes \cup {Idle} /\ pos[p] \in Nat /\ pos[p] <= Len(locks[p])
  BY DEF TypeOK
<1>2. locks[p] \in Seq(Lock)
  <2>1. CASE op[p] = Idle
    <3>1. locks[p] = <<>>
      BY <2>1 DEF LocksAreTheWrites
    <3> QED
      BY <3>1
  <2>2. CASE op[p] # Idle
    BY <2>2, <1>1, Contents DEF LocksAreTheWrites
  <2> QED
    BY <2>1, <2>2
<1> QED
  BY <1>1, <1>2

\* Nobody writes and nobody holds anything.
LEMMA Initially == Init => IInv
<1> SUFFICES ASSUME Init PROVE IInv
  OBVIOUS
<1>1. TypeOK
  BY DEF Init, TypeOK
<1>2. LocksAreTheWrites
  BY DEF Init, LocksAreTheWrites
<1>3. HeldAgree
  <2>1. \A p \in Procs : Held(p) = {}
    BY DEF Init, Held
  <2> QED
    BY <2>1 DEF HeldAgree
<1> QED
  BY <1>1, <1>2, <1>3 DEF IInv

\* A connection starts to write or stops: it holds nothing afterwards.
LEMMA Empties ==
  ASSUME IInv, NEW p \in Procs, NEW o \in Writes \cup {Idle},
         op' = [op EXCEPT ![p] = o],
         locks' = [locks EXCEPT ![p] = IF o = Idle THEN <<>> ELSE LocksOf(o)],
         pos' \in [Procs -> Nat], pos'[p] = 0, \A q \in Procs \ {p} : pos'[q] = pos[q],
         missed' = [missed EXCEPT ![p] = {}]
  PROVE  IInv'
<1>0. o # Idle => LocksOf(o) \in Seq(Lock)
  BY Contents
<1> DEFINE list == IF o = Idle THEN <<>> ELSE LocksOf(o)
<1>1. Len(list) \in Nat
  BY <1>0
<1>2. /\ locks'[p] = list /\ DOMAIN locks' = Procs
      /\ \A q \in Procs \ {p} : locks'[q] = locks[q]
  BY DEF IInv, LocksAreTheWrites
<1> HIDE DEF list
<1>3. op' \in [Procs -> Writes \cup {Idle}] /\ op'[p] = o /\ \A q \in Procs \ {p} : op'[q] = op[q]
  BY DEF IInv, TypeOK
<1>4. /\ missed' \in [Procs -> SUBSET Nat] /\ missed'[p] = {}
      /\ \A q \in Procs \ {p} : missed'[q] = missed[q]
  BY DEF IInv, TypeOK
<1>5. TypeOK'
  <2>1. ASSUME NEW q \in Procs
        PROVE  /\ pos'[q] <= Len(locks'[q])
               /\ \A i \in missed'[q] : i \in 1 .. pos'[q] /\ locks'[q][i].mode = "maybe"
    <3>1. CASE q = p
      BY <1>1, <1>2, <1>4, <3>1
    <3>2. CASE q # p
      BY <1>2, <1>4, <3>2 DEF IInv, TypeOK
    <3> QED
      BY <3>1, <3>2
  <2> QED
    BY <1>3, <1>4, <2>1 DEF TypeOK
<1>6. LocksAreTheWrites'
  BY <1>2, <1>3 DEF IInv, LocksAreTheWrites, list
<1>7. HeldAgree'
  <2>1. Held(p)' = {} /\ \A q \in Procs \ {p} : Held(q)' = Held(q)
    BY <1>2, <1>4 DEF Held
  <2> QED
    BY <2>1 DEF HeldAgree, IInv
<1> QED
  BY <1>5, <1>6, <1>7 DEF IInv

\* A lock is got when no holder of another stands in its way.
LEMMA AcquireKeeps ==
  ASSUME IInv, NEW p \in Procs, Acquire(p)
  PROVE  IInv'
<1> DEFINE k == locks[p][pos[p] + 1]
<1>0. op' = op /\ locks' = locks /\ missed' = missed /\ pos' = [pos EXCEPT ![p] = pos[p] + 1]
  BY DEF Acquire
<1>1. pos[p] \in Nat /\ Len(locks[p]) \in Nat /\ pos[p] < Len(locks[p])
  BY LockLists DEF IInv, Acquire
<1>2. pos' \in [Procs -> Nat] /\ pos'[p] = pos[p] + 1 /\ \A q \in Procs \ {p} : pos'[q] = pos[q]
  BY <1>0, <1>1 DEF IInv, TypeOK
<1>3. TypeOK'
  <2>1. \A i \in missed[p] : i \in 1 .. pos[p] + 1 /\ locks[p][i].mode = "maybe"
    BY <1>1 DEF IInv, TypeOK
  <2> QED
    BY <1>0, <1>1, <1>2, <2>1 DEF IInv, TypeOK
<1>4. LocksAreTheWrites'
  BY <1>0 DEF IInv, LocksAreTheWrites
<1>5. Held(p)' = Held(p) \cup {k} /\ \A q \in Procs \ {p} : Held(q)' = Held(q)
  <2>1. (1 .. pos[p] + 1) \ missed[p] = ((1 .. pos[p]) \ missed[p]) \cup {pos[p] + 1}
    BY <1>1 DEF IInv, TypeOK
  <2>2. Held(p)' = {locks[p][i] : i \in (1 .. pos[p] + 1) \ missed[p]}
    BY <1>0, <1>2 DEF Held
  <2>3. \A q \in Procs \ {p} : Held(q)' = Held(q)
    BY <1>0, <1>2 DEF Held
  <2> QED
    BY <2>1, <2>2, <2>3 DEF Held
<1>6. \A q \in Procs \ {p} : \A l \in Held(q) : ~Conflict(k, l)
  BY <1>1 DEF Acquire, WaitsFor
<1> HIDE DEF k
<1>7. ASSUME NEW r \in Procs, NEW q \in Procs, r # q,
             NEW h \in Held(r)', NEW l \in Held(q)', h.mode # "check"
      PROVE  ~Conflict(h, l)
  <2>1. CASE r = p /\ h = k
    BY <2>1, <1>5, <1>6, <1>7
  <2>2. CASE q = p /\ l = k
    <3>1. ~Conflict(l, h)
      BY <2>2, <1>5, <1>6, <1>7
    <3>2. CASE l.mode = "check"
      BY <3>2 DEF Conflict
    <3>3. CASE l.mode # "check"
      BY <1>7, <3>1, <3>3, ConflictIsMutual
    <3> QED
      BY <3>2, <3>3
  <2>3. CASE h \in Held(r) /\ l \in Held(q)
    BY <2>3, <1>7 DEF IInv, HeldAgree
  <2> QED
    BY <2>1, <2>2, <2>3, <1>5, <1>7
<1>8. HeldAgree'
  <2>1. \A r, q \in Procs : r # q =>
          \A h \in Held(r)', l \in Held(q)' : h.mode # "check" => ~Conflict(h, l)
    BY <1>7
  <2> QED
    BY <2>1 DEF HeldAgree
<1> QED
  BY <1>3, <1>4, <1>8 DEF IInv

\* A row that is not there leaves a connection with what it holds.
LEMMA MissKeeps ==
  ASSUME IInv, NEW p \in Procs, Miss(p)
  PROVE  IInv'
<1>0. /\ op' = op /\ locks' = locks /\ pos' = [pos EXCEPT ![p] = pos[p] + 1]
      /\ missed' = [missed EXCEPT ![p] = missed[p] \cup {pos[p] + 1}]
      /\ locks[p][pos[p] + 1].mode = "maybe"
  BY DEF Miss
<1>1. pos[p] \in Nat /\ Len(locks[p]) \in Nat /\ pos[p] < Len(locks[p])
  BY LockLists DEF IInv, Miss
<1>2. /\ pos' \in [Procs -> Nat] /\ pos'[p] = pos[p] + 1
      /\ missed' \in [Procs -> SUBSET Nat] /\ missed'[p] = missed[p] \cup {pos[p] + 1}
      /\ \A q \in Procs \ {p} : pos'[q] = pos[q] /\ missed'[q] = missed[q]
  BY <1>0, <1>1 DEF IInv, TypeOK
<1>3. TypeOK'
  <2>1. \A i \in missed'[p] : i \in 1 .. pos[p] + 1 /\ locks[p][i].mode = "maybe"
    BY <1>0, <1>1, <1>2 DEF IInv, TypeOK
  <2> QED
    BY <1>0, <1>1, <1>2, <2>1 DEF IInv, TypeOK
<1>4. LocksAreTheWrites'
  BY <1>0 DEF IInv, LocksAreTheWrites
<1>5. \A q \in Procs : Held(q)' = Held(q)
  <2>1. (1 .. pos[p] + 1) \ (missed[p] \cup {pos[p] + 1}) = (1 .. pos[p]) \ missed[p]
    BY <1>1
  <2>2. Held(p)' = Held(p)
    BY <1>0, <1>2, <2>1 DEF Held
  <2>3. \A q \in Procs \ {p} : Held(q)' = Held(q)
    BY <1>0, <1>2 DEF Held
  <2> QED
    BY <2>2, <2>3
<1>6. HeldAgree'
  BY <1>5 DEF IInv, HeldAgree
<1> QED
  BY <1>3, <1>4, <1>6 DEF IInv

\* The invariant is inductive.
LEMMA Invariance == IInv /\ [Next]_vars => IInv'
<1> SUFFICES ASSUME IInv, [Next]_vars PROVE IInv'
  OBVIOUS
<1>0. pos \in [Procs -> Nat] /\ \A p \in Procs : op[p] \in Writes \cup {Idle}
  BY DEF IInv, TypeOK
<1>1. ASSUME NEW p \in Procs, Begin(p)
      PROVE  IInv'
  <2>1. PICK o \in Writes : /\ op' = [op EXCEPT ![p] = o]
                            /\ locks' = [locks EXCEPT ![p] = LocksOf(o)]
    BY <1>1 DEF Begin
  <2>2. o # Idle
    BY DEF Writes, ContentWrites, AccountWrites, Idle
  <2>3. pos' = pos /\ pos[p] = 0 /\ locks[p] = <<>>
    <3>1. locks[p] = <<>>
      BY <1>1 DEF Begin, IInv, LocksAreTheWrites
    <3> QED
      BY <1>1, <3>1 DEF Begin, IInv, TypeOK
  <2>4. missed' = [missed EXCEPT ![p] = {}]
    <3>1. missed' = missed /\ missed \in [Procs -> SUBSET Nat]
      BY <1>1 DEF Begin, IInv, TypeOK
    <3>2. missed[p] = {}
      BY <2>3 DEF IInv, TypeOK
    <3> QED
      BY <3>1, <3>2
  <2> QED
    BY <1>0, <2>1, <2>2, <2>3, <2>4, Empties
<1>2. ASSUME NEW p \in Procs, Release(p)
      PROVE  IInv'
  <2>1. /\ op' = [op EXCEPT ![p] = Idle]
        /\ locks' = [locks EXCEPT ![p] = <<>>]
        /\ pos' = [pos EXCEPT ![p] = 0]
        /\ missed' = [missed EXCEPT ![p] = {}]
    BY <1>2 DEF Release
  <2> QED
    BY <1>0, <2>1, Empties
<1>3. CASE UNCHANGED vars
  <2>1. op' = op /\ locks' = locks /\ pos' = pos /\ missed' = missed
    BY <1>3 DEF vars
  <2>2. TypeOK' /\ LocksAreTheWrites'
    BY <2>1 DEF IInv, TypeOK, LocksAreTheWrites
  <2>3. \A p \in Procs : Held(p)' = Held(p)
    BY <2>1 DEF Held
  <2>4. HeldAgree'
    BY <2>3 DEF IInv, HeldAgree
  <2> QED
    BY <2>2, <2>4 DEF IInv
<1> QED
  BY <1>1, <1>2, <1>3, AcquireKeeps, MissKeeps
     DEF Next, Commit, Fail, Detect, AnswerDeadlock

\* Every connection is making one of the writes above, or none, has got no more
\* locks than the write asks for, and has missed only rows it may do without.
THEOREM WritesAreTyped == Spec => []TypeOK
<1>1. IInv => TypeOK
  BY DEF IInv
<1> QED
  BY Initially, Invariance, <1>1, PTL DEF Spec

-----------------------------------------------------------------------------
(* Who waits for whom *)

\* Which locks there are on a row of each kind.
LEMMA ByRow ==
  ASSUME NEW o, NEW i, NEW k, At(o, i, k)
  PROVE  /\ k.row[1] = "week" => AtWeek(o, i, k) \/ AtCheck(o, k)
         /\ k.row[1] \in {"plan", "package", "period", "role"} => AtReference(k)
         /\ k.row[1] = "revision" => AtRevision(o, i, k)
         /\ k.row[1] = "user" => AtUser(o, i, k)
         /\ k.row[1] \in Lists => AtDelete(o, i, k) \/ AtInsert(o, i, k) \/ AtRoles(o, i, k)
         /\ k.row[1] = "session" => AtSession(o, i, k)
<1>1. /\ AtWeek(o, i, k) => k.row[1] = "week"
      /\ AtCheck(o, k) => k.row[1] = "week"
      /\ AtReference(k) => k.row[1] \in {"plan", "package", "period", "role"}
      /\ AtOneRow(i, k) => k.row[1] \in {"rates", "param", "rules"}
      /\ AtUser(o, i, k) => k.row[1] = "user"
  BY DEF AtWeek, AtCheck, AtReference, AtOneRow, AtUser
<1>2. AtRevision(o, i, k) => k.row[1] = "revision"
  BY DEF AtRevision, Revision, Update
<1>3. /\ AtInsert(o, i, k) => k.row[1] \in Lists
      /\ AtDelete(o, i, k) => k.row[1] \in Lists
      /\ AtRoles(o, i, k) => k.row[1] \in Lists
      /\ AtSession(o, i, k) => k.row[1] = "session"
  BY DEF AtInsert, AtDelete, AtRoles, AtSession, Maybe, Lists
<1> QED
  BY <1>1, <1>2, <1>3 DEF At, Lists

Asked(p) == locks[p][pos[p] + 1]

\* What DeadlocksAreKnown says of one set.
KnownCircle(S) ==
  \/ S \cap Making("seed") # {}
  \/ \E p, q \in S : p # q /\ Claiming(p) /\ Claiming(q)
  \/ \E p, q \in S : p # q /\ SameList(p, q) /\ missed[p] # {}
  \/ \E p \in S \cap Making("remove"), q \in S \cap Making("roles") :
       op[p][2] = op[q][2]
  \/ \E p \in S \cap Making("purge"), q \in S :
       p # q /\ op[q][1] \in {"purge", "logout", "remove"}

\* A deadlock that is none of the known ones.
Stuck(S) ==
  /\ IInv
  /\ S \in SUBSET Procs /\ Deadlock(S) /\ ~KnownCircle(S)

\* What is known of each of its members.
LEMMA Member ==
  ASSUME NEW S, Stuck(S), NEW p \in S
  PROVE  /\ p \in Procs /\ op[p] \in Writes /\ locks[p] = LocksOf(op[p])
         /\ pos[p] \in Nat /\ Len(locks[p]) \in Nat /\ pos[p] < Len(locks[p])
         /\ At(op[p], pos[p] + 1, Asked(p))
         /\ \A i \in 1 .. pos[p] : At(op[p], i, locks[p][i])
         /\ Listed(op[p])
         /\ \E q \in S \ {p} : \E l \in Held(q) : Conflict(Asked(p), l)
<1>0. p \in Procs /\ IInv
  BY DEF Stuck
<1>1. /\ pos[p] \in Nat /\ Len(locks[p]) \in Nat /\ pos[p] <= Len(locks[p])
      /\ op[p] \in Writes \cup {Idle}
  BY <1>0, LockLists DEF IInv
<1>2. WaitsFor(p) \cap S # {}
  BY DEF Stuck, Deadlock
<1>3. /\ pos[p] # Len(locks[p])
      /\ \E q \in S \ {p} : \E l \in Held(q) : Conflict(Asked(p), l)
  BY <1>2 DEF WaitsFor, Asked
<1>4. op[p] # Idle
  <2>1. SUFFICES ASSUME op[p] = Idle PROVE FALSE
    OBVIOUS
  <2>2. locks[p] = <<>>
    BY <1>0, <2>1 DEF IInv, LocksAreTheWrites
  <2> QED
    BY <1>1, <1>3, <2>2
<1>5. op[p] \in Writes /\ locks[p] = LocksOf(op[p])
  BY <1>0, <1>1, <1>4 DEF IInv, LocksAreTheWrites
<1>6. op[p] # <<"seed">>
  <2>1. SUFFICES ASSUME op[p] = <<"seed">> PROVE FALSE
    OBVIOUS
  <2>2. op[p][1] = "seed"
    BY <2>1
  <2> QED
    BY <1>0, <2>2 DEF Stuck, KnownCircle, Making
<1>7. Listed(op[p])
  BY <1>5, <1>6, Contents
<1>8. \A i \in 1 .. Len(locks[p]) : At(op[p], i, locks[p][i])
  BY <1>5, <1>7, Zenon DEF Listed
<1>9. pos[p] + 1 \in 1 .. Len(locks[p]) /\ \A i \in 1 .. pos[p] : i \in 1 .. Len(locks[p])
  BY <1>1, <1>3
<1>10. pos[p] < Len(locks[p])
  BY <1>1, <1>3
<1> QED
  BY <1>0, <1>1, <1>3, <1>5, <1>7, <1>8, <1>9, <1>10 DEF Asked

\* What p asks for, q has, as its i-th lock.
Blocks(S, p, q, i) ==
  /\ Stuck(S) /\ p \in S /\ q \in S \ {p} /\ i \in (1 .. pos[q]) \ missed[q]
  /\ Conflict(Asked(p), locks[q][i])

LEMMA Blocker ==
  ASSUME NEW S, Stuck(S), NEW p \in S
  PROVE  \E q \in S \ {p} : \E i \in Nat : Blocks(S, p, q, i)
<1>1. PICK q \in S \ {p} : \E l \in Held(q) : Conflict(Asked(p), l)
  BY Member
<1>2. PICK i \in (1 .. pos[q]) \ missed[q] : Conflict(Asked(p), locks[q][i])
  BY <1>1 DEF Held
<1> QED
  BY <1>2 DEF Blocks

\* Its holder is a member itself, and asks for a later lock.
LEMMA Holder ==
  ASSUME NEW S, NEW p, NEW q, NEW i, Blocks(S, p, q, i)
  PROVE  /\ Stuck(S) /\ p \in S /\ q \in S /\ p # q /\ p \in Procs /\ q \in Procs
         /\ i \in Nat /\ i > 0 /\ pos[q] \in Nat /\ pos[q] >= i
         /\ At(op[q], i, locks[q][i])
         /\ locks[q][i].row = Asked(p).row /\ locks[q][i] \in Held(q)
         /\ Conflict(Asked(p), locks[q][i])
<1>1. /\ Stuck(S) /\ p \in S /\ q \in S /\ p # q /\ i \in 1 .. pos[q] /\ i \notin missed[q]
      /\ Conflict(Asked(p), locks[q][i])
  BY DEF Blocks
<1>2. p \in Procs /\ q \in Procs /\ pos[q] \in Nat /\ At(op[q], i, locks[q][i])
  BY <1>1, Member
<1>3. i \in Nat /\ i > 0 /\ pos[q] >= i
  BY <1>1, <1>2
<1>4. locks[q][i] \in Held(q)
  BY <1>1 DEF Held
<1>5. locks[q][i].row = Asked(p).row
  BY <1>1 DEF Conflict
<1> QED
  BY <1>1, <1>2, <1>3, <1>4, <1>5

\* Nobody waits for a row another write only refers to.
LEMMA ReferenceIsFree ==
  ASSUME NEW S, Stuck(S), NEW p \in S
  PROVE  ~AtReference(Asked(p))
<1> SUFFICES ASSUME AtReference(Asked(p)) PROVE FALSE
  OBVIOUS
<1>1. PICK q \in S \ {p}, i \in Nat : Blocks(S, p, q, i)
  BY Blocker
<1>2. /\ At(op[q], i, locks[q][i]) /\ locks[q][i].row = Asked(p).row
      /\ Conflict(Asked(p), locks[q][i])
  BY <1>1, Holder
<1>3. AtReference(locks[q][i])
  BY <1>2, ByRow DEF AtReference
<1> QED
  BY <1>2, <1>3 DEF AtReference, Conflict

\* Who has a row of p's list saves the same list, or deletes the account.
LEMMA ListHolder ==
  ASSUME NEW S, NEW p, NEW q, NEW i, Blocks(S, p, q, i), op[p][1] \in Lists,
         NEW n \in 1 .. Keys, Asked(p).row = <<op[p][1], op[p][2], n>>
  PROVE  /\ SameList(p, q)
         /\ \/ AtDelete(op[q], i, locks[q][i]) /\ i = n
            \/ AtInsert(op[q], i, locks[q][i])
<1> DEFINE l == locks[q][i]
<1>1. /\ At(op[q], i, l) /\ l.row = <<op[p][1], op[p][2], n>>
      /\ Stuck(S) /\ p \in S /\ q \in S
  BY Holder
<1> HIDE DEF l
<1>2. l.row[1] = op[p][1] /\ l.row[2] = op[p][2] /\ l.row[3] = n
  BY <1>1
<1>3. AtDelete(op[q], i, l) \/ AtInsert(op[q], i, l) \/ AtRoles(op[q], i, l)
  BY <1>1, <1>2, ByRow
<1>4. CASE AtRoles(op[q], i, l)
  <2>1. op[q][1] = "remove" /\ l.row[1] = "roles" /\ l.row[2] = op[q][2]
    BY <1>4 DEF AtRoles, Maybe
  <2>2. q \in S \cap Making("remove") /\ p \in S \cap Making("roles") /\ op[q][2] = op[p][2]
    BY <1>1, <1>2, <2>1 DEF Making, Stuck
  <2> QED
    BY <1>1, <2>2 DEF Stuck, KnownCircle
<1>5. CASE AtDelete(op[q], i, l)
  <2>1. op[q][1] = op[p][1] /\ op[q][2] = op[p][2] /\ i = n
    BY <1>2, <1>5 DEF AtDelete, Maybe
  <2> QED
    BY <1>5, <2>1 DEF SameList, Lists, l
<1>6. CASE AtInsert(op[q], i, l)
  <2>1. op[q][1] = op[p][1] /\ op[q][2] = op[p][2]
    BY <1>2, <1>6 DEF AtInsert
  <2> QED
    BY <1>6, <2>1 DEF SameList, Lists, l
<1> QED
  BY <1>3, <1>4, <1>5, <1>6

\* Nor does anybody wait to insert a key: it has the row it has deleted.
LEMMA InsertIsFree ==
  ASSUME NEW S, Stuck(S), NEW p \in S
  PROVE  ~AtInsert(op[p], pos[p] + 1, Asked(p))
<1> SUFFICES ASSUME AtInsert(op[p], pos[p] + 1, Asked(p)) PROVE FALSE
  OBVIOUS
<1>1. PICK q \in S \ {p}, i \in Nat : Blocks(S, p, q, i)
  BY Blocker
<1>2. PICK n \in 1 .. Keys : Asked(p).row = <<op[p][1], op[p][2], n>>
  BY DEF AtInsert
<1>3. op[p][1] \in Lists /\ pos[p] + 1 > Keys
  BY DEF AtInsert
<1>4. SameList(p, q)
  BY <1>1, <1>2, <1>3, ListHolder
<1>5. missed[p] = {}
  BY <1>4 DEF Stuck, KnownCircle
<1>6. locks[p][n] = Maybe(<<op[p][1], op[p][2], n>>) /\ pos[p] \in Nat
  BY <1>3, Member DEF Listed
<1>7. locks[p][n] \in Held(p)
  <2>1. n \in 1 .. pos[p]
    BY <1>3, <1>6, KeysAssumption
  <2> QED
    BY <1>5, <2>1 DEF Held
<1>8. /\ locks[q][i].row = Asked(p).row /\ locks[q][i] \in Held(q) /\ p # q
      /\ p \in Procs /\ q \in Procs /\ Conflict(Asked(p), locks[q][i])
  BY <1>1, Holder
<1>9. Conflict(locks[p][n], locks[q][i]) /\ locks[p][n].mode # "check"
  <2>1. locks[p][n].row = Asked(p).row /\ locks[p][n].mode = "maybe"
    BY <1>2, <1>6 DEF Maybe
  <2> QED
    BY ONLY <1>8, <2>1 DEF Conflict
<1> QED
  BY <1>7, <1>8, <1>9 DEF Stuck, IInv, HeldAgree

\* Nor for content_revision: whoever has it never waits again.
LEMMA RevisionIsFree ==
  ASSUME NEW S, Stuck(S), NEW p \in S
  PROVE  ~AtRevision(op[p], pos[p] + 1, Asked(p))
<1> SUFFICES ASSUME AtRevision(op[p], pos[p] + 1, Asked(p)) PROVE FALSE
  OBVIOUS
<1>1. PICK q \in S \ {p}, i \in Nat : Blocks(S, p, q, i)
  BY Blocker
<1>2. /\ At(op[q], i, locks[q][i]) /\ locks[q][i].row = Asked(p).row
      /\ i \in Nat /\ pos[q] \in Nat /\ pos[q] >= i /\ q \in S
  BY <1>1, Holder
<1>3. locks[q][i].row[1] = "revision"
  BY <1>2 DEF AtRevision, Revision, Update
<1>4. AtRevision(op[q], i, locks[q][i])
  BY <1>2, <1>3, ByRow
<1>5. /\ pos[q] + 1 \in 1 .. Len(LocksOf(op[q])) /\ pos[q] + 1 > i
      /\ Asked(q) = LocksOf(op[q])[pos[q] + 1]
  <2>1. Len(locks[q]) \in Nat /\ pos[q] < Len(locks[q]) /\ locks[q] = LocksOf(op[q])
    BY <1>2, Member
  <2> QED
    BY <1>2, <2>1 DEF Asked
<1>6. AtInsert(op[q], pos[q] + 1, Asked(q)) \/ AtReference(Asked(q))
  BY <1>4, <1>5 DEF AtRevision
<1> QED
  BY <1>2, <1>6, InsertIsFree, ReferenceIsFree

\* A look at another week waits for one who claims dates too.
LEMMA CheckIsFree ==
  ASSUME NEW S, Stuck(S), NEW p \in S
  PROVE  ~AtCheck(op[p], Asked(p))
<1> SUFFICES ASSUME AtCheck(op[p], Asked(p)) PROVE FALSE
  OBVIOUS
<1>1. PICK q \in S \ {p}, i \in Nat : Blocks(S, p, q, i)
  BY Blocker
<1>2. /\ At(op[q], i, locks[q][i]) /\ locks[q][i].row = Asked(p).row
      /\ i \in Nat /\ i > 0 /\ pos[q] \in Nat /\ pos[q] >= i /\ q \in S /\ p # q
      /\ Conflict(Asked(p), locks[q][i])
  BY <1>1, Holder
<1>3. locks[q][i].row[1] = "week" /\ locks[q][i].mode # "check"
  BY <1>2 DEF Conflict, AtCheck
<1>4. AtWeek(op[q], i, locks[q][i])
  BY <1>2, <1>3, ByRow DEF AtCheck
<1>5. op[q][1] \in {"upsert", "publish", "delete"} /\ pos[q] + 1 # 1
  BY <1>2, <1>4 DEF AtWeek
<1>6. /\ ~AtReference(Asked(q)) /\ ~AtInsert(op[q], pos[q] + 1, Asked(q))
      /\ ~AtRevision(op[q], pos[q] + 1, Asked(q)) /\ At(op[q], pos[q] + 1, Asked(q))
  BY <1>2, ReferenceIsFree, InsertIsFree, RevisionIsFree, Member
<1>7. ~AtWeek(op[q], pos[q] + 1, Asked(q)) /\ ~AtOneRow(pos[q] + 1, Asked(q))
  BY <1>5 DEF AtWeek, AtOneRow
<1>8. /\ ~AtUser(op[q], pos[q] + 1, Asked(q)) /\ ~AtDelete(op[q], pos[q] + 1, Asked(q))
      /\ ~AtRoles(op[q], pos[q] + 1, Asked(q)) /\ ~AtSession(op[q], pos[q] + 1, Asked(q))
  BY <1>5 DEF AtUser, AtDelete, AtRoles, AtSession, Lists
<1>9. AtCheck(op[q], Asked(q))
  BY <1>6, <1>7, <1>8 DEF At
<1>10. Claiming(p) /\ Claiming(q)
  BY <1>9 DEF AtCheck, Claiming
<1> QED
  BY <1>2, <1>10 DEF Stuck, KnownCircle

\* Nor, past its first lock, for an account.
LEMMA UserIsFree ==
  ASSUME NEW S, Stuck(S), NEW p \in S, pos[p] > 0
  PROVE  ~AtUser(op[p], pos[p] + 1, Asked(p))
<1> SUFFICES ASSUME AtUser(op[p], pos[p] + 1, Asked(p)) PROVE FALSE
  OBVIOUS
<1>1. PICK q \in S \ {p}, i \in Nat : Blocks(S, p, q, i)
  BY Blocker
<1>2. /\ At(op[q], i, locks[q][i]) /\ locks[q][i].row = Asked(p).row
      /\ q \in S /\ p # q /\ pos[p] \in Nat /\ Conflict(Asked(p), locks[q][i])
  BY <1>1, Holder, Member
<1>3. op[p][1] = "roles" /\ Asked(p).mode = "share" /\ Asked(p).row = <<"user", op[p][2]>>
  BY <1>2 DEF AtUser
<1>4. locks[q][i].mode \in {"own", "maybe"}
  BY <1>2, <1>3 DEF Conflict
<1>5. AtUser(op[q], i, locks[q][i])
  BY <1>2, <1>3, ByRow
<1>6. op[q][1] \in {"remove", "create"} /\ op[q][2] = op[p][2] /\ locks[q][i].mode = "own" /\ i = 1
  BY <1>2, <1>3, <1>4, <1>5 DEF AtUser
<1>7. op[q][1] # "create"
  <2>1. SUFFICES ASSUME op[q][1] = "create" PROVE FALSE
    OBVIOUS
  <2>2. /\ op[q] \in Writes /\ locks[q] = LocksOf(op[q])
        /\ pos[q] \in Nat /\ pos[q] < Len(locks[q])
    BY <1>2, Member
  <2>3. PICK u \in Users : op[q] = <<"create", u>>
    BY <2>1, <2>2, WriteKinds
  <2>4. Len(locks[q]) = 1
    <3>1. LocksOf(<<"create", u>>) = CreateUser(u)
      BY Table
    <3>2. locks[q] = <<Own(<<"user", u>>)>>
      BY <2>2, <2>3, <3>1 DEF CreateUser
    <3> QED
      BY <3>2
  <2>5. pos[q] >= 1
    BY <1>1, <1>6, Holder
  <2> QED
    BY <2>2, <2>4, <2>5
<1>8. q \in S \cap Making("remove") /\ p \in S \cap Making("roles") /\ op[q][2] = op[p][2]
  BY <1>2, <1>3, <1>6, <1>7 DEF Making, Stuck
<1> QED
  BY <1>8 DEF Stuck, KnownCircle

\* What a member past its first lock asks for: a row of a list or a session to
\* delete, and there is one with a greater key that another such member asks for.
Key(p) == Asked(p).row[3]

LEMMA WaitsToDelete ==
  ASSUME NEW S, Stuck(S), NEW p \in S, pos[p] > 0
  PROVE  \/ AtDelete(op[p], pos[p] + 1, Asked(p))
         \/ AtSession(op[p], pos[p] + 1, Asked(p))
<1>1. At(op[p], pos[p] + 1, Asked(p)) /\ pos[p] \in Nat /\ p \in Procs
  BY Member
<1>2. ~AtWeek(op[p], pos[p] + 1, Asked(p)) /\ ~AtOneRow(pos[p] + 1, Asked(p))
  BY <1>1 DEF AtWeek, AtOneRow
<1>3. /\ ~AtReference(Asked(p)) /\ ~AtInsert(op[p], pos[p] + 1, Asked(p))
      /\ ~AtRevision(op[p], pos[p] + 1, Asked(p)) /\ ~AtCheck(op[p], Asked(p))
      /\ ~AtUser(op[p], pos[p] + 1, Asked(p))
  BY ReferenceIsFree, InsertIsFree, RevisionIsFree, CheckIsFree, UserIsFree
<1>4. ASSUME AtRoles(op[p], pos[p] + 1, Asked(p)) PROVE FALSE
  <2>1. PICK q \in S \ {p}, i \in Nat : Blocks(S, p, q, i)
    BY Blocker
  <2>2. /\ At(op[q], i, locks[q][i]) /\ locks[q][i].row = Asked(p).row
        /\ i \in Nat /\ pos[q] \in Nat /\ pos[q] >= i /\ i > 0
        /\ q \in S /\ p # q /\ q \in Procs
    BY <2>1, Holder
  <2>3. PICK n \in 1 .. Keys : Asked(p).row = <<"roles", op[p][2], n>>
    BY <1>4 DEF AtRoles, Maybe
  <2>4. op[p][1] = "remove"
    BY <1>4 DEF AtRoles
  <2>5. locks[q][i].row[1] = "roles" /\ locks[q][i].row[2] = op[p][2]
    BY <2>2, <2>3
  <2>6. op[q][1] \in {"roles", "remove"} /\ op[q][2] = op[p][2]
    <3>1. \/ AtDelete(op[q], i, locks[q][i]) \/ AtInsert(op[q], i, locks[q][i])
          \/ AtRoles(op[q], i, locks[q][i])
      BY <2>2, <2>5, ByRow DEF Lists
    <3>2. CASE AtDelete(op[q], i, locks[q][i])
      BY <2>5, <3>2 DEF AtDelete, Maybe
    <3>3. CASE AtInsert(op[q], i, locks[q][i])
      BY <2>5, <3>3 DEF AtInsert
    <3>4. CASE AtRoles(op[q], i, locks[q][i])
      BY <2>5, <3>4 DEF AtRoles, Maybe
    <3> QED
      BY <3>1, <3>2, <3>3, <3>4
  <2>7. op[q][1] # "roles"
    BY <1>1, <2>2, <2>4, <2>6 DEF Stuck, KnownCircle, Making
  <2>8. \A r \in S : pos[r] > 0 /\ op[r][1] = "remove" =>
          /\ locks[r][1] \in Held(r)
          /\ locks[r][1] = Own(<<"user", op[r][2]>>)
    <3>1. SUFFICES ASSUME NEW r \in S, pos[r] > 0, op[r][1] = "remove"
                   PROVE  /\ locks[r][1] \in Held(r)
                          /\ locks[r][1] = Own(<<"user", op[r][2]>>)
      OBVIOUS
    <3>2. locks[r][1] = Own(<<"user", op[r][2]>>) /\ r \in Procs /\ pos[r] \in Nat
      BY <3>1, Member DEF Listed
    <3>3. 1 \notin missed[r]
      <4>1. locks[r][1].mode = "own"
        BY <3>2 DEF Own
      <4> QED
        BY <3>2, <4>1 DEF Stuck, IInv, TypeOK
    <3> QED
      BY <3>1, <3>2, <3>3 DEF Held
  <2>9. /\ locks[p][1] \in Held(p) /\ locks[q][1] \in Held(q)
        /\ locks[p][1] = Own(<<"user", op[p][2]>>) /\ locks[q][1] = locks[p][1]
    <3>1. pos[q] > 0 /\ op[q][1] = "remove"
      BY <2>2, <2>6, <2>7
    <3> QED
      BY <2>2, <2>4, <2>6, <2>8, <3>1
  <2>10. Conflict(locks[p][1], locks[q][1]) /\ locks[p][1].mode # "check"
    <3>1. /\ locks[p][1].row = locks[q][1].row /\ locks[p][1].mode = "own"
          /\ locks[q][1].mode = "own"
      BY <2>9 DEF Own
    <3> QED
      BY ONLY <3>1 DEF Conflict
  <2> QED
    BY <1>1, <2>2, <2>9, <2>10 DEF Stuck, IInv, HeldAgree
<1> QED
  BY <1>1, <1>2, <1>3, <1>4 DEF At

LEMMA KeyTyped ==
  ASSUME NEW S, Stuck(S), NEW p \in S, pos[p] > 0
  PROVE  Key(p) \in 1 .. Keys
<1>1. CASE AtDelete(op[p], pos[p] + 1, Asked(p))
  BY <1>1 DEF AtDelete, Maybe, Key
<1>2. CASE AtSession(op[p], pos[p] + 1, Asked(p))
  BY <1>2 DEF AtSession, Maybe, Key
<1> QED
  BY <1>1, <1>2, WaitsToDelete

LEMMA Climbs ==
  ASSUME NEW S, Stuck(S), NEW p \in S, pos[p] > 0
  PROVE  \E q \in S : pos[q] > 0 /\ Key(q) > Key(p)
<1>0. PICK q \in S \ {p}, i \in Nat : Blocks(S, p, q, i)
  BY Blocker
<1>1. /\ At(op[q], i, locks[q][i]) /\ locks[q][i].row = Asked(p).row
      /\ i \in Nat /\ pos[q] \in Nat /\ pos[q] >= i /\ i > 0
      /\ q \in S /\ p # q /\ p \in Procs /\ q \in Procs /\ pos[q] > 0
  BY <1>0, Holder
<1>2. \/ AtDelete(op[q], pos[q] + 1, Asked(q))
      \/ AtSession(op[q], pos[q] + 1, Asked(q))
  BY <1>1, WaitsToDelete
<1>3. Key(p) \in 1 .. Keys /\ Key(q) \in 1 .. Keys
  BY <1>1, KeyTyped
<1>4. CASE AtDelete(op[p], pos[p] + 1, Asked(p))
  <2>1. /\ op[p][1] \in Lists /\ pos[p] + 1 \in 1 .. Keys
        /\ Asked(p).row = <<op[p][1], op[p][2], pos[p] + 1>>
    BY <1>4 DEF AtDelete, Maybe
  <2>2. SameList(p, q)
    BY <1>0, <2>1, ListHolder
  <2>3. op[q][1] \in Lists
    BY <2>2 DEF SameList, Lists
  <2>4. AtDelete(op[q], pos[q] + 1, Asked(q))
    BY <1>2, <2>3 DEF AtSession, Lists
  <2>5. pos[q] + 1 \in 1 .. Keys /\ Key(q) = pos[q] + 1
    BY <2>4 DEF AtDelete, Maybe, Key
  <2>6. ~AtInsert(op[q], i, locks[q][i])
    BY <1>1, <2>5, KeysAssumption DEF AtInsert
  <2>7. i = pos[p] + 1
    BY <1>0, <2>1, <2>6, ListHolder
  <2>8. Key(p) = pos[p] + 1
    BY <2>1 DEF Key
  <2> QED
    BY <1>1, <2>5, <2>7, <2>8
<1>5. CASE AtSession(op[p], pos[p] + 1, Asked(p))
  <2>1. op[p][1] \in {"purge", "logout", "remove"} /\ Asked(p).row[1] = "session"
    BY <1>5 DEF AtSession, Maybe
  <2>2. AtSession(op[q], i, locks[q][i])
    BY <1>1, <2>1, ByRow
  <2>3. op[q][1] \in {"purge", "logout", "remove"}
    BY <2>2 DEF AtSession
  <2>4. op[p][1] # "purge" /\ op[q][1] # "purge"
    BY <1>1, <2>1, <2>3 DEF Stuck, KnownCircle, Making
  <2>5. AtSession(op[q], pos[q] + 1, Asked(q))
    BY <1>2, <2>3 DEF AtDelete, Lists
  <2>6. \/ op[q][1] = "logout" /\ i = Key(p) /\ pos[q] + 1 = Key(q)
        \/ op[q][1] = "remove" /\ i = 1 + Keys + Key(p) /\ pos[q] + 1 = 1 + Keys + Key(q)
    <3>1. \/ op[q][1] = "logout" /\ i = locks[q][i].row[3]
          \/ op[q][1] = "remove" /\ i = 1 + Keys + locks[q][i].row[3]
      BY <2>2, <2>4 DEF AtSession, Maybe
    <3>2. \/ op[q][1] = "logout" /\ pos[q] + 1 = Asked(q).row[3]
          \/ op[q][1] = "remove" /\ pos[q] + 1 = 1 + Keys + Asked(q).row[3]
      BY <2>4, <2>5 DEF AtSession, Maybe
    <3> QED
      BY <1>1, <3>1, <3>2 DEF Key
  <2>7. Key(q) > Key(p)
    BY <1>1, <1>3, <2>6, KeysAssumption
  <2> QED
    BY <1>1, <2>7
<1> QED
  BY <1>4, <1>5, WaitsToDelete

\* A set of naturals has a least member.
LEMMA Least ==
  ASSUME NEW A, A \subseteq Nat, A # {}
  PROVE  \E x \in A : \A y \in A : x <= y
<1>1. PICK x \in A : \A y \in A : ~(<<y, x>> \in OpToRel(<, Nat))
  BY NatLessThanWellFounded, WFMin, Zenon
<1>2. \A y \in A : ~(<<y, x>> \in {ss \in Nat \X Nat : ss[1] < ss[2]})
  BY <1>1, Zenon DEF OpToRel
<1>3. ASSUME NEW y \in A PROVE x <= y
  <2> DEFINE z == <<y, x>>
  <2>1. z \in Nat \X Nat /\ z[1] = y /\ z[2] = x
    OBVIOUS
  <2>2. ~(z \in {ss \in Nat \X Nat : ss[1] < ss[2]})
    BY <1>2
  <2> HIDE DEF z
  <2>3. ~(z[1] < z[2])
    BY <2>1, <2>2
  <2> QED
    BY ONLY <2>1, <2>3
<1> QED
  BY <1>3

\* There is no greatest key, and there are only so many.
LEMMA NobodyIsStuck ==
  ASSUME NEW S
  PROVE  ~Stuck(S)
<1> SUFFICES ASSUME Stuck(S) PROVE FALSE
  OBVIOUS
<1> DEFINE left(p) == Keys - Key(p)
           A == {left(p) : p \in {r \in S : pos[r] > 0}}
<1>1. \A p \in S : pos[p] > 0 => left(p) \in Nat
  BY KeyTyped, KeysAssumption
<1>2. A \subseteq Nat
  BY <1>1
<1>3. A # {}
  <2>1. PICK p0 \in S : TRUE
    BY DEF Stuck, Deadlock
  <2>2. PICK p \in S \ {p0}, i \in Nat : Blocks(S, p0, p, i)
    BY Blocker
  <2>3. p \in S /\ pos[p] > 0
    <3>1. i \in Nat /\ i > 0 /\ pos[p] \in Nat /\ pos[p] >= i
      BY <2>2, Holder
    <3> QED
      BY ONLY <2>2, <3>1
  <2> QED
    BY <2>3
<1>4. PICK x \in A : \A y \in A : x <= y
  BY <1>2, <1>3, Least
<1>5. PICK p \in S : pos[p] > 0 /\ x = left(p)
  BY <1>4
<1>6. PICK q \in S : pos[q] > 0 /\ Key(q) > Key(p)
  BY <1>5, Climbs
<1>7. Key(p) \in 1 .. Keys /\ Key(q) \in 1 .. Keys
  BY <1>5, <1>6, KeyTyped
<1>8. left(q) \in A
  BY <1>6
<1>9. x <= left(q)
  <2> HIDE DEF left, A
  <2> QED
    BY <1>4, <1>8
<1> QED
  BY <1>5, <1>6, <1>7, <1>9, KeysAssumption

\* Whatever is saved at once, PostgreSQL never has to break a circle of waits but
\* one of those the code is known to allow: what a write takes after it has
\* content_revision (write_repo.go) and the deletions of lists (write_repo.go,
\* admin_repo.go) add none.
THEOREM OnlyKnownDeadlocks == Spec => []DeadlocksAreKnown
<1>1. IInv => DeadlocksAreKnown
  <2>1. SUFFICES ASSUME IInv, NEW S \in SUBSET Waiting, Deadlock(S)
                 PROVE  KnownCircle(S)
    BY DEF DeadlocksAreKnown, KnownCircle
  <2>2. S \in SUBSET Procs
    BY DEF Waiting
  <2> QED
    BY <2>1, <2>2, NobodyIsStuck DEF Stuck
<1> QED
  BY Initially, Invariance, <1>1, PTL DEF Spec
=============================================================================
