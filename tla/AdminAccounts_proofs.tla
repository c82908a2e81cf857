------------------------ MODULE AdminAccounts_proofs ------------------------
(* Proofs about AdminAccounts, for every set of accounts, roles, handlers   *)
(* and operations: what being cleared by the guard is worth.                *)
EXTENDS AdminAccounts, TLAPS

USE AccountsAssumption

\* The kinds of request, and what each carries.
LEMMA RequestKinds ==
  ASSUME NEW r \in Requests
  PROVE  /\ r.op \in Ops
         /\ r.op \in {"create", "roles"} => r.user \in Users /\ r.roles \in RoleLists
         /\ r.op \in {"activate", "deactivate", "delete"} => r.user \in Users
         /\ r.op = "permissions" => r.role \in Roles
         /\ r.op # "none"
BY DEF Requests, AllOps

\* The initial state: one active owner and nobody being served.
LEMMA InitIInv == Init => IInv
BY DEF Init, IInv, TypeOK, Cleared, Underway, Live

\* The effect of a write keeps the accounts well formed.
LEMMA ApplyTypes ==
  ASSUME TypeOK, NEW r \in Requests, Apply(r)
  PROVE  /\ status' \in [Users -> {"absent", "active", "inactive", "deleted"}]
         /\ roles' \in [Users -> SUBSET Roles]
         /\ \A u \in Users : Live(u)' <=> roles'[u] # {}
         /\ grants' \subseteq Roles
<1> USE DEF TypeOK, Live
<1>1. CASE r.op = "create"
  <2>1. r.user \in Users /\ r.roles \in SUBSET Roles /\ r.roles # {}
    BY <1>1, RequestKinds DEF RoleLists
  <2>2. /\ status' = [status EXCEPT ![r.user] = "active"]
        /\ roles' = [roles EXCEPT ![r.user] = r.roles]
        /\ grants' = grants
    BY <1>1 DEF Apply
  <2>3. \A u \in Users :
          /\ status'[u] = IF u = r.user THEN "active" ELSE status[u]
          /\ roles'[u] = IF u = r.user THEN r.roles ELSE roles[u]
    BY <2>2
  <2>4. \A u \in Users : Live(u)' <=> roles'[u] # {}
    BY <2>1, <2>3
  <2>5. /\ status' \in [Users -> {"absent", "active", "inactive", "deleted"}]
        /\ roles' \in [Users -> SUBSET Roles]
    BY <2>1, <2>2
  <2> QED
    BY <2>2, <2>4, <2>5
<1>2. CASE r.op \in {"activate", "deactivate"}
  <2>1. r.user \in Users
    BY <1>2, RequestKinds
  <2> QED
    BY <1>2, <2>1 DEF Apply
<1>3. CASE r.op = "roles"
  <2>1. r.user \in Users /\ r.roles \in SUBSET Roles /\ r.roles # {}
    BY <1>3, RequestKinds DEF RoleLists
  <2>2. /\ roles' = [roles EXCEPT ![r.user] = r.roles] /\ Live(r.user)
        /\ status' = status /\ grants' = grants
    BY <1>3 DEF Apply
  <2>3. \A u \in Users : roles'[u] = IF u = r.user THEN r.roles ELSE roles[u]
    BY <2>2
  <2>4. \A u \in Users : Live(u)' <=> roles'[u] # {}
    BY <2>1, <2>2, <2>3
  <2>5. roles' \in [Users -> SUBSET Roles]
    BY <2>1, <2>2
  <2> QED
    BY <2>2, <2>4, <2>5
<1>4. CASE r.op = "delete"
  <2>1. r.user \in Users
    BY <1>4, RequestKinds
  <2> QED
    BY <1>4, <2>1 DEF Apply
<1>5. CASE r.op = "permissions"
  <2>1. r.role \in Roles
    BY <1>5, RequestKinds
  <2> QED
    BY <1>5, <2>1 DEF Apply
<1> QED
  BY <1>1, <1>2, <1>3, <1>4, <1>5 DEF Apply

\* The invariant is inductive: a check clears its own handler, and a write
\* withdraws the clearance of every other.
LEMMA NextIInv == IInv /\ [Next]_vars => IInv'
<1> SUFFICES ASSUME IInv, [Next]_vars PROVE IInv'
  OBVIOUS
<1> USE DEF IInv
<1>1. ASSUME NEW h \in Slots, Start(h)
      PROVE  IInv'
  <2>1. PICK r \in Requests :
          /\ pc' = [pc EXCEPT ![h] = FirstStep(r)]
          /\ req' = [req EXCEPT ![h] = r]
          /\ unread' = [unread EXCEPT ![h] = IF r.op = "roles" THEN r.roles ELSE {}]
    BY <1>1 DEF Start
  <2>2. FirstStep(r) \in {"roles", "guard", "write"}
    BY DEF FirstStep
  <2>3. r.op = "roles" => r.roles \in SUBSET Roles
    BY RequestKinds DEF RoleLists
  <2>4. TypeOK'
    BY <1>1, <2>1, <2>2, <2>3 DEF Start, TypeOK, accounts, Live
  <2>5. \A g \in Slots : Underway(g)'
    BY <1>1, <2>1 DEF Start, Underway, FirstStep, TypeOK
  <2>6. \A g \in Slots : Cleared(g)'
    BY <1>1, <2>1 DEF Start, Cleared, Others, Admins, FirstStep, TypeOK, accounts
  <2> QED
    BY <2>4, <2>5, <2>6
<1>2. ASSUME NEW h \in Slots, ReadRole(h)
      PROVE  IInv'
  <2>1. PICK r \in unread[h] :
          IF r \in grants
            THEN /\ pc' = [pc EXCEPT ![h] = "write"]
                 /\ unread' = [unread EXCEPT ![h] = {}]
            ELSE /\ unread' = [unread EXCEPT ![h] = @ \ {r}]
                 /\ UNCHANGED pc
    BY <1>2 DEF ReadRole
  <2>2. TypeOK'
    BY <1>2, <2>1 DEF ReadRole, TypeOK, accounts, Live
  <2>3. \A g \in Slots : Underway(g)'
    BY <1>2, <2>1 DEF ReadRole, Underway, TypeOK
  <2>4. \A g \in Slots : Cleared(g)'
    BY <1>2, <2>1 DEF ReadRole, Underway, Cleared, Others, Admins, TypeOK, accounts
  <2> QED
    BY <2>2, <2>3, <2>4
<1>3. ASSUME NEW h \in Slots, NoneKeeps(h)
      PROVE  IInv'
  <2>1. TypeOK'
    BY <1>3 DEF NoneKeeps, TypeOK, accounts, Live
  <2>2. \A g \in Slots : Underway(g)'
    BY <1>3 DEF NoneKeeps, Underway, TypeOK
  <2>3. \A g \in Slots : Cleared(g)'
    BY <1>3 DEF NoneKeeps, Cleared, Others, Admins, TypeOK, accounts
  <2> QED
    BY <2>1, <2>2, <2>3
<1>4. ASSUME NEW h \in Slots, Guard(h)
      PROVE  IInv'
  <2>1. TypeOK'
    BY <1>4 DEF Guard, TypeOK, accounts, Live
  <2>2. \A g \in Slots : Underway(g)'
    BY <1>4 DEF Guard, Underway, TypeOK
  <2>3. \A g \in Slots : Cleared(g)'
    BY <1>4 DEF Guard, Underway, Cleared, Others, Admins, TypeOK, accounts
  <2> QED
    BY <2>1, <2>2, <2>3
<1>5. ASSUME NEW h \in Slots, Refuse(h)
      PROVE  IInv'
  <2>1. TypeOK'
    BY <1>5 DEF Refuse, TypeOK, accounts, Live
  <2>2. \A g \in Slots : Underway(g)'
    BY <1>5 DEF Refuse, Underway, TypeOK
  <2>3. \A g \in Slots : Cleared(g)'
    BY <1>5 DEF Refuse, Cleared, Others, Admins, TypeOK, accounts
  <2> QED
    BY <2>1, <2>2, <2>3
<1>6. ASSUME NEW h \in Slots, Write(h)
      PROVE  IInv'
  <2>1. req[h] \in Requests
    BY <1>6 DEF Write, Underway
  <2>2. TypeOK'
    BY <1>6, <2>1, ApplyTypes DEF Write, TypeOK
  <2>3. \A g \in Slots : Underway(g)'
    BY <1>6 DEF Write, Underway, TypeOK
  <2>4. \A g \in Slots : Cleared(g)'
    BY <1>6 DEF Write, Cleared, TypeOK
  <2> QED
    BY <2>2, <2>3, <2>4
<1>7. ASSUME NEW h \in Slots, Fail(h)
      PROVE  IInv'
  <2>1. TypeOK'
    BY <1>7 DEF Fail, TypeOK, accounts, Live
  <2>2. \A g \in Slots : Underway(g)'
    BY <1>7 DEF Fail, Underway, TypeOK
  <2>3. \A g \in Slots : Cleared(g)'
    BY <1>7 DEF Fail, Cleared, Others, Admins, TypeOK, accounts
  <2> QED
    BY <2>1, <2>2, <2>3
<1>8. CASE UNCHANGED vars
  <2>1. TypeOK'
    BY <1>8 DEF vars, TypeOK, Live
  <2>2. \A g \in Slots : Underway(g)' /\ Cleared(g)'
    BY <1>8 DEF vars, Underway, Cleared, Others, Admins
  <2> QED
    BY <2>1, <2>2
<1> QED
  BY <1>1, <1>2, <1>3, <1>4, <1>5, <1>6, <1>7, <1>8 DEF Next, Handler

\* The invariant holds in every reachable state.
LEMMA Invariance == Spec => []IInv
<1> QED
  BY InitIInv, NextIInv, PTL DEF Spec

\* Every variable keeps its type, and a live account always holds a role.
THEOREM TypeCorrect == Spec => []TypeOK
<1>1. IInv => TypeOK
  BY DEF IInv
<1> QED
  BY <1>1, Invariance, PTL

\* A write that was not overtaken after its check, and takes no permission from
\* a role, never removes the last administrator.
LEMMA WriteKeepsAdmins ==
  ASSUME IInv, NEW h \in Slots, Write(h), Admins # {},
         ~raced[h], req[h].op # "permissions"
  PROVE  Admins' # {}
<1>1. /\ req[h] \in Requests /\ Apply(req[h]) /\ Cleared(h) /\ pc[h] = "write"
      /\ TypeOK
  BY DEF IInv, Write, Underway
<1> DEFINE r == req[h]
<1>2. CASE r.op \in {"create", "activate"}
  <2>1. grants' = grants /\ r.user \in Users
    BY <1>1, <1>2, RequestKinds DEF Apply
  <2>2. \A u \in Admins : status'[u] = "active" /\ roles'[u] = roles[u]
    BY <1>1, <1>2, <2>1 DEF Apply, Admins, TypeOK
  <2> QED
    BY <2>1, <2>2 DEF Admins
<1>3. CASE r.op \in {"deactivate", "delete"}
  <2>1. grants' = grants /\ r.user \in Users /\ Others(r.user) # {}
    BY <1>1, <1>3, RequestKinds DEF Apply, Cleared
  <2>2. \A u \in Others(r.user) : status'[u] = status[u] /\ roles'[u] = roles[u]
    BY <1>1, <1>3, <2>1 DEF Apply, Others, Admins, TypeOK
  <2> QED
    BY <2>1, <2>2 DEF Admins, Others
<1>4. CASE r.op = "roles"
  <2>1. /\ grants' = grants /\ status' = status /\ r.user \in Users
        /\ roles' = [roles EXCEPT ![r.user] = r.roles]
    BY <1>1, <1>4, RequestKinds DEF Apply
  <2>2. PICK u \in Users : u \in Admins
    BY DEF Admins
  <2>3. CASE u # r.user
    BY <1>1, <2>1, <2>2, <2>3 DEF Admins, TypeOK
  <2>4. CASE u = r.user /\ r.roles \intersect grants # {}
    BY <1>1, <2>1, <2>2, <2>4 DEF Admins, TypeOK
  <2>5. CASE Others(r.user) # {}
    BY <1>1, <2>1, <2>5 DEF Admins, Others, TypeOK
  <2> QED
    BY <1>1, <1>4, <2>3, <2>4, <2>5 DEF Cleared
<1> QED
  BY <1>1, <1>2, <1>3, <1>4 DEF Apply

\* Only a write changes who can manage users.
LEMMA OthersKeepAdmins ==
  ASSUME NEW h \in Slots, Handler(h), ~Write(h)
  PROVE  Admins' = Admins
BY DEF Handler, Start, ReadRole, NoneKeeps, Guard, Refuse, Fail, Admins, accounts

\* The guard's own guarantee, whatever runs beside it.
THEOREM OnlyByRace == Spec => LastAdminGoesOnlyByRace
<1>1. IInv /\ [Next]_vars =>
        [Admins # {} /\ Admins' = {} =>
           \E h \in Slots : pc[h] = "write" /\ (raced[h] \/ req[h].op = "permissions")]_vars
  BY WriteKeepsAdmins, OthersKeepAdmins DEF Next, Write
<1> QED
  BY <1>1, Invariance, PTL DEF Spec, LastAdminGoesOnlyByRace

\* With one handler at a time and role permissions left alone, somebody can
\* always manage users.
THEOREM SerialGuard ==
  ASSUME \A g, h \in Slots : g = h, "permissions" \notin Ops
  PROVE  Spec => []SomebodyCanManage
<1> DEFINE Alone == SomebodyCanManage /\ \A h \in Slots : ~raced[h]
<1>1. Init => Alone
  BY DEF Init, SomebodyCanManage, Admins
<1>2. IInv /\ Alone /\ [Next]_vars => Alone'
  <2> SUFFICES ASSUME IInv, Alone, [Next]_vars PROVE Alone'
    OBVIOUS
  <2>1. CASE UNCHANGED vars
    BY <2>1 DEF vars, SomebodyCanManage, Admins
  <2>2. ASSUME NEW h \in Slots, Write(h)
        PROVE  Alone'
    <3>1. req[h].op # "permissions"
      BY <2>2, RequestKinds DEF IInv, Underway, Write
    <3>2. SomebodyCanManage'
      BY <2>2, <3>1, WriteKeepsAdmins DEF SomebodyCanManage
    <3> QED
      BY <2>2, <3>2 DEF Write
  <2>3. ASSUME NEW h \in Slots, Handler(h), ~Write(h)
        PROVE  Alone'
    <3>1. SomebodyCanManage'
      BY <2>3, OthersKeepAdmins DEF SomebodyCanManage
    <3>2. raced' = raced \/ raced' = [raced EXCEPT ![h] = FALSE]
      BY <2>3 DEF Handler, Start, ReadRole, NoneKeeps, Guard, Refuse, Fail
    <3> QED
      BY <3>1, <3>2 DEF IInv, TypeOK
  <2> QED
    BY <2>1, <2>2, <2>3 DEF Next
<1> QED
  BY <1>1, <1>2, Invariance, PTL DEF Spec
=============================================================================
