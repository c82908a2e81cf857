--------------------------- MODULE AdminAccounts ---------------------------
(***************************************************************************)
(* Accounts, roles and the last-administrator guard.  A request is served  *)
(* by a handler in several statements, each its own transaction: the       *)
(* permission check, what the guard reads, and the write.  Other handlers  *)
(* and the command line run between them.                                  *)
(*                                                                         *)
(* Only user.manage matters to the guard, so a role is either in grants    *)
(* (it carries user.manage) or not.  A user is an account id: an id that   *)
(* was deleted never comes back.                                           *)
(***************************************************************************)
EXTENDS Naturals

CONSTANTS
  Users,      \* account ids
  First,      \* the account made by the first `thenied user create`
  Roles,
  Owner,      \* the role SetRolePermissions refuses to edit
  Operator,   \* the service token or the command line: no account of its own
  Slots,      \* handlers that can be under way at the same time
  Ops         \* the operations this instance exercises

AllOps == {"create", "activate", "deactivate", "roles", "delete", "permissions"}

ASSUME AccountsAssumption ==
  /\ First \in Users
  /\ Owner \in Roles
  /\ Operator \notin Users
  /\ Ops \subseteq AllOps

VARIABLES
  status,   \* user -> "absent", "active", "inactive" or "deleted"
  roles,    \* user -> the roles of the account
  grants,   \* the roles that carry user.manage
  pc,       \* slot -> the step its handler takes next
  req,      \* slot -> the request being served
  unread,   \* slot -> the requested roles whose permissions are still to be read
  raced     \* history: slot -> somebody wrote since this handler was cleared to

vars == <<status, roles, grants, pc, req, unread, raced>>
accounts == <<status, roles, grants>>

\* CreateUser and SetUserRoles refuse an empty list before anything else.
RoleLists_MayBeEmpty == SUBSET Roles
RoleLists == (SUBSET Roles) \ {{}}

\* What a handler is asked to do.
Requests ==
  [op : {"create", "roles"} \intersect Ops, by : Users \union {Operator}, user : Users,
   roles : RoleLists]
  \union
  [op : {"activate", "deactivate", "delete"} \intersect Ops,
   by : Users \union {Operator}, user : Users, roles : {{}}]
  \union
  [op : {"permissions"} \intersect Ops, by : Users \union {Operator},
   role : Roles, manage : BOOLEAN]

NoRequest == [op |-> "none"]

Live(u) == status[u] \in {"active", "inactive"}

\* The active accounts holding user.manage.
Admins == {u \in Users : status[u] = "active" /\ roles[u] \intersect grants # {}}

Init ==
  /\ status = [u \in Users |-> IF u = First THEN "active" ELSE "absent"]
  /\ roles = [u \in Users |-> IF u = First THEN {Owner} ELSE {}]
  /\ grants = {Owner}
  /\ pc = [h \in Slots |-> "idle"]
  /\ req = [h \in Slots |-> NoRequest]
  /\ unread = [h \in Slots |-> {}]
  /\ raced = [h \in Slots |-> FALSE]

----------------------------------------------------------------------------
(* A request. *)

\* The first step after the permission check: what the guard has to read.
FirstStep(r) ==
  CASE r.op = "roles"                     -> "roles"
    [] r.op \in {"deactivate", "delete"}  -> "guard"
    [] OTHER                              -> "write"

\* resolveActor and requirePerm, then the checks that need no query: nobody
\* deactivates or deletes the account they are using, nobody edits the owner role.
Start(h) ==
  /\ pc[h] = "idle"
  /\ \E r \in Requests :
       /\ r.by \in Admins \union {Operator}
       /\ r.op \in {"deactivate", "delete"} => r.by # r.user
       /\ r.op = "permissions" => r.role # Owner
       /\ pc' = [pc EXCEPT ![h] = FirstStep(r)]
       /\ req' = [req EXCEPT ![h] = r]
       /\ unread' = [unread EXCEPT ![h] = IF r.op = "roles" THEN r.roles ELSE {}]
  /\ UNCHANGED <<accounts, raced>>

\* guardLastAdminAfterRoleChange: ListRoles reads one role's permissions per
\* query.  A requested role that carries user.manage clears the handler to
\* write; if none does the guard counts the others.
ReadRole(h) ==
  /\ pc[h] = "roles"
  /\ unread[h] # {}
  /\ \E r \in unread[h] :
       IF r \in grants
         THEN /\ pc' = [pc EXCEPT ![h] = "write"]
              /\ unread' = [unread EXCEPT ![h] = {}]
         ELSE /\ unread' = [unread EXCEPT ![h] = @ \ {r}]
              /\ UNCHANGED pc
  /\ UNCHANGED <<accounts, req, raced>>

NoneKeeps(h) ==
  /\ pc[h] = "roles"
  /\ unread[h] = {}
  /\ pc' = [pc EXCEPT ![h] = "guard"]
  /\ UNCHANGED <<accounts, req, unread, raced>>

\* CountUsersWithPermission, the account itself left out.
Others_CountsInactive(u) == {v \in Users \ {u} : Live(v) /\ roles[v] \intersect grants # {}}
Others(u) == Admins \ {u}

\* guardLastAdmin: no other administrator, no write.
Guard(h) ==
  /\ pc[h] = "guard"
  /\ Others(req[h].user) # {}
  /\ pc' = [pc EXCEPT ![h] = "write"]
  /\ UNCHANGED <<accounts, req, unread, raced>>

Refuse(h) ==
  /\ pc[h] = "guard"
  /\ Others(req[h].user) = {}
  /\ pc' = [pc EXCEPT ![h] = "idle"]
  /\ req' = [req EXCEPT ![h] = NoRequest]
  /\ UNCHANGED <<accounts, unread, raced>>

\* The effect of each write, when the row it needs is there.
Apply(r) ==
  \/ /\ r.op = "create" /\ status[r.user] = "absent"
     /\ status' = [status EXCEPT ![r.user] = "active"]
     /\ roles' = [roles EXCEPT ![r.user] = r.roles]
     /\ UNCHANGED grants
  \/ /\ r.op \in {"activate", "deactivate"} /\ Live(r.user)
     /\ status' = [status EXCEPT ![r.user] = IF r.op = "activate" THEN "active" ELSE "inactive"]
     /\ UNCHANGED <<roles, grants>>
  \/ /\ r.op = "roles" /\ Live(r.user)
     /\ roles' = [roles EXCEPT ![r.user] = r.roles]
     /\ UNCHANGED <<status, grants>>
  \/ /\ r.op = "delete" /\ Live(r.user)
     /\ status' = [status EXCEPT ![r.user] = "deleted"]
     /\ roles' = [roles EXCEPT ![r.user] = {}]
     /\ UNCHANGED grants
  \/ /\ r.op = "permissions"
     /\ grants' = IF r.manage THEN grants \union {r.role} ELSE grants \ {r.role}
     /\ UNCHANGED <<status, roles>>

Write(h) ==
  /\ pc[h] = "write"
  /\ Apply(req[h])
  /\ pc' = [pc EXCEPT ![h] = "idle"]
  /\ req' = [req EXCEPT ![h] = NoRequest]
  /\ unread' = [unread EXCEPT ![h] = {}]
  /\ raced' = [g \in Slots |-> g # h /\ pc[g] = "write"]

\* An unknown role, a missing account, a taken email, a failed query or a crash:
\* the handler ends and its transaction, if it had begun one, rolled back.
Fail(h) ==
  /\ pc[h] # "idle"
  /\ pc' = [pc EXCEPT ![h] = "idle"]
  /\ req' = [req EXCEPT ![h] = NoRequest]
  /\ unread' = [unread EXCEPT ![h] = {}]
  /\ raced' = [raced EXCEPT ![h] = FALSE]
  /\ UNCHANGED accounts

Handler(h) ==
  \/ Start(h)
  \/ ReadRole(h)
  \/ NoneKeeps(h)
  \/ Guard(h)
  \/ Refuse(h)
  \/ Write(h)
  \/ Fail(h)

Next == \E h \in Slots : Handler(h)

Spec == Init /\ [][Next]_vars

----------------------------------------------------------------------------
(* Properties. *)

\* Every variable has its type; an account has roles exactly while it lives.
TypeOK ==
  /\ status \in [Users -> {"absent", "active", "inactive", "deleted"}]
  /\ roles \in [Users -> SUBSET Roles]
  /\ \A u \in Users : Live(u) <=> roles[u] # {}
  /\ grants \subseteq Roles
  /\ pc \in [Slots -> {"idle", "roles", "guard", "write"}]
  /\ req \in [Slots -> Requests \union {NoRequest}]
  /\ unread \in [Slots -> SUBSET Roles]
  /\ raced \in [Slots -> BOOLEAN]

\* guardLastAdmin (users.go): "one careless click leaves a system nobody can
\* administer".  Somebody can always manage users.
SomebodyCanManage == Admins # {}

\* What the guard does guarantee whatever runs beside it: the last administrator
\* goes only by a write that was overtaken after its check, or by taking
\* user.manage away from a role.
LastAdminGoesOnlyByRace ==
  [][Admins # {} /\ Admins' = {} =>
       \E h \in Slots : pc[h] = "write" /\ (raced[h] \/ req[h].op = "permissions")]_vars

----------------------------------------------------------------------------
(* The inductive invariant: what being cleared to write means. *)

\* Until somebody else writes, a handler cleared to take an administrator away
\* leaves another one, or leaves the account its own grant.
Cleared(h) ==
  pc[h] = "write" /\ ~raced[h] =>
    /\ req[h].op \in {"deactivate", "delete"} => Others(req[h].user) # {}
    /\ req[h].op = "roles" =>
         Others(req[h].user) # {} \/ req[h].roles \intersect grants # {}

\* A handler under way holds a request whose operation fits its step.
Underway(h) ==
  /\ pc[h] = "roles" => req[h].op = "roles" /\ unread[h] \subseteq req[h].roles
  /\ pc[h] = "guard" => req[h].op \in {"roles", "deactivate", "delete"}
  /\ pc[h] # "idle" => req[h] \in Requests
  /\ pc[h] # "write" => ~raced[h]

IInv ==
  /\ TypeOK
  /\ \A h \in Slots : Cleared(h) /\ Underway(h)
=============================================================================
