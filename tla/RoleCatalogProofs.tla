------------------------- MODULE RoleCatalogProofs -------------------------
(***************************************************************************)
(* Theorems about RoleCatalog, for any roles, names, screens, admins and   *)
(* any number of requests.                                                 *)
(***************************************************************************)
EXTENDS RoleCatalog, TLAPS

IsSuper(ro, x) == ro[x] # NULL /\ ro[x].name = SUPER_ADMIN_ROLE_NAME

(* What request q may hold at each of its awaits, when the tables are ro   *)
(* (roles), sc (screens), rs (role_screens), pa (platform_admins) and n    *)
(* replacements have committed.                                            *)

(* Somebody who was allowed to send it had super_admin; and what is on its *)
(* way to super_admin leaves its name, status and permissions alone.       *)
HoldsSuper(q, ro) ==
    /\ q.pc # "idle" => \E x \in Roles : IsSuper(ro, x)
    /\ q.pc # "idle" /\ q.op \in {"update", "delete"} =>
          /\ q.role \in Roles /\ ro[q.role] # NULL /\ q.was \in Role /\ q.obj \in Role
          /\ IsSuper(ro, q.role) => /\ q.obj.name = SUPER_ADMIN_ROLE_NAME
                                    /\ q.obj.status = "active"
                                    /\ q.ask = NULL
    /\ q.pc \in {"flushed", "deleting", "inserting"} /\ q.op = "update" =>
          q.obj.name \in {q.was.name} \cup (Names \ {SUPER_ADMIN_ROLE_NAME})
    /\ q.pc \in {"adding", "linking"} => q.role \in Roles /\ IsSuper(ro, q.role)

HoldsRole(q, sc, rs, n) ==
    /\ q.pc = "naming" => q.op \in {"create", "update"} /\ q.obj \in Role
    /\ q.pc = "naming" /\ q.op = "create" => q.ask \in Asks
    /\ q.pc = "saving" => q.op \in {"update", "delete"}
    /\ q.pc \in {"validating", "inserting", "replacing", "flushed", "deleting"} =>
          q.op \in {"create", "update"} /\ q.obj \in Role /\ q.ask \in Asks
    /\ q.pc \in {"replacing", "flushed", "deleting"} => q.op = "update"
    /\ q.pc \in {"inserting", "replacing", "flushed", "deleting"} =>
          /\ \A p \in q.ask : sc[p[1]] # NULL
          /\ q.began <= n + 1
    /\ q.pc \in {"deleting", "inserting"} /\ q.op = "update" =>
          /\ \A row \in q.seen : row.role = q.role
          /\ \A row \in rs : row.role = q.role => row \in q.seen \/ row.by >= q.began

HoldsScreen(q, sc) ==
    /\ q.pc \in {"numbering", "checking", "granting", "adding"} =>
          q.op = "screen" /\ q.obj \in Screen
    /\ q.pc \in {"checking", "granting", "adding"} => q.code \in Codes
    /\ q.pc = "saving screen" =>
          /\ q.code \in Codes /\ sc[q.code] # NULL /\ q.was \in Screen /\ q.obj \in Screen
          /\ q.code \in PROTECTED_SCREEN_CODES => q.obj.status = "active"

HoldsUser(q, pa) ==
    /\ q.pc \in {"creating", "assigning", "linking"} => q.op = "user"
    /\ q.pc = "creating" => q.admin \in Admins
    /\ q.pc \in {"assigning", "linking"} => q.admin \in pa

Holds(q, ro, sc, rs, pa, n) ==
    HoldsSuper(q, ro) /\ HoldsRole(q, sc, rs, n) /\ HoldsScreen(q, sc) /\ HoldsUser(q, pa)

WorkInv ==
    \A r \in Requests :
        Holds(req[r], roles, screens, role_screens, platform_admins, replacements)

(* TypeOK without the requests.                                            *)
TablesOK ==
    /\ roles \in [Roles -> Role \cup {NULL}]
    /\ screens \in [Codes -> Screen \cup {NULL}]
    /\ role_screens \subseteq RoleScreen
    /\ \A row \in role_screens : roles[row.role] # NULL /\ screens[row.code] # NULL
    /\ platform_admins \subseteq Admins
    /\ platform_admin_roles \subseteq platform_admins \X Roles
    /\ replacements \in Nat
    /\ since \in [Roles -> Nat]

(* The super_admin role x is active and has all that it needs.             *)
Complete(x) ==
    /\ roles[x].status = "active"
    /\ \A p \in SCREENS :
          /\ screens[p.code] # NULL /\ screens[p.code].status = "active"
          /\ \E row \in role_screens :
                row.role = x /\ row.code = p.code /\ (p.write => row.write)
    /\ \A c \in Codes : screens[c] # NULL =>
          \E row \in role_screens : row.role = x /\ row.code = c

CatalogInv ==
    /\ \A x, y \in Roles : IsSuper(roles, x) /\ IsSuper(roles, y) => x = y
    /\ \A link \in platform_admin_roles : IsSuper(roles, link[2])
    /\ \A x \in Roles : IsSuper(roles, x) => Complete(x)
    /\ (\A x \in Roles : ~IsSuper(roles, x)) => \A c \in Codes : screens[c] = NULL

LedgerInv ==
    /\ NoStrayPermission
    /\ \A x \in Roles : since[x] <= replacements + 1
    /\ \A x \in Roles : roles[x] = NULL \/ IsSuper(roles, x) => since[x] = 0

Inv == TablesOK /\ req \in [Requests -> RequestType] /\ WorkInv /\ CatalogInv /\ LedgerInv

-----------------------------------------------------------------------------
(* What a commit may do to the tables under the other requests: rows stay, *)
(* super_admin stays what it is, and new permissions are recent, or its.    *)
Grows(ro, sc, rs, pa, n, ro2, sc2, rs2, pa2, n2) ==
    /\ \A x \in Roles : ro[x] # NULL =>
          ro2[x] # NULL /\ (IsSuper(ro2, x) <=> IsSuper(ro, x))
    /\ \A c \in Codes : sc[c] # NULL => sc2[c] # NULL
    /\ \A row \in rs2 : row \in rs \/ row.by >= n + 1 \/ IsSuper(ro2, row.role)
    /\ pa \subseteq pa2
    /\ n <= n2

LEMMA HoldsGrows ==
    ASSUME NEW q \in RequestType, NEW ro, NEW sc, NEW rs, NEW pa, NEW n \in Nat,
           NEW ro2, NEW sc2, NEW rs2, NEW pa2, NEW n2 \in Nat,
           rs2 \subseteq RoleScreen,
           Grows(ro, sc, rs, pa, n, ro2, sc2, rs2, pa2, n2),
           Holds(q, ro, sc, rs, pa, n)
    PROVE  Holds(q, ro2, sc2, rs2, pa2, n2)
<1>1. HoldsSuper(q, ro2)
  BY DEF Holds, HoldsSuper, Grows, IsSuper
<1>2. HoldsRole(q, sc2, rs2, n2)
  <2>1. ASSUME NEW p \in q.ask, q.ask \in Asks  PROVE p[1] \in Codes
    BY <2>1, CatalogAssumption
  <2>2. q.began \in Nat /\ \A row \in rs2 : row.by \in Nat
    BY DEF RequestType, RoleScreen
  <2>3. q.pc \in {"inserting", "replacing", "flushed", "deleting"} =>
          /\ \A p \in q.ask : sc2[p[1]] # NULL
          /\ q.began <= n2 + 1
    BY <2>1, <2>2 DEF Holds, HoldsRole, Grows
  <2>4. q.pc \in {"deleting", "inserting"} /\ q.op = "update" =>
          /\ \A row \in q.seen : row.role = q.role
          /\ \A row \in rs2 : row.role = q.role => row \in q.seen \/ row.by >= q.began
    BY <2>2, CatalogAssumption DEF Holds, HoldsSuper, HoldsRole, Grows, IsSuper
  <2> QED
    BY <2>3, <2>4 DEF Holds, HoldsRole
<1>3. HoldsScreen(q, sc2) /\ HoldsUser(q, pa2)
  BY DEF Holds, HoldsScreen, HoldsUser, Grows
<1> QED
  BY <1>1, <1>2, <1>3 DEF Holds

(* A step of request r that leaves it with q and the others alone.         *)
LEMMA StepInv ==
    ASSUME Inv, NEW r \in Requests, NEW q \in RequestType,
           req' = [req EXCEPT ![r] = q],
           TablesOK', CatalogInv', LedgerInv',
           Grows(roles, screens, role_screens, platform_admins, replacements,
                 roles', screens', role_screens', platform_admins', replacements'),
           Holds(q, roles', screens', role_screens', platform_admins', replacements')
    PROVE  Inv'
<1>1. req \in [Requests -> RequestType] /\ req' \in [Requests -> RequestType]
  BY DEF Inv
<1>2. ASSUME NEW s \in Requests
      PROVE  Holds(req'[s], roles', screens', role_screens', platform_admins', replacements')
  <2>1. CASE s = r
    BY <1>1, <2>1
  <2>2. CASE s # r
    <3>1. req'[s] = req[s] /\ req[s] \in RequestType
      BY <1>1, <2>2
    <3>2. Holds(req[s], roles, screens, role_screens, platform_admins, replacements)
      BY DEF Inv, WorkInv
    <3>3. replacements \in Nat /\ replacements' \in Nat /\ role_screens' \subseteq RoleScreen
      BY DEF Inv, TablesOK
    <3> QED
      BY <3>1, <3>2, <3>3, HoldsGrows
  <2> QED
    BY <2>1, <2>2
<1> QED
  BY <1>1, <1>2 DEF Inv, WorkInv

tables == <<roles, screens, role_screens, platform_admins, platform_admin_roles,
            replacements, since>>

LEMMA TablesUnchanged ==
    ASSUME Inv, UNCHANGED tables
    PROVE  /\ TablesOK' /\ CatalogInv' /\ LedgerInv'
           /\ Grows(roles, screens, role_screens, platform_admins, replacements,
                    roles', screens', role_screens', platform_admins', replacements')
<1>1. TablesOK'
  BY DEF Inv, TablesOK, tables
<1>2. CatalogInv'
  BY DEF Inv, CatalogInv, Complete, IsSuper, tables
<1>3. LedgerInv'
  BY DEF Inv, LedgerInv, NoStrayPermission, IsSuper, tables
<1> QED
  BY <1>1, <1>2, <1>3 DEF Inv, TablesOK, Grows, tables

(* A read.                                                                 *)
LEMMA ReadInv ==
    ASSUME Inv, NEW r \in Requests, NEW q \in RequestType,
           req' = [req EXCEPT ![r] = q], UNCHANGED tables,
           Holds(q, roles, screens, role_screens, platform_admins, replacements)
    PROVE  Inv'
<1>1. Holds(q, roles', screens', role_screens', platform_admins', replacements')
  BY DEF tables
<1> QED
  BY <1>1, TablesUnchanged, StepInv

-----------------------------------------------------------------------------
(* Who may send a request has super_admin: no other role is ever assigned. *)
LEMMA Authorized ==
    ASSUME Inv, NEW code, NEW operation, require_permission(code, operation)
    PROVE  \E x \in Roles : IsSuper(roles, x)
<1>1. PICK a \in platform_admins : <<code, operation>> \in permissions_for_admin(a)
  BY DEF require_permission
<1>2. PICK row \in role_screens : <<a, row.role>> \in platform_admin_roles
  BY <1>1 DEF permissions_for_admin, screen_permissions_for_admin, Expand
<1> QED
  BY <1>2 DEF Inv, CatalogInv, TablesOK, RoleScreen

LEMMA IdleHolds ==
    ASSUME NEW ro, NEW sc, NEW rs, NEW pa, NEW n
    PROVE  Idle \in RequestType /\ Holds(Idle, ro, sc, rs, pa, n)
<1>1. Idle \in RequestType
  BY DEF Idle, RequestType
<1>2. Holds(Idle, ro, sc, rs, pa, n)
  BY DEF Idle, Holds, HoldsSuper, HoldsRole, HoldsScreen, HoldsUser
<1> QED
  BY <1>1, <1>2

(* What the invariant says of one request.                                 *)
LEMMA RequestHolds ==
    ASSUME Inv, NEW r \in Requests
    PROVE  /\ req[r] \in RequestType
           /\ Holds(req[r], roles, screens, role_screens, platform_admins, replacements)
  BY DEF Inv, WorkInv

SameWork(q, p) ==
    /\ q.op = p.op /\ q.role = p.role /\ q.code = p.code /\ q.admin = p.admin
    /\ q.was = p.was /\ q.obj = p.obj /\ q.ask = p.ask /\ q.seen = p.seen

(* A read after which the request goes on unchanged.                       *)
LEMMA GotoType ==
    ASSUME Inv, NEW r \in Requests, NEW pc, Goto(r, pc),
           pc \in {"naming", "validating", "inserting", "saving", "replacing", "flushed",
                  "deleting", "checking", "granting", "adding", "assigning", "linking"}
    PROVE  /\ [req[r] EXCEPT !.pc = pc] \in RequestType
           /\ req' = [req EXCEPT ![r] = [req[r] EXCEPT !.pc = pc]]
<1>1. req \in [Requests -> RequestType] /\ req[r] \in RequestType
  BY DEF Inv
<1>2. [req[r] EXCEPT !.pc = pc] \in RequestType
  BY <1>1 DEF RequestType
<1>3. req' = [req EXCEPT ![r] = [req[r] EXCEPT !.pc = pc]]
  BY <1>1 DEF Goto
<1> QED
  BY <1>2, <1>3

-----------------------------------------------------------------------------
(* The reads of the role operations.                                       *)

LEMMA StartCreateRoleInv ==
    ASSUME Inv, NEW r \in Requests, NEW name \in Names, NEW status \in Status,
           NEW ask \in Asks, StartCreateRole(r, name, status, ask)
    PROVE  Inv'
<1> DEFINE q == [Idle EXCEPT !.op = "create", !.pc = "naming",
                             !.obj = [name |-> name, status |-> status], !.ask = ask]
<1>1. q \in RequestType
  BY DEF Idle, RequestType, Role
<1>2. \E x \in Roles : IsSuper(roles, x)
  BY Authorized DEF StartCreateRole
<1>3. Holds(q, roles, screens, role_screens, platform_admins, replacements)
  BY <1>2 DEF Idle, Role, Holds, HoldsSuper, HoldsRole, HoldsScreen, HoldsUser
<1>4. req' = [req EXCEPT ![r] = q] /\ UNCHANGED tables
  BY DEF StartCreateRole, tables, directory, ledger
<1> QED
  BY <1>1, <1>3, <1>4, ReadInv

LEMMA StartUpdateRoleInv ==
    ASSUME Inv, NEW r \in Requests, NEW x \in Roles, NEW name \in Names \cup {NULL},
           NEW status \in Status \cup {NULL}, NEW ask \in Asks \cup {NULL},
           StartUpdateRole(r, x, name, status, ask)
    PROVE  Inv'
<1> DEFINE obj == [name |-> Given(name, roles[x].name),
                   status |-> Given(status, roles[x].status)]
<1> DEFINE pc == IF name # NULL THEN "naming"
                 ELSE IF ask # NULL THEN "validating" ELSE "saving"
<1> DEFINE q == [Idle EXCEPT !.op = "update", !.pc = pc, !.role = x, !.was = roles[x],
                             !.obj = obj, !.ask = ask]
<1>1. roles[x] \in Role /\ obj \in Role
  BY DEF StartUpdateRole, Inv, TablesOK, Given, Role
<1>2. IsSuper(roles, x) =>
          obj.name = SUPER_ADMIN_ROLE_NAME /\ obj.status = "active" /\ ask = NULL
  BY DEF StartUpdateRole, ProtectedRole, IsSuper, Given, Inv, CatalogInv, Complete, Status
<1>3. roles[x] # NULL /\ \E y \in Roles : IsSuper(roles, y)
  BY Authorized DEF StartUpdateRole
<1>4. req' = [req EXCEPT ![r] = q] /\ UNCHANGED tables
  BY DEF StartUpdateRole, tables, directory, ledger
<1> HIDE DEF obj
<1>5. q \in RequestType
  BY <1>1 DEF Idle, RequestType
<1>6. HoldsSuper(q, roles)
  BY <1>1, <1>2, <1>3 DEF Idle, HoldsSuper
<1>7. /\ HoldsRole(q, screens, role_screens, replacements)
      /\ HoldsScreen(q, screens) /\ HoldsUser(q, platform_admins)
  BY <1>1 DEF Idle, HoldsRole, HoldsScreen, HoldsUser
<1> HIDE DEF q
<1> QED
  BY <1>4, <1>5, <1>6, <1>7, ReadInv DEF Holds

LEMMA StartDeleteRoleInv ==
    ASSUME Inv, NEW r \in Requests, NEW x \in Roles, StartDeleteRole(r, x)
    PROVE  Inv'
<1> DEFINE obj == [roles[x] EXCEPT !.status = "inactive"]
<1> DEFINE q == [Idle EXCEPT !.op = "delete", !.pc = "saving", !.role = x,
                             !.was = roles[x], !.obj = obj]
<1>1. roles[x] \in Role /\ obj \in Role /\ ~IsSuper(roles, x) /\ roles[x] # NULL
  BY DEF StartDeleteRole, Inv, TablesOK, Role, Status, IsSuper
<1>2. \E y \in Roles : IsSuper(roles, y)
  BY Authorized DEF StartDeleteRole
<1>3. req' = [req EXCEPT ![r] = q] /\ UNCHANGED tables
  BY DEF StartDeleteRole, tables, directory, ledger
<1> HIDE DEF obj
<1>4. q \in RequestType
  BY <1>1 DEF Idle, RequestType
<1>5. Holds(q, roles, screens, role_screens, platform_admins, replacements)
  BY <1>1, <1>2 DEF Idle, Holds, HoldsSuper, HoldsRole, HoldsScreen, HoldsUser
<1> HIDE DEF q
<1> QED
  BY <1>3, <1>4, <1>5, ReadInv

LEMMA EnsureNameAvailableInv ==
    ASSUME Inv, NEW r \in Requests, EnsureNameAvailable(r)
    PROVE  Inv'
<1> DEFINE pc == IF req[r].ask # NULL THEN "validating" ELSE "saving"
<1> DEFINE q == [req[r] EXCEPT !.pc = pc]
<1>1. req[r] \in RequestType /\ req[r].pc = "naming"
  BY RequestHolds DEF EnsureNameAvailable
<1>2. q \in RequestType /\ req' = [req EXCEPT ![r] = q] /\ UNCHANGED tables
  BY GotoType DEF EnsureNameAvailable, tables, directory, ledger
<1>3. SameWork(q, req[r]) /\ q.pc = pc /\ q.began = req[r].began
  BY <1>1 DEF SameWork, RequestType
<1> HIDE DEF q
<1>4. HoldsSuper(req[r], roles) /\ HoldsRole(req[r], screens, role_screens, replacements)
  BY RequestHolds DEF Holds
<1>5. req[r].ask # NULL => req[r].ask \in Asks
  BY <1>1 DEF RequestType
<1>6. req[r].ask = NULL => req[r].op # "create"
  BY <1>1, <1>4, CatalogAssumption DEF HoldsRole
<1>7. HoldsSuper(q, roles)
  BY <1>1, <1>3, <1>4 DEF HoldsSuper, SameWork
<1>8. HoldsRole(q, screens, role_screens, replacements)
  BY <1>1, <1>3, <1>4, <1>5, <1>6 DEF HoldsRole, SameWork
<1>9. HoldsScreen(q, screens) /\ HoldsUser(q, platform_admins)
  BY <1>3 DEF HoldsScreen, HoldsUser
<1> QED
  BY <1>2, <1>7, <1>8, <1>9, ReadInv DEF Holds

LEMMA ValidateScreenCodesInv ==
    ASSUME Inv, NEW r \in Requests, ValidateScreenCodes(r)
    PROVE  Inv'
<1> DEFINE pc == IF req[r].op = "create" THEN "inserting" ELSE "replacing"
<1> DEFINE n == replacements + 1
<1> DEFINE q == [req[r] EXCEPT !.pc = pc, !.began = n]
<1>1. /\ req[r] \in RequestType /\ req[r].pc = "validating"
      /\ replacements \in Nat /\ n \in Nat /\ pc \in {"inserting", "replacing"}
      /\ req \in [Requests -> RequestType]
  BY RequestHolds DEF ValidateScreenCodes, Inv, TablesOK
<1>2. req' = [req EXCEPT ![r] = q] /\ UNCHANGED tables
  BY <1>1 DEF ValidateScreenCodes, tables, directory, ledger
<1>3. pc = "inserting" <=> req[r].op = "create"
  OBVIOUS
<1> HIDE DEF pc, n
<1>4. q \in RequestType
  BY <1>1 DEF RequestType
<1>5. SameWork(q, req[r]) /\ q.pc = pc /\ q.began = n
  BY <1>1 DEF SameWork, RequestType
<1> HIDE DEF q
<1>6. HoldsSuper(req[r], roles) /\ HoldsRole(req[r], screens, role_screens, replacements)
  BY RequestHolds DEF Holds
<1>7. \A p \in req[r].ask : screens[p[1]] # NULL
  BY DEF ValidateScreenCodes, ActiveScreen
<1>8. req[r].op \in {"create", "update"}
  BY <1>1, <1>6 DEF HoldsRole
<1>9. HoldsSuper(q, roles)
  BY <1>1, <1>3, <1>5, <1>6, <1>8 DEF HoldsSuper, SameWork
<1>10. HoldsRole(q, screens, role_screens, replacements)
  BY <1>1, <1>3, <1>5, <1>6, <1>7, <1>8 DEF HoldsRole, SameWork, n
<1>11. HoldsScreen(q, screens) /\ HoldsUser(q, platform_admins)
  BY <1>1, <1>5 DEF HoldsScreen, HoldsUser
<1> QED
  BY <1>2, <1>4, <1>9, <1>10, <1>11, ReadInv DEF Holds

(* A name that the unique index allows is super_admin only for super_admin *)
(* itself.                                                                 *)
LEMMA NotAnotherSuper ==
    ASSUME Inv, NEW x \in Roles, UniqueName(x, SUPER_ADMIN_ROLE_NAME),
           \E y \in Roles : IsSuper(roles, y)
    PROVE  IsSuper(roles, x)
  BY DEF UniqueName, Named, IsSuper

LEMMA FlushRoleInv ==
    ASSUME Inv, NEW r \in Requests, FlushRole(r)
    PROVE  Inv'
<1> DEFINE q == [req[r] EXCEPT !.pc = "flushed"]
<1>1. /\ req[r] \in RequestType /\ req[r].pc = "replacing"
      /\ HoldsSuper(req[r], roles) /\ HoldsRole(req[r], screens, role_screens, replacements)
  BY RequestHolds DEF FlushRole, Holds
<1>2. q \in RequestType /\ req' = [req EXCEPT ![r] = q] /\ UNCHANGED tables
  BY GotoType DEF FlushRole, tables, directory, ledger
<1>3. req[r].op = "update" /\ req[r].role \in Roles /\ ~IsSuper(roles, req[r].role)
  BY <1>1, CatalogAssumption DEF HoldsSuper, HoldsRole
<1>4. req[r].obj.name # req[r].was.name => req[r].obj.name # SUPER_ADMIN_ROLE_NAME
  <2>1. SUFFICES ASSUME req[r].obj.name # req[r].was.name,
                        req[r].obj.name = SUPER_ADMIN_ROLE_NAME
                 PROVE  FALSE
    OBVIOUS
  <2>2. UniqueName(req[r].role, SUPER_ADMIN_ROLE_NAME)
    BY <2>1 DEF FlushRole, Updated, Column
  <2> QED
    BY <2>2, <1>1, <1>3, NotAnotherSuper DEF HoldsSuper
<1>5. Holds(q, roles, screens, role_screens, platform_admins, replacements)
  BY <1>1, <1>3, <1>4, RequestHolds
     DEF Holds, HoldsSuper, HoldsRole, HoldsScreen, HoldsUser, RequestType, Role
<1> HIDE DEF q
<1> QED
  BY <1>2, <1>5, ReadInv

LEMMA BeginDeleteInv ==
    ASSUME Inv, NEW r \in Requests, BeginDelete(r)
    PROVE  Inv'
<1> DEFINE q == [req[r] EXCEPT !.pc = "deleting", !.seen = RowsOf(req[r].role)]
<1>1. /\ req[r] \in RequestType /\ req[r].pc \in {"flushed", "replacing"}
      /\ req[r].pc = "replacing" => req[r].obj = req[r].was
      /\ HoldsSuper(req[r], roles) /\ HoldsRole(req[r], screens, role_screens, replacements)
  BY RequestHolds DEF BeginDelete, Holds
<1>2. q \in RequestType
  BY <1>1 DEF RequestType, RowsOf, Inv, TablesOK
<1>3. req' = [req EXCEPT ![r] = q] /\ UNCHANGED tables
  BY DEF BeginDelete, tables, directory, ledger, Inv
<1>4. HoldsSuper(q, roles)
  BY <1>1 DEF HoldsSuper, HoldsRole, RequestType
<1>5. HoldsRole(q, screens, role_screens, replacements)
  BY <1>1 DEF HoldsRole, RowsOf, RequestType
<1>6. HoldsScreen(q, screens) /\ HoldsUser(q, platform_admins)
  BY <1>1 DEF HoldsScreen, HoldsUser, RequestType
<1> HIDE DEF q
<1> QED
  BY <1>2, <1>3, <1>4, <1>5, <1>6, ReadInv DEF Holds

LEMMA FinishDeleteInv ==
    ASSUME Inv, NEW r \in Requests, FinishDelete(r)
    PROVE  Inv'
<1> DEFINE q == [req[r] EXCEPT !.pc = "inserting"]
<1>1. req[r] \in RequestType /\ req[r].pc = "deleting"
  BY RequestHolds DEF FinishDelete
<1>2. q \in RequestType /\ req' = [req EXCEPT ![r] = q] /\ UNCHANGED tables
  BY GotoType DEF FinishDelete, tables, directory, ledger
<1>3. Holds(q, roles, screens, role_screens, platform_admins, replacements)
  BY <1>1, RequestHolds
     DEF Holds, HoldsSuper, HoldsRole, HoldsScreen, HoldsUser, RequestType
<1> HIDE DEF q
<1> QED
  BY <1>2, <1>3, ReadInv

-----------------------------------------------------------------------------
(* The reads of the operations on screens and admins, and a request's end. *)

LEMMA StartCreateScreenInv ==
    ASSUME Inv, NEW r \in Requests, NEW code \in Codes \cup {NULL}, NEW status \in Status,
           StartCreateScreen(r, code, status)
    PROVE  Inv'
<1> DEFINE pc == IF code = NULL THEN "numbering" ELSE "checking"
<1> DEFINE q == [Idle EXCEPT !.op = "screen", !.code = code, !.obj = [status |-> status],
                             !.pc = pc]
<1>1. q \in RequestType
  BY DEF Idle, RequestType, Screen
<1>2. \E x \in Roles : IsSuper(roles, x)
  BY Authorized DEF StartCreateScreen
<1>3. req' = [req EXCEPT ![r] = q] /\ UNCHANGED tables
  BY DEF StartCreateScreen, tables, directory, ledger
<1>4. Holds(q, roles, screens, role_screens, platform_admins, replacements)
  BY <1>2 DEF Idle, Screen, Holds, HoldsSuper, HoldsRole, HoldsScreen, HoldsUser
<1> HIDE DEF q
<1> QED
  BY <1>1, <1>3, <1>4, ReadInv

LEMMA StartUpdateScreenInv ==
    ASSUME Inv, NEW r \in Requests, NEW code \in Codes, NEW status \in Status,
           StartUpdateScreen(r, code, status)
    PROVE  Inv'
<1> DEFINE q == [Idle EXCEPT !.op = "screen", !.pc = "saving screen", !.code = code,
                             !.was = screens[code], !.obj = [status |-> status]]
<1>1. screens[code] # NULL /\ screens[code] \in Screen
  BY DEF StartUpdateScreen, Inv, TablesOK
<1>2. q \in RequestType
  BY <1>1 DEF Idle, RequestType, Screen
<1>3. \E x \in Roles : IsSuper(roles, x)
  BY Authorized DEF StartUpdateScreen
<1>4. req' = [req EXCEPT ![r] = q] /\ UNCHANGED tables
  BY DEF StartUpdateScreen, tables, directory, ledger
<1>5. code \in PROTECTED_SCREEN_CODES => status = "active"
  BY DEF StartUpdateScreen, Status
<1>6. HoldsScreen(q, screens) /\ HoldsUser(q, platform_admins)
  BY <1>1, <1>5 DEF Idle, Screen, HoldsScreen, HoldsUser
<1>7. HoldsSuper(q, roles) /\ HoldsRole(q, screens, role_screens, replacements)
  BY <1>3 DEF Idle, HoldsSuper, HoldsRole
<1> HIDE DEF q
<1> QED
  BY <1>2, <1>4, <1>6, <1>7, ReadInv DEF Holds

LEMMA NextScreenCodeInv ==
    ASSUME Inv, NEW r \in Requests, NextScreenCode(r)
    PROVE  Inv'
<1>1. PICK code \in Codes : req' = [req EXCEPT ![r].pc = "checking", ![r].code = code]
  BY DEF NextScreenCode
<1> DEFINE q == [req[r] EXCEPT !.pc = "checking", !.code = code]
<1>2. req[r] \in RequestType /\ req[r].pc = "numbering" /\ req \in [Requests -> RequestType]
  BY RequestHolds DEF NextScreenCode, Inv
<1>3. q \in RequestType
  BY <1>2 DEF RequestType
<1>4. req' = [req EXCEPT ![r] = q] /\ UNCHANGED tables
  BY <1>1, <1>2 DEF NextScreenCode, tables, directory, ledger
<1>5. HoldsSuper(q, roles) /\ HoldsRole(q, screens, role_screens, replacements)
  BY <1>2, RequestHolds DEF Holds, HoldsSuper, HoldsRole, RequestType
<1>6. HoldsScreen(q, screens) /\ HoldsUser(q, platform_admins)
  BY <1>2, RequestHolds DEF Holds, HoldsScreen, HoldsUser, RequestType
<1> HIDE DEF q
<1> QED
  BY <1>3, <1>4, <1>5, <1>6, ReadInv DEF Holds

LEMMA EnsureCodeAvailableInv ==
    ASSUME Inv, NEW r \in Requests, EnsureCodeAvailable(r)
    PROVE  Inv'
<1> DEFINE q == [req[r] EXCEPT !.pc = "granting"]
<1>1. req[r] \in RequestType /\ req[r].pc = "checking"
  BY RequestHolds DEF EnsureCodeAvailable
<1>2. q \in RequestType /\ req' = [req EXCEPT ![r] = q] /\ UNCHANGED tables
  BY GotoType DEF EnsureCodeAvailable, tables, directory, ledger
<1>3. Holds(q, roles, screens, role_screens, platform_admins, replacements)
  BY <1>1, RequestHolds
     DEF Holds, HoldsSuper, HoldsRole, HoldsScreen, HoldsUser, RequestType
<1> HIDE DEF q
<1> QED
  BY <1>2, <1>3, ReadInv

LEMMA GetSuperAdminInv ==
    ASSUME Inv, NEW r \in Requests, GetSuperAdmin(r)
    PROVE  Inv'
<1>1. PICK x \in Roles : /\ Named(x, SUPER_ADMIN_ROLE_NAME)
                         /\ req' = [req EXCEPT ![r].pc = "adding", ![r].role = x]
  BY DEF GetSuperAdmin
<1> DEFINE q == [req[r] EXCEPT !.pc = "adding", !.role = x]
<1>2. req[r] \in RequestType /\ req[r].pc = "granting" /\ req \in [Requests -> RequestType]
  BY RequestHolds DEF GetSuperAdmin, Inv
<1>3. q \in RequestType
  BY <1>2 DEF RequestType
<1>4. req' = [req EXCEPT ![r] = q] /\ UNCHANGED tables
  BY <1>1, <1>2 DEF GetSuperAdmin, tables, directory, ledger
<1>5. HoldsSuper(q, roles)
  BY <1>1, <1>2, RequestHolds DEF Holds, HoldsSuper, HoldsScreen, RequestType, Named, IsSuper
<1>6. /\ HoldsRole(q, screens, role_screens, replacements)
      /\ HoldsScreen(q, screens) /\ HoldsUser(q, platform_admins)
  BY <1>2, RequestHolds DEF Holds, HoldsRole, HoldsScreen, HoldsUser, RequestType
<1> HIDE DEF q
<1> QED
  BY <1>3, <1>4, <1>5, <1>6, ReadInv DEF Holds

LEMMA StartCreateUserInv ==
    ASSUME Inv, NEW r \in Requests, NEW a \in Admins, StartCreateUser(r, a)
    PROVE  Inv'
<1> DEFINE q == [Idle EXCEPT !.op = "user", !.pc = "creating", !.admin = a]
<1>1. q \in RequestType
  BY DEF Idle, RequestType
<1>2. \E x \in Roles : IsSuper(roles, x)
  BY Authorized DEF StartCreateUser
<1>3. req' = [req EXCEPT ![r] = q] /\ UNCHANGED tables
  BY DEF StartCreateUser, tables, directory, ledger
<1>4. Holds(q, roles, screens, role_screens, platform_admins, replacements)
  BY <1>2 DEF Idle, Holds, HoldsSuper, HoldsRole, HoldsScreen, HoldsUser
<1> HIDE DEF q
<1> QED
  BY <1>1, <1>3, <1>4, ReadInv

LEMMA FinishInv ==
    ASSUME Inv, NEW r \in Requests, Finish(r), UNCHANGED tables
    PROVE  Inv'
  BY IdleHolds, ReadInv DEF Finish

LEMMA AssignSuperAdminInv ==
    ASSUME Inv, NEW r \in Requests, AssignSuperAdmin(r)
    PROVE  Inv'
<1>1. UNCHANGED tables
  BY DEF AssignSuperAdmin, tables, directory, ledger
<1>2. CASE Finish(r)
  BY <1>1, <1>2, FinishInv
<1>3. ASSUME NEW x \in Roles, Named(x, SUPER_ADMIN_ROLE_NAME),
             req' = [req EXCEPT ![r].pc = "linking", ![r].role = x]
      PROVE  Inv'
  <2> DEFINE q == [req[r] EXCEPT !.pc = "linking", !.role = x]
  <2>1. req[r] \in RequestType /\ req[r].pc = "assigning" /\ req \in [Requests -> RequestType]
    BY RequestHolds DEF AssignSuperAdmin, Inv
  <2>2. q \in RequestType
    BY <2>1 DEF RequestType
  <2>3. req' = [req EXCEPT ![r] = q]
    BY <1>3, <2>1
  <2>4. HoldsSuper(q, roles) /\ HoldsRole(q, screens, role_screens, replacements)
    BY <1>3, <2>1, RequestHolds
       DEF Holds, HoldsSuper, HoldsRole, HoldsUser, RequestType, Named, IsSuper
  <2>5. HoldsScreen(q, screens) /\ HoldsUser(q, platform_admins)
    BY <2>1, RequestHolds DEF Holds, HoldsScreen, HoldsUser, RequestType
  <2> HIDE DEF q
  <2> QED
    BY <1>1, <2>2, <2>3, <2>4, <2>5, ReadInv DEF Holds
<1> QED
  BY <1>2, <1>3 DEF AssignSuperAdmin

LEMMA FailInv ==
    ASSUME Inv, NEW r \in Requests, Fail(r)
    PROVE  Inv'
  BY FinishInv DEF Fail, tables, directory, ledger

-----------------------------------------------------------------------------
(* The commits.                                                            *)

(* What a commit that ends the request has to keep.                        *)
LEMMA CommitInv ==
    ASSUME Inv, NEW r \in Requests, Finish(r), TablesOK', CatalogInv', LedgerInv',
           Grows(roles, screens, role_screens, platform_admins, replacements,
                 roles', screens', role_screens', platform_admins', replacements')
    PROVE  Inv'
  BY IdleHolds, StepInv DEF Finish

LEMMA CommitUserInv ==
    ASSUME Inv, NEW r \in Requests, CommitUser(r)
    PROVE  Inv'
<1> DEFINE q == [req[r] EXCEPT !.pc = "assigning"]
<1>1. /\ req[r] \in RequestType /\ req[r].pc = "creating"
      /\ Holds(req[r], roles, screens, role_screens, platform_admins, replacements)
  BY RequestHolds DEF CommitUser
<1>2. q \in RequestType /\ req' = [req EXCEPT ![r] = q]
  BY GotoType DEF CommitUser
<1>3. /\ UNCHANGED <<roles, screens, role_screens, platform_admin_roles, replacements, since>>
      /\ platform_admins' = platform_admins \cup {req[r].admin}
  BY DEF CommitUser, ledger
<1>4. req[r].admin \in Admins
  BY <1>1 DEF Holds, HoldsUser
<1>5. TablesOK'
  BY <1>3, <1>4 DEF Inv, TablesOK
<1>6. CatalogInv' /\ LedgerInv'
  BY <1>3 DEF Inv, CatalogInv, Complete, IsSuper, LedgerInv, NoStrayPermission
<1>7. Grows(roles, screens, role_screens, platform_admins, replacements,
            roles', screens', role_screens', platform_admins', replacements')
  BY <1>3 DEF Inv, TablesOK, Grows
<1>8. Holds(q, roles, screens, role_screens, platform_admins', replacements)
  BY <1>1, <1>3 DEF Holds, HoldsSuper, HoldsRole, HoldsScreen, HoldsUser, RequestType
<1> HIDE DEF q
<1>9. Holds(q, roles', screens', role_screens', platform_admins', replacements')
  BY <1>3, <1>8
<1> QED
  BY <1>2, <1>5, <1>6, <1>7, <1>9, StepInv

LEMMA CommitLinkInv ==
    ASSUME Inv, NEW r \in Requests, CommitLink(r)
    PROVE  Inv'
<1>1. /\ Finish(r)
      /\ UNCHANGED <<roles, screens, role_screens, platform_admins, replacements, since>>
      /\ platform_admin_roles' = platform_admin_roles \cup {<<req[r].admin, req[r].role>>}
  BY DEF CommitLink, ledger
<1>2. req[r].admin \in platform_admins /\ req[r].role \in Roles /\ IsSuper(roles, req[r].role)
  BY RequestHolds DEF CommitLink, Holds, HoldsUser, HoldsSuper
<1>3. TablesOK'
  BY <1>1, <1>2 DEF Inv, TablesOK
<1>4. CatalogInv' /\ LedgerInv'
  BY <1>1, <1>2 DEF Inv, CatalogInv, Complete, IsSuper, LedgerInv, NoStrayPermission
<1>5. Grows(roles, screens, role_screens, platform_admins, replacements,
            roles', screens', role_screens', platform_admins', replacements')
  BY <1>1 DEF Inv, TablesOK, Grows
<1> QED
  BY <1>1, <1>3, <1>4, <1>5, CommitInv

(* No role that exists becomes super_admin, or ceases to be.               *)
SuperStays ==
    \A x \in Roles : roles[x] # NULL =>
        roles'[x] # NULL /\ (IsSuper(roles', x) <=> IsSuper(roles, x))

(* A role is written whose name and status stay what they must be, and no  *)
(* permission of super_admin is taken away.                                *)
LEMMA RoleWritten ==
    ASSUME Inv, NEW x \in Roles, NEW row \in Role, roles' = [roles EXCEPT ![x] = row],
           UNCHANGED <<screens, platform_admins, platform_admin_roles>>,
           \A p \in role_screens : IsSuper(roles, p.role) => p \in role_screens',
           \E y \in Roles : IsSuper(roles, y),
           row.name = SUPER_ADMIN_ROLE_NAME <=> IsSuper(roles, x),
           IsSuper(roles, x) => row.status = "active"
    PROVE  /\ roles' \in [Roles -> Role \cup {NULL}]
           /\ \A y \in Roles : IsSuper(roles', y) <=> IsSuper(roles, y)
           /\ \A y \in Roles : roles[y] # NULL => roles'[y] # NULL
           /\ CatalogInv'
<1>1. roles \in [Roles -> Role \cup {NULL}] /\ row # NULL
  BY CatalogAssumption DEF Inv, TablesOK
<1>2. \A y \in Roles : IsSuper(roles', y) <=> IsSuper(roles, y)
  BY <1>1 DEF IsSuper
<1>3. ASSUME NEW y \in Roles, IsSuper(roles, y)
      PROVE  Complete(y)'
  <2>1. Complete(y)
    BY <1>3 DEF Inv, CatalogInv
  <2>2. roles'[y].status = "active"
    BY <1>1, <1>3, <2>1 DEF Complete
  <2>3. \A p \in role_screens : p.role = y => p \in role_screens'
    BY <1>3
  <2> QED
    BY <2>1, <2>2, <2>3 DEF Complete
<1>4. CatalogInv'
  <2>1. \A link \in platform_admin_roles : link[2] \in Roles
    BY DEF Inv, TablesOK
  <2> QED
    BY <1>2, <1>3, <2>1 DEF Inv, CatalogInv
<1> QED
  BY <1>1, <1>2, <1>4

LEMMA SaveRoleInv ==
    ASSUME Inv, NEW r \in Requests, SaveRole(r)
    PROVE  Inv' /\ SuperStays
<1> DEFINE x == req[r].role
<1> DEFINE row == Updated(roles[x], req[r].was, req[r].obj)
<1>1. /\ Finish(r) /\ UniqueName(x, row.name) /\ roles' = [roles EXCEPT ![x] = row]
      /\ UNCHANGED <<screens, role_screens, platform_admins, platform_admin_roles,
                     replacements, since>>
  BY DEF SaveRole, directory, ledger
<1>2. /\ HoldsSuper(req[r], roles) /\ req[r].pc = "saving"
      /\ req[r].op \in {"update", "delete"}
  BY RequestHolds DEF SaveRole, Holds, HoldsRole
<1>3. /\ \E y \in Roles : IsSuper(roles, y)
      /\ x \in Roles /\ roles[x] # NULL /\ req[r].was \in Role /\ req[r].obj \in Role
      /\ IsSuper(roles, x) => /\ req[r].obj.name = SUPER_ADMIN_ROLE_NAME
                              /\ req[r].obj.status = "active"
  BY <1>2 DEF HoldsSuper
<1>4. roles[x] \in Role
  BY <1>3 DEF Inv, TablesOK
<1>5. row \in Role
  BY <1>3, <1>4 DEF Updated, Column, Role
<1>6. IsSuper(roles, x) => row.name = SUPER_ADMIN_ROLE_NAME /\ row.status = "active"
  BY <1>3 DEF Updated, Column, IsSuper, Inv, CatalogInv, Complete
<1> HIDE DEF row
<1>7. row.name = SUPER_ADMIN_ROLE_NAME => IsSuper(roles, x)
  BY <1>1, <1>3, NotAnotherSuper
<1> HIDE DEF x
<1>8. /\ roles' \in [Roles -> Role \cup {NULL}]
      /\ \A y \in Roles : IsSuper(roles', y) <=> IsSuper(roles, y)
      /\ \A y \in Roles : roles[y] # NULL => roles'[y] # NULL
      /\ CatalogInv'
  BY <1>1, <1>3, <1>5, <1>6, <1>7, RoleWritten
<1>9. TablesOK'
  BY <1>1, <1>8 DEF Inv, TablesOK, RoleScreen
<1>10. LedgerInv'
  BY <1>1, <1>8 DEF Inv, LedgerInv, NoStrayPermission
<1>11. replacements \in Nat /\ replacements <= replacements'
  BY <1>1 DEF Inv, TablesOK
<1>12. Grows(roles, screens, role_screens, platform_admins, replacements,
             roles', screens', role_screens', platform_admins', replacements')
  BY <1>1, <1>8, <1>11 DEF Grows
<1> QED
  BY <1>1, <1>8, <1>9, <1>10, <1>12, CommitInv DEF SuperStays

(* The rows of a list of permissions: one for each screen.                 *)
LEMMA PermissionRowsOK ==
    ASSUME NEW x \in Roles, NEW ask \in Asks, NEW by \in Nat
    PROVE  /\ PermissionRows(x, ask, by) \subseteq RoleScreen
           /\ \A row \in PermissionRows(x, ask, by) :
                 row.role = x /\ row.by = by /\ \E p \in ask : row.code = p[1]
           /\ \A row, other \in PermissionRows(x, ask, by) :
                 row.code = other.code => row = other
<1> DEFINE W(code) == <<code, "W">> \in ask
<1> DEFINE Row(code) == [role |-> x, code |-> code, write |-> W(code), by |-> by]
<1>1. \A p \in ask : p[1] \in Codes
  BY CatalogAssumption
<1>2. \A row \in PermissionRows(x, ask, by) : \E p \in ask : row = Row(p[1])
  BY DEF PermissionRows
<1>3. \A code : W(code) \in BOOLEAN
  OBVIOUS
<1> HIDE DEF W
<1>4. \A code \in Codes : Row(code) \in RoleScreen
  BY <1>3 DEF RoleScreen
<1>5. \A code : Row(code).role = x /\ Row(code).by = by /\ Row(code).code = code
  OBVIOUS
<1> HIDE DEF Row
<1>6. PermissionRows(x, ask, by) \subseteq RoleScreen
  BY <1>1, <1>2, <1>4
<1>7. \A row \in PermissionRows(x, ask, by) :
          row.role = x /\ row.by = by /\ \E p \in ask : row.code = p[1]
  BY <1>2, <1>5
<1>8. ASSUME NEW row \in PermissionRows(x, ask, by), NEW other \in PermissionRows(x, ask, by),
             row.code = other.code
      PROVE  row = other
  <2>1. PICK p \in ask, q \in ask : row = Row(p[1]) /\ other = Row(q[1])
    BY <1>2
  <2>2. p[1] = q[1]
    BY <1>5, <1>8, <2>1
  <2> QED
    BY <2>1, <2>2
<1> QED
  BY <1>6, <1>7, <1>8

LEMMA CommitCreateInv ==
    ASSUME Inv, NEW r \in Requests, CommitCreate(r)
    PROVE  Inv' /\ SuperStays
<1>1. PICK x \in Roles :
          /\ roles[x] = NULL
          /\ UniqueName(x, req[r].obj.name)
          /\ roles' = [roles EXCEPT ![x] = req[r].obj]
          /\ role_screens' =
                role_screens \cup PermissionRows(x, req[r].ask, replacements + 1)
          /\ since' = [since EXCEPT ![x] = req[r].began]
  BY DEF CommitCreate
<1> DEFINE mine == PermissionRows(x, req[r].ask, replacements + 1)
<1>2. /\ Finish(r) /\ replacements' = replacements + 1
      /\ UNCHANGED <<screens, platform_admins, platform_admin_roles>>
  BY DEF CommitCreate, directory
<1>3. /\ HoldsSuper(req[r], roles) /\ HoldsRole(req[r], screens, role_screens, replacements)
      /\ req[r].pc = "inserting" /\ req[r] \in RequestType
  BY RequestHolds DEF CommitCreate, Holds
<1>4. /\ req[r].obj \in Role /\ req[r].ask \in Asks
      /\ \A p \in req[r].ask : screens[p[1]] # NULL
      /\ req[r].began \in Nat /\ req[r].began <= replacements + 1
      /\ \E y \in Roles : IsSuper(roles, y)
  BY <1>3 DEF HoldsSuper, HoldsRole, RequestType
<1>5. ~IsSuper(roles, x) /\ req[r].obj.name # SUPER_ADMIN_ROLE_NAME
  BY <1>1, <1>4, NotAnotherSuper DEF IsSuper
<1>6. /\ roles' \in [Roles -> Role \cup {NULL}]
      /\ \A y \in Roles : IsSuper(roles', y) <=> IsSuper(roles, y)
      /\ \A y \in Roles : roles[y] # NULL => roles'[y] # NULL
      /\ CatalogInv'
  BY <1>1, <1>2, <1>4, <1>5, RoleWritten
<1>7. replacements \in Nat /\ replacements + 1 \in Nat /\ replacements <= replacements + 1
  BY DEF Inv, TablesOK
<1>8. /\ mine \subseteq RoleScreen
      /\ \A row \in mine : /\ row.role = x /\ row.by = replacements + 1
                           /\ \E p \in req[r].ask : row.code = p[1]
      /\ \A row, other \in mine : row.code = other.code => row = other
  BY <1>4, <1>7, PermissionRowsOK
<1> HIDE DEF mine
<1>9. role_screens' = role_screens \cup mine
  BY <1>1 DEF mine
<1>10. \A row \in mine : screens[row.code] # NULL /\ roles'[row.role] # NULL
  BY <1>1, <1>4, <1>8, CatalogAssumption DEF Inv, TablesOK
<1>11. \A row \in role_screens : row.role # x /\ row.role \in Roles
  BY <1>1 DEF Inv, TablesOK, RoleScreen
<1>12. TablesOK'
  BY <1>1, <1>2, <1>4, <1>6, <1>7, <1>8, <1>9, <1>10, <1>11 DEF Inv, TablesOK
<1>13. LedgerInv'
  <2>1. \A row \in role_screens' : row.by >= since'[row.role]
    BY <1>1, <1>4, <1>7, <1>8, <1>9, <1>11 DEF Inv, TablesOK, LedgerInv, NoStrayPermission
  <2>2. \A row, other \in role_screens' :
            row.role = other.role /\ row.code = other.code => row = other
    BY <1>8, <1>9, <1>11 DEF Inv, LedgerInv, NoStrayPermission
  <2>3. \A y \in Roles : since'[y] <= replacements' + 1
    BY <1>1, <1>2, <1>4, <1>7 DEF Inv, TablesOK, LedgerInv
  <2>4. \A y \in Roles : roles'[y] = NULL \/ IsSuper(roles', y) => since'[y] = 0
    <3>1. roles'[x] # NULL
      BY <1>1, <1>4, CatalogAssumption DEF Inv, TablesOK
    <3> QED
      BY <1>1, <1>5, <1>6, <3>1 DEF Inv, TablesOK, LedgerInv
  <2> QED
    BY <2>1, <2>2, <2>3, <2>4 DEF LedgerInv, NoStrayPermission
<1>14. \A row \in role_screens' : row \in role_screens \/ row.by >= replacements + 1
  BY <1>7, <1>8, <1>9
<1>15. Grows(roles, screens, role_screens, platform_admins, replacements,
             roles', screens', role_screens', platform_admins', replacements')
  BY <1>2, <1>6, <1>7, <1>14 DEF Grows
<1> QED
  BY <1>2, <1>6, <1>12, <1>13, <1>15, CommitInv DEF SuperStays

LEMMA CommitReplacementInv ==
    ASSUME Inv, NEW r \in Requests, CommitReplacement(r)
    PROVE  Inv' /\ SuperStays
<1> DEFINE x == req[r].role
<1> DEFINE kept == role_screens \ req[r].seen
<1> DEFINE mine == PermissionRows(x, req[r].ask, replacements + 1)
<1> DEFINE row == Updated(roles[x], req[r].was, req[r].obj)
<1>1. /\ HoldsSuper(req[r], roles) /\ HoldsRole(req[r], screens, role_screens, replacements)
      /\ req[r].pc = "inserting" /\ req[r].op = "update" /\ req[r] \in RequestType
  BY RequestHolds DEF CommitReplacement, Holds
<1>2. /\ x \in Roles /\ roles[x] # NULL /\ req[r].was \in Role /\ req[r].obj \in Role
      /\ req[r].obj.name \in {req[r].was.name} \cup (Names \ {SUPER_ADMIN_ROLE_NAME})
      /\ \E y \in Roles : IsSuper(roles, y)
      /\ IsSuper(roles, x) => req[r].ask = NULL
  BY <1>1 DEF HoldsSuper
<1>3. /\ req[r].ask \in Asks
      /\ \A p \in req[r].ask : screens[p[1]] # NULL
      /\ req[r].began \in Nat /\ req[r].began <= replacements + 1
      /\ \A old \in req[r].seen : old.role = x
      /\ \A old \in role_screens : old.role = x => old \in req[r].seen \/ old.by >= req[r].began
  BY <1>1 DEF HoldsRole, RequestType
<1>4. ~IsSuper(roles, x)
  BY <1>2, <1>3, CatalogAssumption
<1>5. roles[x] \in Role /\ roles \in [Roles -> Role \cup {NULL}]
  BY <1>2 DEF Inv, TablesOK
<1>6. row \in Role /\ row # NULL
  BY <1>2, <1>5, CatalogAssumption DEF Updated, Column, Role
<1>7. row.name # SUPER_ADMIN_ROLE_NAME
  BY <1>2, <1>4 DEF Updated, Column, IsSuper
<1>8. /\ Finish(r) /\ replacements' = replacements + 1
      /\ UNCHANGED <<screens, platform_admins, platform_admin_roles>>
      /\ roles' = [roles EXCEPT ![x] = row]
      /\ role_screens' = kept \cup mine
      /\ since' = [since EXCEPT ![x] = req[r].began]
      /\ \A old \in kept, new \in mine : old.role = x => old.code # new.code
  BY DEF CommitReplacement, Deleted, directory
<1>9. replacements \in Nat /\ replacements + 1 \in Nat /\ replacements <= replacements + 1
  BY DEF Inv, TablesOK
<1>10. /\ mine \subseteq RoleScreen
       /\ \A new \in mine : /\ new.role = x /\ new.by = replacements + 1
                            /\ \E p \in req[r].ask : new.code = p[1]
       /\ \A new, other \in mine : new.code = other.code => new = other
  BY <1>2, <1>3, <1>9, PermissionRowsOK
<1> HIDE DEF row, mine
<1>11. /\ kept \subseteq role_screens /\ kept \subseteq RoleScreen
       /\ \A old \in kept : old.role = x => old.by >= req[r].began
       /\ \A old \in role_screens : old.role # x => old \in kept
       /\ \A old \in kept : old.role \in Roles /\ roles[old.role] # NULL
  BY <1>3 DEF Inv, TablesOK, RoleScreen
<1> HIDE DEF kept, x
<1>12. \A p \in role_screens : IsSuper(roles, p.role) => p \in role_screens'
  BY <1>4, <1>8, <1>11
<1>13. /\ roles' \in [Roles -> Role \cup {NULL}]
       /\ \A y \in Roles : IsSuper(roles', y) <=> IsSuper(roles, y)
       /\ \A y \in Roles : roles[y] # NULL => roles'[y] # NULL
       /\ CatalogInv'
  BY <1>2, <1>4, <1>6, <1>7, <1>8, <1>12, RoleWritten
<1>14. \A new \in mine : screens[new.code] # NULL /\ roles'[new.role] # NULL
  BY <1>2, <1>3, <1>10, <1>13
<1>15. TablesOK'
  BY <1>2, <1>3, <1>8, <1>9, <1>10, <1>11, <1>13, <1>14 DEF Inv, TablesOK
<1>16. LedgerInv'
  <2>1. \A new \in role_screens' : new.by >= since'[new.role]
    BY <1>2, <1>3, <1>8, <1>9, <1>10, <1>11 DEF Inv, TablesOK, LedgerInv, NoStrayPermission
  <2>2. \A new, other \in role_screens' :
            new.role = other.role /\ new.code = other.code => new = other
    BY <1>8, <1>10, <1>11 DEF Inv, LedgerInv, NoStrayPermission
  <2>3. \A y \in Roles : since'[y] <= replacements' + 1
    BY <1>2, <1>3, <1>8, <1>9 DEF Inv, TablesOK, LedgerInv
  <2>4. \A y \in Roles : roles'[y] = NULL \/ IsSuper(roles', y) => since'[y] = 0
    BY <1>2, <1>4, <1>8, <1>13 DEF Inv, TablesOK, LedgerInv
  <2> QED
    BY <2>1, <2>2, <2>3, <2>4 DEF LedgerInv, NoStrayPermission
<1>17. \A new \in role_screens' : new \in role_screens \/ new.by >= replacements + 1
  BY <1>8, <1>9, <1>10, <1>11
<1>18. Grows(roles, screens, role_screens, platform_admins, replacements,
             roles', screens', role_screens', platform_admins', replacements')
  BY <1>8, <1>9, <1>13, <1>17 DEF Grows
<1> QED
  BY <1>8, <1>13, <1>15, <1>16, <1>18, CommitInv DEF SuperStays

LEMMA SaveScreenInv ==
    ASSUME Inv, NEW r \in Requests, SaveScreen(r)
    PROVE  Inv'
<1> DEFINE c == req[r].code
<1> DEFINE row == UpdatedScreen(screens[c], req[r].was, req[r].obj)
<1>1. /\ Finish(r) /\ screens' = [screens EXCEPT ![c] = row]
      /\ UNCHANGED <<roles, role_screens, platform_admins, platform_admin_roles,
                     replacements, since>>
  BY DEF SaveScreen, directory, ledger
<1>2. /\ HoldsSuper(req[r], roles) /\ HoldsScreen(req[r], screens)
      /\ req[r].pc = "saving screen"
  BY RequestHolds DEF SaveScreen, Holds
<1>3. /\ \E y \in Roles : IsSuper(roles, y)
      /\ c \in Codes /\ screens[c] # NULL /\ req[r].was \in Screen /\ req[r].obj \in Screen
      /\ c \in PROTECTED_SCREEN_CODES => req[r].obj.status = "active"
  BY <1>2 DEF HoldsSuper, HoldsScreen
<1>4. screens \in [Codes -> Screen \cup {NULL}] /\ screens[c] \in Screen
  BY <1>3 DEF Inv, TablesOK
<1>5. row \in Screen /\ row # NULL
  BY <1>3, <1>4, CatalogAssumption DEF UpdatedScreen, Column, Screen
<1>6. screens[c].status = "active" /\ req[r].obj.status = "active" => row.status = "active"
  BY DEF UpdatedScreen, Column
<1> HIDE DEF row, c
<1>7. /\ screens' \in [Codes -> Screen \cup {NULL}]
      /\ \A d \in Codes : screens'[d] # NULL <=> screens[d] # NULL
  BY <1>1, <1>3, <1>4, <1>5
<1>8. ASSUME NEW x \in Roles, IsSuper(roles, x)
      PROVE  Complete(x)'
  <2>1. Complete(x)
    BY <1>8 DEF Inv, CatalogInv
  <2>2. ASSUME NEW p \in SCREENS
        PROVE  screens'[p.code] # NULL /\ screens'[p.code].status = "active"
    <3>1. p.code \in Codes /\ p.code \in PROTECTED_SCREEN_CODES
      BY CatalogAssumption DEF PROTECTED_SCREEN_CODES, Codeset
    <3>2. screens[p.code] # NULL /\ screens[p.code].status = "active"
      BY <2>1 DEF Complete
    <3>3. CASE p.code = c
      BY <1>1, <1>3, <1>4, <1>5, <1>6, <3>1, <3>2, <3>3
    <3>4. CASE p.code # c
      BY <1>1, <1>4, <3>1, <3>2, <3>4
    <3> QED
      BY <3>3, <3>4
  <2>3. roles' = roles /\ role_screens' = role_screens
    BY <1>1
  <2>4. \A d \in Codes : screens'[d] # NULL =>
            \E p \in role_screens' : p.role = x /\ p.code = d
    BY <1>7, <2>1, <2>3 DEF Complete
  <2>5. \A p \in SCREENS : \E q \in role_screens' :
            q.role = x /\ q.code = p.code /\ (p.write => q.write)
    BY <2>1, <2>3 DEF Complete
  <2> QED
    BY <2>1, <2>2, <2>3, <2>4, <2>5 DEF Complete
<1>9. CatalogInv'
  BY <1>1, <1>3, <1>8 DEF Inv, CatalogInv
<1>10. TablesOK'
  BY <1>1, <1>7 DEF Inv, TablesOK, RoleScreen
<1>11. LedgerInv'
  BY <1>1 DEF Inv, LedgerInv, NoStrayPermission, IsSuper
<1>12. replacements \in Nat /\ replacements <= replacements'
  BY <1>1 DEF Inv, TablesOK
<1>13. Grows(roles, screens, role_screens, platform_admins, replacements,
             roles', screens', role_screens', platform_admins', replacements')
  BY <1>1, <1>7, <1>12 DEF Grows
<1> QED
  BY <1>1, <1>9, <1>10, <1>11, <1>13, CommitInv

LEMMA CommitScreenInv ==
    ASSUME Inv, NEW r \in Requests, CommitScreen(r)
    PROVE  Inv'
<1> DEFINE c == req[r].code
<1> DEFINE x == req[r].role
<1> DEFINE new == [role |-> x, code |-> c, write |-> TRUE, by |-> 0]
<1>1. /\ Finish(r) /\ screens[c] = NULL
      /\ screens' = [screens EXCEPT ![c] = req[r].obj]
      /\ role_screens' = role_screens \cup {new}
      /\ UNCHANGED <<roles, platform_admins, platform_admin_roles, replacements, since>>
  BY DEF CommitScreen, directory, ledger
<1>2. /\ HoldsSuper(req[r], roles) /\ HoldsScreen(req[r], screens) /\ req[r].pc = "adding"
  BY RequestHolds DEF CommitScreen, Holds
<1>3. x \in Roles /\ IsSuper(roles, x) /\ c \in Codes /\ req[r].obj \in Screen
  BY <1>2 DEF HoldsSuper, HoldsScreen
<1>4. replacements \in Nat /\ replacements <= replacements'
  BY <1>1 DEF Inv, TablesOK
<1>5. new \in RoleScreen
  BY <1>3 DEF RoleScreen
<1>6. new.role = x /\ new.code = c /\ new.write = TRUE /\ new.by = 0
  OBVIOUS
<1> HIDE DEF new, c, x
<1>7. screens \in [Codes -> Screen \cup {NULL}] /\ req[r].obj # NULL
  BY <1>3, CatalogAssumption DEF Inv, TablesOK
<1>8. /\ screens' \in [Codes -> Screen \cup {NULL}] /\ screens'[c] # NULL
      /\ \A d \in Codes : d # c => screens'[d] = screens[d]
  BY <1>1, <1>3, <1>7
<1>9. \A row \in role_screens : row.code # c /\ row.code \in Codes
  BY <1>1 DEF Inv, TablesOK, RoleScreen
<1>10. TablesOK'
  <2>1. \A row \in role_screens' : roles'[row.role] # NULL /\ screens'[row.code] # NULL
    BY <1>1, <1>3, <1>6, <1>8, <1>9 DEF Inv, TablesOK, IsSuper
  <2> QED
    BY <1>1, <1>5, <1>8, <2>1 DEF Inv, TablesOK
<1>11. ASSUME NEW y \in Roles, IsSuper(roles, y)
       PROVE  Complete(y)'
  <2>1. Complete(y) /\ y = x
    BY <1>3, <1>11 DEF Inv, CatalogInv
  <2>2. ASSUME NEW p \in SCREENS
        PROVE  screens'[p.code] # NULL /\ screens'[p.code].status = "active"
    <3>1. p.code \in Codes
      BY CatalogAssumption
    <3>2. screens[p.code] # NULL /\ screens[p.code].status = "active"
      BY <2>1 DEF Complete
    <3> QED
      BY <1>1, <1>8, <3>1, <3>2
  <2>3. roles' = roles /\ role_screens \subseteq role_screens'
    BY <1>1
  <2>4. \A p \in SCREENS : \E q \in role_screens' :
            q.role = y /\ q.code = p.code /\ (p.write => q.write)
    BY <2>1, <2>3 DEF Complete
  <2>5. ASSUME NEW d \in Codes, screens'[d] # NULL
        PROVE  \E p \in role_screens' : p.role = y /\ p.code = d
    <3>1. CASE d = c
      BY <1>1, <1>6, <2>1, <3>1
    <3>2. CASE d # c
      BY <1>8, <2>1, <2>3, <2>5, <3>2 DEF Complete
    <3> QED
      BY <3>1, <3>2
  <2> QED
    BY <2>1, <2>2, <2>3, <2>4, <2>5 DEF Complete
<1>12. CatalogInv'
  BY <1>1, <1>3, <1>11 DEF Inv, CatalogInv
<1>13. LedgerInv'
  <2>1. since'[x] = 0
    BY <1>1, <1>3 DEF Inv, LedgerInv
  <2>2. \A row \in role_screens' : row.by >= since'[row.role]
    BY <1>1, <1>6, <2>1 DEF Inv, LedgerInv, NoStrayPermission
  <2>3. \A row, other \in role_screens' :
            row.role = other.role /\ row.code = other.code => row = other
    BY <1>1, <1>6, <1>9 DEF Inv, LedgerInv, NoStrayPermission
  <2> QED
    BY <1>1, <2>2, <2>3 DEF Inv, LedgerInv, NoStrayPermission, IsSuper
<1>14. \A row \in role_screens' : row \in role_screens \/ IsSuper(roles', row.role)
  BY <1>1, <1>3, <1>6
<1>15. Grows(roles, screens, role_screens, platform_admins, replacements,
             roles', screens', role_screens', platform_admins', replacements')
  BY <1>1, <1>4, <1>8, <1>14 DEF Grows
<1> QED
  BY <1>1, <1>10, <1>12, <1>13, <1>15, CommitInv

(* Without a super_admin there are no screens, no permissions, no links,   *)
(* and no requests.                                                        *)
LEMMA NoSuper ==
    ASSUME Inv, \A x \in Roles : ~IsSuper(roles, x)
    PROVE  /\ \A c \in Codes : screens[c] = NULL
           /\ role_screens = {} /\ platform_admin_roles = {}
<1>1. \A c \in Codes : screens[c] = NULL
  BY DEF Inv, CatalogInv
<1>2. role_screens = {}
  BY <1>1 DEF Inv, TablesOK, RoleScreen
<1>3. \A link \in platform_admin_roles : link[2] \in Roles /\ IsSuper(roles, link[2])
  BY DEF Inv, TablesOK, CatalogInv
<1> QED
  BY <1>1, <1>2, <1>3

(* A step that leaves the requests alone.                                  *)
LEMMA SeedStepInv ==
    ASSUME Inv, UNCHANGED req, TablesOK', CatalogInv', LedgerInv',
           Grows(roles, screens, role_screens, platform_admins, replacements,
                 roles', screens', role_screens', platform_admins', replacements')
    PROVE  Inv'
<1>1. ASSUME NEW s \in Requests
      PROVE  Holds(req'[s], roles', screens', role_screens', platform_admins', replacements')
  <2>1. /\ req[s] \in RequestType
        /\ Holds(req[s], roles, screens, role_screens, platform_admins, replacements)
    BY RequestHolds
  <2>2. replacements \in Nat /\ replacements' \in Nat /\ role_screens' \subseteq RoleScreen
    BY DEF Inv, TablesOK
  <2> QED
    BY <2>1, <2>2, HoldsGrows
<1> QED
  BY <1>1 DEF Inv, WorkInv

LEMMA SeedInv ==
    ASSUME Inv, NEW admins \in SUBSET Admins, Seed(admins)
    PROVE  Inv'
<1> DEFINE Row(x, p) == [role |-> x, code |-> p.code, write |-> p.write, by |-> 0]
<1> DEFINE First == [name |-> SUPER_ADMIN_ROLE_NAME, status |-> "active"]
<1>1. PICK x \in Roles :
          /\ \/ Named(x, SUPER_ADMIN_ROLE_NAME) /\ UNCHANGED roles
             \/ /\ roles[x] = NULL
                /\ UniqueName(x, SUPER_ADMIN_ROLE_NAME)
                /\ roles' = [roles EXCEPT ![x] = First]
          /\ role_screens' = role_screens \cup {Row(x, p) : p \in Gaps(x)}
          /\ platform_admin_roles' = platform_admin_roles \cup (admins \X {x})
  BY DEF Seed
<1>2. /\ screens' = [c \in Codes |-> IF c \in PROTECTED_SCREEN_CODES /\ screens[c] = NULL
                                     THEN [status |-> "active"] ELSE screens[c]]
      /\ platform_admins' = platform_admins \cup admins
      /\ UNCHANGED <<req, replacements, since>>
  BY DEF Seed, ledger
<1>3. replacements \in Nat /\ replacements <= replacements'
  BY <1>2 DEF Inv, TablesOK
<1>4. /\ First \in Role /\ First # NULL /\ First.name = SUPER_ADMIN_ROLE_NAME
      /\ First.status = "active"
  BY CatalogAssumption DEF Role, Status
<1>5. [status |-> "active"] \in Screen /\ [status |-> "active"] # NULL
  BY CatalogAssumption DEF Screen, Status
<1>6. /\ screens' \in [Codes -> Screen \cup {NULL}]
      /\ \A c \in Codes : screens[c] # NULL => screens'[c] = screens[c]
  BY <1>2, <1>5 DEF Inv, TablesOK
<1>7. \A p \in SCREENS : /\ Row(x, p) \in RoleScreen /\ p.code \in Codes
                         /\ p.code \in PROTECTED_SCREEN_CODES
  BY <1>3, CatalogAssumption DEF RoleScreen, PROTECTED_SCREEN_CODES, Codeset
<1>8. \A p : /\ Row(x, p).role = x /\ Row(x, p).code = p.code
             /\ Row(x, p).write = p.write /\ Row(x, p).by = 0
  OBVIOUS
<1> HIDE DEF Row, First
<1>9. CASE Named(x, SUPER_ADMIN_ROLE_NAME) /\ UNCHANGED roles
  <2>1. IsSuper(roles, x) /\ Complete(x)
    BY <1>9 DEF Named, IsSuper, Inv, CatalogInv
  <2>2. Gaps(x) = {}
    BY <2>1 DEF Gaps, RowsOf, Complete
  <2>3. role_screens' = role_screens
    BY <1>1, <2>2
  <2>4. \A c \in PROTECTED_SCREEN_CODES : screens[c] # NULL
    BY <2>1 DEF Complete, PROTECTED_SCREEN_CODES, Codeset
  <2>5. screens' = screens
    BY <1>2, <2>4 DEF Inv, TablesOK
  <2>6. TablesOK'
    BY <1>1, <1>2, <1>9, <2>3, <2>5 DEF Inv, TablesOK
  <2>7. CatalogInv'
    BY <1>1, <1>9, <2>1, <2>3, <2>5 DEF Inv, CatalogInv, Complete, IsSuper
  <2>8. LedgerInv'
    BY <1>2, <1>9, <2>3 DEF Inv, LedgerInv, NoStrayPermission, IsSuper
  <2>9. Grows(roles, screens, role_screens, platform_admins, replacements,
              roles', screens', role_screens', platform_admins', replacements')
    BY <1>2, <1>3, <1>9, <2>3, <2>5 DEF Grows
  <2> QED
    BY <1>2, <2>6, <2>7, <2>8, <2>9, SeedStepInv
<1>10. CASE /\ roles[x] = NULL
            /\ UniqueName(x, SUPER_ADMIN_ROLE_NAME)
            /\ roles' = [roles EXCEPT ![x] = First]
  <2>1. \A y \in Roles : ~IsSuper(roles, y)
    BY <1>10 DEF UniqueName, Named, IsSuper
  <2>2. /\ \A c \in Codes : screens[c] = NULL
        /\ role_screens = {} /\ platform_admin_roles = {}
    BY <2>1, NoSuper
  <2>3. Gaps(x) = SCREENS
    BY <2>2 DEF Gaps, RowsOf
  <2>4. role_screens' = {Row(x, p) : p \in SCREENS}
    BY <1>1, <2>2, <2>3
  <2>5. platform_admin_roles' = admins \X {x}
    BY <1>1, <2>2
  <2>6. \A c \in Codes : /\ c \in PROTECTED_SCREEN_CODES => screens'[c] = [status |-> "active"]
                         /\ c \notin PROTECTED_SCREEN_CODES => screens'[c] = NULL
    BY <1>2, <2>2
  <2>7. /\ roles' \in [Roles -> Role \cup {NULL}] /\ roles'[x] = First
        /\ \A y \in Roles : y # x => roles'[y] = roles[y]
    BY <1>4, <1>10 DEF Inv, TablesOK
  <2>8. \A y \in Roles : IsSuper(roles', y) <=> y = x
    BY <1>4, <2>1, <2>7 DEF IsSuper
  <2>9. TablesOK'
    <3>1. role_screens' \subseteq RoleScreen
      BY <1>7, <2>4
    <3>2. \A row \in role_screens' : roles'[row.role] # NULL /\ screens'[row.code] # NULL
      BY <1>4, <1>5, <1>7, <1>8, <2>4, <2>6, <2>7
    <3>3. /\ platform_admins' \subseteq Admins
          /\ platform_admin_roles' \subseteq platform_admins' \X Roles
      BY <1>2, <2>5 DEF Inv, TablesOK
    <3> QED
      BY <1>2, <1>6, <2>7, <3>1, <3>2, <3>3 DEF Inv, TablesOK
  <2>10. Complete(x)'
    <3>1. \A p \in SCREENS :
              /\ screens'[p.code] # NULL /\ screens'[p.code].status = "active"
              /\ \E row \in role_screens' :
                    row.role = x /\ row.code = p.code /\ (p.write => row.write)
      BY <1>5, <1>7, <1>8, <2>4, <2>6
    <3>2. ASSUME NEW c \in Codes, screens'[c] # NULL
          PROVE  \E row \in role_screens' : row.role = x /\ row.code = c
      <4>1. PICK p \in SCREENS : p.code = c
        BY <2>6, <3>2 DEF PROTECTED_SCREEN_CODES, Codeset
      <4> QED
        BY <1>8, <2>4, <4>1
    <3> QED
      BY <1>4, <2>7, <3>1, <3>2 DEF Complete
  <2>11. CatalogInv'
    <3>1. \A link \in platform_admin_roles' : link[2] = x
      BY <2>5
    <3> QED
      BY <2>8, <2>10, <3>1 DEF CatalogInv
  <2>12. LedgerInv'
    <3>1. since[x] = 0
      BY <1>10 DEF Inv, LedgerInv
    <3>2. \A row \in role_screens' : row.by >= since'[row.role]
      BY <1>2, <1>8, <2>4, <3>1
    <3>3. \A row, other \in role_screens' :
              row.role = other.role /\ row.code = other.code => row = other
      BY <1>8, <2>4, CatalogAssumption
    <3>4. \A y \in Roles : roles'[y] = NULL \/ IsSuper(roles', y) => since'[y] = 0
      BY <1>2, <2>7, <2>8, <3>1 DEF Inv, LedgerInv
    <3> QED
      BY <1>2, <3>2, <3>3, <3>4 DEF Inv, LedgerInv, NoStrayPermission
  <2>13. \A row \in role_screens' : IsSuper(roles', row.role)
    BY <1>8, <2>4, <2>8
  <2>14. Grows(roles, screens, role_screens, platform_admins, replacements,
               roles', screens', role_screens', platform_admins', replacements')
    BY <1>2, <1>3, <1>10, <2>1, <2>2, <2>7, <2>8, <2>13 DEF Grows
  <2> QED
    BY <1>2, <2>9, <2>11, <2>12, <2>14, SeedStepInv
<1> QED
  BY <1>1, <1>9, <1>10

-----------------------------------------------------------------------------
LEMMA InitInv == Init => Inv
<1> SUFFICES ASSUME Init PROVE Inv
  OBVIOUS
<1>1. TablesOK /\ CatalogInv /\ LedgerInv
  BY CatalogAssumption DEF Init, TablesOK, CatalogInv, IsSuper, LedgerInv, NoStrayPermission
<1>2. \A r \in Requests : req[r] = Idle
  BY DEF Init
<1>3. req \in [Requests -> RequestType]
  BY IdleHolds DEF Init
<1>4. WorkInv
  BY <1>2, IdleHolds DEF WorkInv
<1> QED
  BY <1>1, <1>3, <1>4 DEF Inv

LEMMA NextInv == Inv /\ [Next]_vars => Inv'
<1> SUFFICES ASSUME Inv, [Next]_vars PROVE Inv'
  OBVIOUS
<1>1. ASSUME NEW r \in Requests, RoleStep(r)  PROVE Inv'
  BY <1>1, StartCreateRoleInv, StartUpdateRoleInv, StartDeleteRoleInv,
     EnsureNameAvailableInv, ValidateScreenCodesInv, CommitCreateInv, SaveRoleInv,
     FlushRoleInv, BeginDeleteInv, FinishDeleteInv, CommitReplacementInv DEF RoleStep
<1>2. ASSUME NEW r \in Requests, ScreenStep(r)  PROVE Inv'
  BY <1>2, StartCreateScreenInv, NextScreenCodeInv, EnsureCodeAvailableInv,
     GetSuperAdminInv, CommitScreenInv, StartUpdateScreenInv, SaveScreenInv DEF ScreenStep
<1>3. ASSUME NEW r \in Requests, UserStep(r)  PROVE Inv'
  BY <1>3, StartCreateUserInv, CommitUserInv, AssignSuperAdminInv, CommitLinkInv
     DEF UserStep
<1>4. ASSUME NEW r \in Requests, Fail(r)  PROVE Inv'
  BY <1>4, FailInv
<1>5. CASE SeedStep
  <2>1. platform_admins \in SUBSET Admins
    BY DEF Inv, TablesOK
  <2> QED
    BY <1>5, <2>1, SeedInv DEF SeedStep, SeedAdmin, SeedRbac
<1>6. CASE UNCHANGED vars
  <2>1. UNCHANGED tables /\ UNCHANGED req
    BY <1>6 DEF vars, tables
  <2> QED
    BY <2>1, TablesUnchanged, SeedStepInv
<1> QED
  BY <1>1, <1>2, <1>3, <1>4, <1>5, <1>6 DEF Next

LEMMA Invariant == Spec => []Inv
  BY InitInv, NextInv, PTL DEF Spec

(* TypeCorrect: in every reachable state the tables and the requests have  *)
(* their types, and every row of role_screens is for a role and a screen   *)
(* that exist.                                                             *)
THEOREM TypeCorrect == Spec => []TypeOK
<1>1. Inv => TypeOK
  BY DEF Inv, TablesOK, TypeOK
<1> QED
  BY <1>1, Invariant, PTL

(* SuperAdminAlwaysHasAccess: whatever requests and seeding scripts        *)
(* interleave, an admin who has super_admin has every permission that a    *)
(* route may require.                                                      *)
THEOREM SuperAdminAlwaysHasAccess == Spec => []SuperAdminKeepsAccess
<1>1. ASSUME Inv, NEW link \in platform_admin_roles
      PROVE  PermissionName \subseteq permissions_for_admin(link[1])
  <2> DEFINE a == link[1]
  <2> DEFINE x == link[2]
  <2>1. link = <<a, x>> /\ x \in Roles
    BY <1>1 DEF Inv, TablesOK
  <2>2. Complete(x)
    BY <1>1, <2>1 DEF Inv, CatalogInv
  <2> HIDE DEF a, x
  <2>3. ASSUME NEW p \in SCREENS
        PROVE  \E row \in screen_permissions_for_admin(a) :
                  row.code = p.code /\ (p.write => row.write)
    <3>1. PICK row \in role_screens :
              row.role = x /\ row.code = p.code /\ (p.write => row.write)
      BY <2>2 DEF Complete
    <3>2. row \in screen_permissions_for_admin(a)
      BY <1>1, <2>1, <2>2, <3>1 DEF Complete, screen_permissions_for_admin
    <3> QED
      BY <3>1, <3>2
  <2>4. Expand(SCREENS) \subseteq Expand(screen_permissions_for_admin(a))
    <3>1. ASSUME NEW p \in SCREENS
          PROVE  <<p.code, "R">> \in Expand(screen_permissions_for_admin(a))
      BY <2>3 DEF Expand
    <3>2. ASSUME NEW p \in SCREENS, p.write
          PROVE  <<p.code, "W">> \in Expand(screen_permissions_for_admin(a))
      BY <2>3, <3>2 DEF Expand
    <3> QED
      BY <3>1, <3>2 DEF Expand
  <2> QED
    BY <2>4 DEF PermissionName, permissions_for_admin, a
<1>2. Inv => SuperAdminKeepsAccess
  BY <1>1 DEF SuperAdminKeepsAccess
<1> QED
  BY <1>2, Invariant, PTL

(* EveryScreenIsSuperAdmins: no screen is ever without a permission of     *)
(* super_admin.                                                            *)
THEOREM EveryScreenIsSuperAdmins == Spec => []SuperAdminSeesEveryScreen
<1>1. Inv => SuperAdminSeesEveryScreen
  BY DEF Inv, CatalogInv, Complete, IsSuper, Named, SuperAdminSeesEveryScreen
<1> QED
  BY <1>1, Invariant, PTL

(* ReplacementsReplace: what a role permits comes from the replacement in  *)
(* force or from one that committed while it was under way, and from one   *)
(* of them for each screen.                                                *)
THEOREM ReplacementsReplace == Spec => []NoStrayPermission
<1>1. Inv => NoStrayPermission
  BY DEF Inv, LedgerInv
<1> QED
  BY <1>1, Invariant, PTL
-----------------------------------------------------------------------------
(* Replacements that do not overlap.                                       *)

(* Between the snapshot of its DELETE and its commit.                      *)
Replacing(r) == req[r].op = "update" /\ req[r].pc \in {"deleting", "inserting"}

(* No two requests are replacing the permissions of one role.              *)
ReplacementsApart ==
    \A q, r \in Requests :
        Replacing(q) /\ Replacing(r) /\ req[q].role = req[r].role => q = r

Ordinary(x) == roles[x] # NULL /\ ~IsSuper(roles, x)

(* "Replace permissions" (role_repository.py:66) taken at its word: what a *)
(* role other than super_admin permits is one of the lists that clients    *)
(* have sent, all of it and nothing else.                                  *)
ListedAsAsked ==
    \A x \in Roles : Ordinary(x) =>
        \E ask \in Asks, n \in Nat : RowsOf(x) = PermissionRows(x, ask, n)

RowsIn(rs, x) == {row \in rs : row.role = x}

(* The DELETE has seen all the rows that there are when it commits.        *)
SeenAll ==
    \A r \in Requests : Replacing(r) => req[r].seen = RowsIn(role_screens, req[r].role)

LEMMA ReplacesOrdinary ==
    ASSUME Inv, NEW r \in Requests, Replacing(r)
    PROVE  req[r].role \in Roles /\ Ordinary(req[r].role) /\ req[r].ask \in Asks
<1>1. HoldsSuper(req[r], roles) /\ HoldsRole(req[r], screens, role_screens, replacements)
  BY RequestHolds DEF Holds
<1>2. /\ req[r].op = "update" /\ req[r].pc \in {"deleting", "inserting"}
      /\ req[r].pc # "idle"
  BY DEF Replacing
<1>3. req[r].ask \in Asks /\ req[r].ask # NULL
  BY <1>1, <1>2, CatalogAssumption DEF HoldsRole
<1>4. req[r].role \in Roles /\ roles[req[r].role] # NULL
  BY <1>1, <1>2 DEF HoldsSuper
<1> QED
  BY <1>1, <1>2, <1>3, <1>4 DEF HoldsSuper, Ordinary

(* A request that replaces after the step.                                 *)
ReplacingNext(s) == req'[s].op = "update" /\ req'[s].pc \in {"deleting", "inserting"}

OrdinaryNext(x) == roles'[x] # NULL /\ ~IsSuper(roles', x)

SameRows(x) == RowsIn(role_screens', x) = RowsIn(role_screens, x)

(* What every step does to the list of a role and to a DELETE under way.   *)
LEMMA ListsStep ==
    ASSUME Inv, ListedAsAsked, SeenAll,
           \A x \in Roles : OrdinaryNext(x) =>
                \/ Ordinary(x) /\ SameRows(x)
                \/ \E ask \in Asks, n \in Nat :
                        RowsIn(role_screens', x) = PermissionRows(x, ask, n),
           \A s \in Requests : ReplacingNext(s) =>
                \/ /\ Replacing(s) /\ SameRows(req[s].role)
                   /\ req'[s].role = req[s].role /\ req'[s].seen = req[s].seen
                \/ req'[s].seen = RowsIn(role_screens', req'[s].role)
    PROVE  ListedAsAsked' /\ SeenAll'
<1>1. ASSUME NEW x \in Roles, OrdinaryNext(x)
      PROVE  \E ask \in Asks, n \in Nat : RowsIn(role_screens', x) = PermissionRows(x, ask, n)
  BY <1>1 DEF ListedAsAsked, RowsOf, RowsIn, SameRows
<1>2. ListedAsAsked'
  BY <1>1 DEF ListedAsAsked, Ordinary, OrdinaryNext, RowsOf, RowsIn, PermissionRows
<1>3. ASSUME NEW s \in Requests, ReplacingNext(s)
      PROVE  req'[s].seen = RowsIn(role_screens', req'[s].role)
  BY <1>3 DEF SeenAll, SameRows
<1>4. SeenAll'
  BY <1>3 DEF SeenAll, Replacing, ReplacingNext, RowsIn
<1> QED
  BY <1>2, <1>4

(* A step of one request after which the ordinary roles permit what they   *)
(* did.                                                                    *)
LEMMA ListsKept ==
    ASSUME Inv, ListedAsAsked, SeenAll, NEW r \in Requests,
           \A s \in Requests : s # r => req'[s] = req[s],
           \A x \in Roles : OrdinaryNext(x) => Ordinary(x),
           \A x \in Roles : Ordinary(x) => SameRows(x),
           ReplacingNext(r) =>
                \/ Replacing(r) /\ req'[r].role = req[r].role /\ req'[r].seen = req[r].seen
                \/ req'[r].seen = RowsIn(role_screens', req'[r].role)
    PROVE  ListedAsAsked' /\ SeenAll'
<1>1. \A s \in Requests : Replacing(s) => SameRows(req[s].role)
  BY ReplacesOrdinary
<1>2. \A s \in Requests : s # r /\ ReplacingNext(s) => Replacing(s)
  BY DEF Replacing, ReplacingNext
<1> QED
  BY <1>1, <1>2, ListsStep

(* A read, or a commit of something else.                                  *)
LEMMA ListsRead ==
    ASSUME Inv, ListedAsAsked, SeenAll, NEW r \in Requests,
           \A s \in Requests : s # r => req'[s] = req[s],
           UNCHANGED <<roles, role_screens>>,
           ReplacingNext(r) =>
                \/ Replacing(r) /\ req'[r].role = req[r].role /\ req'[r].seen = req[r].seen
                \/ req'[r].seen = RowsIn(role_screens', req'[r].role)
    PROVE  ListedAsAsked' /\ SeenAll'
<1>1. /\ \A x \in Roles : OrdinaryNext(x) => Ordinary(x)
      /\ \A x \in Roles : SameRows(x)
  BY DEF Ordinary, OrdinaryNext, SameRows
<1> QED
  BY <1>1, ListsKept

LEMMA OthersAside ==
    ASSUME Inv, NEW r \in Requests, RoleStep(r) \/ ScreenStep(r) \/ UserStep(r) \/ Fail(r)
    PROVE  \A s \in Requests : s # r => req'[s] = req[s]
<1>1. req \in [Requests -> RequestType]
  BY DEF Inv
<1>2. CASE RoleStep(r)
  BY <1>1, <1>2 DEF RoleStep, StartCreateRole, StartUpdateRole, StartDeleteRole,
     EnsureNameAvailable, ValidateScreenCodes, CommitCreate, SaveRole, FlushRole, BeginDelete,
     FinishDelete, CommitReplacement, Goto, Finish
<1>3. CASE ScreenStep(r)
  BY <1>1, <1>3 DEF ScreenStep, StartCreateScreen, NextScreenCode, EnsureCodeAvailable,
     GetSuperAdmin, CommitScreen, StartUpdateScreen, SaveScreen, Goto, Finish
<1>4. CASE UserStep(r) \/ Fail(r)
  BY <1>1, <1>4 DEF UserStep, StartCreateUser, CommitUser, AssignSuperAdmin, CommitLink,
     Fail, Goto, Finish
<1> QED
  BY <1>2, <1>3, <1>4

LEMMA EndedAside ==
    ASSUME Inv, NEW r \in Requests, Finish(r)
    PROVE  ~ReplacingNext(r)
BY DEF Inv, Finish, Idle, ReplacingNext

(* The steps that neither replace permissions nor write roles' rows.       *)
LEMMA AsideLists ==
    ASSUME Inv, ListedAsAsked, SeenAll, NEW r \in Requests,
           \/ \E name \in Names, status \in Status, ask \in Asks :
                  StartCreateRole(r, name, status, ask)
           \/ \E x \in Roles, name \in Names \cup {NULL}, status \in Status \cup {NULL},
                 ask \in Asks \cup {NULL} : StartUpdateRole(r, x, name, status, ask)
           \/ \E x \in Roles : StartDeleteRole(r, x)
           \/ EnsureNameAvailable(r) \/ ValidateScreenCodes(r) \/ FlushRole(r)
    PROVE  ListedAsAsked' /\ SeenAll'
<1>1. RoleStep(r) /\ UNCHANGED <<roles, role_screens>>
  BY DEF RoleStep, StartCreateRole, StartUpdateRole, StartDeleteRole, EnsureNameAvailable,
     ValidateScreenCodes, FlushRole
<1>2. req \in [Requests -> RequestType] /\ req[r] \in RequestType
  BY DEF Inv
<1>3. ~ReplacingNext(r)
  <2>1. CASE \E name \in Names, status \in Status, ask \in Asks :
                StartCreateRole(r, name, status, ask)
    BY <1>2, <2>1 DEF StartCreateRole, Idle, ReplacingNext
  <2>2. CASE \E x \in Roles, name \in Names \cup {NULL}, status \in Status \cup {NULL},
               ask \in Asks \cup {NULL} : StartUpdateRole(r, x, name, status, ask)
    <3>1. PICK x \in Roles, name \in Names \cup {NULL}, status \in Status \cup {NULL},
               ask \in Asks \cup {NULL} : StartUpdateRole(r, x, name, status, ask)
      BY <2>2
    <3> DEFINE pc == IF name # NULL THEN "naming"
                     ELSE IF ask # NULL THEN "validating" ELSE "saving"
               obj == [name |-> Given(name, roles[x].name),
                       status |-> Given(status, roles[x].status)]
    <3>2. req' = [req EXCEPT ![r] = [Idle EXCEPT !.op = "update", !.pc = pc, !.role = x,
                                                 !.was = roles[x], !.obj = obj, !.ask = ask]]
      BY <3>1 DEF StartUpdateRole
    <3>3. pc \in {"naming", "validating", "saving"}
      OBVIOUS
    <3> HIDE DEF pc, obj
    <3>4. req'[r].pc = pc
      BY <1>2, <3>2 DEF Idle
    <3> QED
      BY <3>3, <3>4 DEF ReplacingNext
  <2>3. CASE \E x \in Roles : StartDeleteRole(r, x)
    BY <1>2, <2>3 DEF StartDeleteRole, Idle, ReplacingNext
  <2>4. CASE EnsureNameAvailable(r)
    BY <1>2, <2>4 DEF EnsureNameAvailable, Goto, ReplacingNext, RequestType
  <2>5. CASE ValidateScreenCodes(r)
    <3>1. req' = [req EXCEPT ![r].pc = IF req[r].op = "create"
                                       THEN "inserting" ELSE "replacing",
                             ![r].began = replacements + 1]
      BY <2>5 DEF ValidateScreenCodes
    <3>2. /\ req'[r].op = req[r].op
          /\ req'[r].pc = IF req[r].op = "create" THEN "inserting" ELSE "replacing"
      BY <1>2, <3>1 DEF RequestType
    <3> QED
      BY <3>2 DEF ReplacingNext
  <2>6. CASE FlushRole(r)
    BY <1>2, <2>6 DEF FlushRole, Goto, ReplacingNext, RequestType
  <2> QED
    BY <2>1, <2>2, <2>3, <2>4, <2>5, <2>6
<1> QED
  BY <1>1, <1>3, OthersAside, ListsRead

LEMMA BeginDeleteLists ==
    ASSUME Inv, ListedAsAsked, SeenAll, NEW r \in Requests, BeginDelete(r)
    PROVE  ListedAsAsked' /\ SeenAll'
<1>1. RoleStep(r) /\ UNCHANGED <<roles, role_screens>>
  BY DEF RoleStep, BeginDelete
<1>2. req \in [Requests -> RequestType] /\ req[r] \in RequestType
  BY DEF Inv
<1>3. req'[r].role = req[r].role /\ req'[r].seen = RowsOf(req[r].role)
  BY <1>2 DEF BeginDelete, RequestType
<1>4. req'[r].seen = RowsIn(role_screens', req'[r].role)
  BY <1>1, <1>3 DEF RowsOf, RowsIn
<1> QED
  BY <1>1, <1>4, OthersAside, ListsRead

LEMMA FinishDeleteLists ==
    ASSUME Inv, ListedAsAsked, SeenAll, NEW r \in Requests, FinishDelete(r)
    PROVE  ListedAsAsked' /\ SeenAll'
<1>1. RoleStep(r) /\ UNCHANGED <<roles, role_screens>> /\ req[r].pc = "deleting"
  BY DEF RoleStep, FinishDelete
<1>2. req \in [Requests -> RequestType] /\ req[r] \in RequestType
  BY DEF Inv
<1>3. req'[r].role = req[r].role /\ req'[r].seen = req[r].seen /\ req'[r].op = req[r].op
  BY <1>2 DEF FinishDelete, Goto, RequestType
<1>4. ReplacingNext(r) => Replacing(r)
  BY <1>1, <1>3 DEF Replacing, ReplacingNext
<1> QED
  BY <1>1, <1>3, <1>4, OthersAside, ListsRead

LEMMA SaveRoleLists ==
    ASSUME Inv, ListedAsAsked, SeenAll, NEW r \in Requests, SaveRole(r)
    PROVE  ListedAsAsked' /\ SeenAll'
<1>1. RoleStep(r) /\ Finish(r) /\ UNCHANGED role_screens
  BY DEF RoleStep, SaveRole
<1>2. SuperStays
  BY SaveRoleInv
<1>3. ASSUME NEW x \in Roles, OrdinaryNext(x) PROVE Ordinary(x)
  <2>1. roles[x] # NULL
    <3>1. CASE x = req[r].role
      BY <3>1, RequestHolds DEF SaveRole, Holds, HoldsRole, HoldsSuper
    <3>2. CASE x # req[r].role
      BY <1>3, <3>2 DEF SaveRole, OrdinaryNext, Inv, TablesOK
    <3> QED
      BY <3>1, <3>2
  <2> QED
    BY <1>2, <1>3, <2>1 DEF SuperStays, Ordinary, OrdinaryNext
<1>4. \A x \in Roles : SameRows(x)
  BY <1>1 DEF SameRows
<1> QED
  BY <1>1, <1>3, <1>4, EndedAside, OthersAside, ListsKept

LEMMA CommitCreateLists ==
    ASSUME Inv, ListedAsAsked, SeenAll, NEW r \in Requests, CommitCreate(r)
    PROVE  ListedAsAsked' /\ SeenAll'
<1> DEFINE mine(x) == PermissionRows(x, req[r].ask, replacements + 1)
<1>1. PICK x \in Roles :
        /\ roles[x] = NULL
        /\ roles' = [roles EXCEPT ![x] = req[r].obj]
        /\ role_screens' = role_screens \cup mine(x)
  BY DEF CommitCreate
<1>2. RoleStep(r) /\ Finish(r) /\ SuperStays
  BY CommitCreateInv DEF RoleStep, CommitCreate
<1>3. req[r].ask \in Asks /\ replacements + 1 \in Nat
  BY RequestHolds DEF CommitCreate, Holds, HoldsRole, Inv, TablesOK
<1>4. \A row \in mine(x) : row.role = x
  BY <1>3, PermissionRowsOK
<1> HIDE DEF mine
<1>5. \A row \in role_screens : row.role # x
  BY <1>1 DEF Inv, TablesOK
<1>6. RowsIn(role_screens', x) = mine(x)
  BY <1>1, <1>4, <1>5 DEF RowsIn
<1>7. \A y \in Roles : y # x => SameRows(y)
  BY <1>1, <1>4 DEF SameRows, RowsIn
<1>8. \A y \in Roles : OrdinaryNext(y) /\ y # x => Ordinary(y)
  BY <1>1, <1>2 DEF SuperStays, Ordinary, OrdinaryNext, Inv, TablesOK
<1>9. \A y \in Roles : OrdinaryNext(y) =>
        \/ Ordinary(y) /\ SameRows(y)
        \/ \E ask \in Asks, n \in Nat : RowsIn(role_screens', y) = PermissionRows(y, ask, n)
  BY <1>3, <1>6, <1>7, <1>8 DEF mine
<1>10. \A s \in Requests : ReplacingNext(s) => s # r /\ req'[s] = req[s] /\ Replacing(s)
  BY <1>2, EndedAside, OthersAside DEF Replacing, ReplacingNext
<1>11. \A s \in Requests : Replacing(s) => SameRows(req[s].role)
  BY <1>1, <1>7, ReplacesOrdinary DEF Ordinary
<1> QED
  BY <1>9, <1>10, <1>11, ListsStep

(* The rows of the role are those of the request, and nobody else is       *)
(* replacing them.                                                         *)
LEMMA CommitReplacementLists ==
    ASSUME ReplacementsApart, Inv, ListedAsAsked, SeenAll, NEW r \in Requests,
           CommitReplacement(r)
    PROVE  ListedAsAsked' /\ SeenAll'
<1> DEFINE x == req[r].role
           mine == PermissionRows(x, req[r].ask, replacements + 1)
<1>1. /\ RoleStep(r) /\ Finish(r) /\ SuperStays /\ Replacing(r)
      /\ role_screens' = (role_screens \ req[r].seen) \cup mine
      /\ roles' = [roles EXCEPT ![x] = Updated(@, req[r].was, req[r].obj)]
  BY CommitReplacementInv DEF RoleStep, CommitReplacement, Deleted, Replacing
<1>2. /\ req[r].ask \in Asks /\ replacements + 1 \in Nat /\ x \in Roles /\ Ordinary(x)
      /\ req[r].seen = RowsIn(role_screens, x)
  BY <1>1, ReplacesOrdinary DEF SeenAll, Inv, TablesOK
<1>3. \A row \in mine : row.role = x
  BY <1>2, PermissionRowsOK
<1> HIDE DEF mine
<1>4. RowsIn(role_screens', x) = mine
  BY <1>1, <1>2, <1>3 DEF RowsIn
<1>5. \A y \in Roles : y # x => SameRows(y)
  BY <1>1, <1>2, <1>3 DEF SameRows, RowsIn
<1>6. \A y \in Roles : OrdinaryNext(y) /\ y # x => Ordinary(y)
  BY <1>1 DEF SuperStays, Ordinary, OrdinaryNext, Inv, TablesOK
<1>7. \A y \in Roles : OrdinaryNext(y) =>
        \/ Ordinary(y) /\ SameRows(y)
        \/ \E ask \in Asks, n \in Nat : RowsIn(role_screens', y) = PermissionRows(y, ask, n)
  BY <1>2, <1>4, <1>5, <1>6 DEF mine
<1>8. \A s \in Requests : ReplacingNext(s) => s # r /\ req'[s] = req[s] /\ Replacing(s)
  BY <1>1, EndedAside, OthersAside DEF Replacing, ReplacingNext
<1>9. \A s \in Requests : Replacing(s) /\ s # r => SameRows(req[s].role)
  BY <1>1, <1>5, ReplacesOrdinary DEF ReplacementsApart
<1> QED
  BY <1>7, <1>8, <1>9, ListsStep

LEMMA ScreenStepLists ==
    ASSUME Inv, ListedAsAsked, SeenAll, NEW r \in Requests, ScreenStep(r)
    PROVE  ListedAsAsked' /\ SeenAll'
<1>1. UNCHANGED roles
  BY DEF ScreenStep, StartCreateScreen, NextScreenCode, EnsureCodeAvailable,
     GetSuperAdmin, CommitScreen, StartUpdateScreen, SaveScreen
<1>2. req \in [Requests -> RequestType] /\ req[r] \in RequestType
  BY DEF Inv
<1>3. CASE CommitScreen(r)
  <2> DEFINE new == [role |-> req[r].role, code |-> req[r].code, write |-> TRUE, by |-> 0]
  <2>1. Finish(r) /\ role_screens' = role_screens \cup {new}
    BY <1>3 DEF CommitScreen
  <2>2. new.role = req[r].role /\ IsSuper(roles, req[r].role)
    BY <1>3, RequestHolds DEF CommitScreen, Holds, HoldsSuper
  <2> HIDE DEF new
  <2>3. \A x \in Roles : Ordinary(x) => SameRows(x)
    BY <2>1, <2>2 DEF Ordinary, SameRows, RowsIn
  <2>4. \A x \in Roles : OrdinaryNext(x) => Ordinary(x)
    BY <1>1 DEF Ordinary, OrdinaryNext
  <2> QED
    BY <2>1, <2>3, <2>4, EndedAside, OthersAside, ListsKept
<1>4. CASE ~CommitScreen(r)
  <2>1. UNCHANGED role_screens
    BY <1>4 DEF ScreenStep, StartCreateScreen, NextScreenCode, EnsureCodeAvailable,
       GetSuperAdmin, StartUpdateScreen, SaveScreen
  <2>2. ~ReplacingNext(r)
    <3>1. CASE \/ \E code \in Codes \cup {NULL}, status \in Status :
                      StartCreateScreen(r, code, status)
               \/ \E code \in Codes, status \in Status : StartUpdateScreen(r, code, status)
      BY <1>2, <3>1 DEF StartCreateScreen, StartUpdateScreen, Idle, ReplacingNext
    <3>2. CASE NextScreenCode(r) \/ EnsureCodeAvailable(r) \/ GetSuperAdmin(r)
      <4>1. CASE NextScreenCode(r)
        <5>1. PICK code \in Codes :
                req' = [req EXCEPT ![r].pc = "checking", ![r].code = code]
          BY <4>1 DEF NextScreenCode
        <5>2. req'[r].pc = "checking"
          BY <1>2, <5>1 DEF RequestType
        <5> QED
          BY <5>2 DEF ReplacingNext
      <4>2. CASE EnsureCodeAvailable(r)
        BY <1>2, <4>2 DEF EnsureCodeAvailable, Goto, RequestType, ReplacingNext
      <4>3. CASE GetSuperAdmin(r)
        <5>1. PICK x \in Roles : req' = [req EXCEPT ![r].pc = "adding", ![r].role = x]
          BY <4>3 DEF GetSuperAdmin
        <5>2. req'[r].pc = "adding"
          BY <1>2, <5>1 DEF RequestType
        <5> QED
          BY <5>2 DEF ReplacingNext
      <4> QED
        BY <3>2, <4>1, <4>2, <4>3
    <3>3. CASE SaveScreen(r)
      BY <3>3, EndedAside DEF SaveScreen
    <3> QED
      BY <1>4, <3>1, <3>2, <3>3 DEF ScreenStep
  <2> QED
    BY <1>1, <2>1, <2>2, OthersAside, ListsRead
<1> QED
  BY <1>3, <1>4

LEMMA UserStepLists ==
    ASSUME Inv, ListedAsAsked, SeenAll, NEW r \in Requests, UserStep(r) \/ Fail(r)
    PROVE  ListedAsAsked' /\ SeenAll'
<1>1. UNCHANGED <<roles, role_screens>>
  BY DEF UserStep, StartCreateUser, CommitUser, AssignSuperAdmin, CommitLink, Fail
<1>2. req \in [Requests -> RequestType] /\ req[r] \in RequestType
  BY DEF Inv
<1>3. ~ReplacingNext(r)
  <2>1. CASE \E a \in Admins : StartCreateUser(r, a)
    BY <1>2, <2>1 DEF StartCreateUser, Idle, ReplacingNext
  <2>2. CASE CommitUser(r)
    BY <1>2, <2>2 DEF CommitUser, Goto, ReplacingNext, RequestType
  <2>3. CASE AssignSuperAdmin(r)
    <3>1. PICK x \in Roles :
            \/ Finish(r)
            \/ req' = [req EXCEPT ![r].pc = "linking", ![r].role = x]
      BY <2>3 DEF AssignSuperAdmin
    <3>2. CASE req' = [req EXCEPT ![r].pc = "linking", ![r].role = x]
      <4>1. req'[r].pc = "linking"
        BY <1>2, <3>2 DEF RequestType
      <4> QED
        BY <4>1 DEF ReplacingNext
    <3> QED
      BY <3>1, <3>2, EndedAside
  <2>4. CASE CommitLink(r) \/ Fail(r)
    BY <2>4, EndedAside DEF CommitLink, Fail
  <2> QED
    BY <2>1, <2>2, <2>3, <2>4 DEF UserStep
<1> QED
  BY <1>1, <1>3, OthersAside, ListsRead

(* The scripts write permissions of super_admin only.                      *)
LEMMA SeedLists ==
    ASSUME Inv, ListedAsAsked, SeenAll, NEW admins, Seed(admins)
    PROVE  ListedAsAsked' /\ SeenAll'
<1> DEFINE Row(x, p) == [role |-> x, code |-> p.code, write |-> p.write, by |-> 0]
           First == [name |-> SUPER_ADMIN_ROLE_NAME, status |-> "active"]
<1>1. PICK x \in Roles :
        /\ \/ Named(x, SUPER_ADMIN_ROLE_NAME) /\ UNCHANGED roles
           \/ roles[x] = NULL /\ roles' = [roles EXCEPT ![x] = First]
        /\ role_screens' = role_screens \cup {Row(x, p) : p \in Gaps(x)}
  BY DEF Seed
<1>2. UNCHANGED req
  BY DEF Seed
<1>3. \A p : Row(x, p).role = x
  OBVIOUS
<1>4. First # NULL /\ First.name = SUPER_ADMIN_ROLE_NAME
  BY CatalogAssumption DEF Role, Status
<1> HIDE DEF Row, First
<1>5. \A y \in Roles : y # x => SameRows(y)
  BY <1>1, <1>3 DEF SameRows, RowsIn
<1>6. roles \in [Roles -> Role \cup {NULL}]
  BY DEF Inv, TablesOK
<1>7. ~Ordinary(x) /\ ~OrdinaryNext(x)
  BY <1>1, <1>4, <1>6 DEF Ordinary, OrdinaryNext, Named, IsSuper
<1>8. \A y \in Roles : y # x => roles'[y] = roles[y]
  BY <1>1, <1>6
<1>9. \A y \in Roles : OrdinaryNext(y) => Ordinary(y) /\ SameRows(y)
  BY <1>5, <1>7, <1>8 DEF Ordinary, OrdinaryNext, IsSuper
<1>10. \A s \in Requests : ReplacingNext(s) => Replacing(s) /\ SameRows(req[s].role)
  <2>1. \A s \in Requests : ReplacingNext(s) => Replacing(s)
    BY <1>2 DEF Replacing, ReplacingNext
  <2>2. \A s \in Requests : Replacing(s) => SameRows(req[s].role)
    BY <1>5, <1>7, ReplacesOrdinary
  <2> QED
    BY <2>1, <2>2
<1> QED
  BY <1>2, <1>9, <1>10, ListsStep

LEMMA ListsInit == Init => ListedAsAsked /\ SeenAll
BY DEF Init, ListedAsAsked, Ordinary, SeenAll, Replacing, Idle

LEMMA ListsNext ==
    ReplacementsApart /\ Inv /\ ListedAsAsked /\ SeenAll /\ [Next]_vars
        => ListedAsAsked' /\ SeenAll'
<1> SUFFICES ASSUME ReplacementsApart, Inv, ListedAsAsked, SeenAll, [Next]_vars
             PROVE  ListedAsAsked' /\ SeenAll'
  OBVIOUS
<1>1. ASSUME NEW r \in Requests, RoleStep(r) PROVE ListedAsAsked' /\ SeenAll'
  BY <1>1, AsideLists, BeginDeleteLists, FinishDeleteLists, SaveRoleLists,
     CommitCreateLists, CommitReplacementLists DEF RoleStep
<1>2. ASSUME NEW r \in Requests, ScreenStep(r) \/ UserStep(r) \/ Fail(r)
      PROVE  ListedAsAsked' /\ SeenAll'
  BY <1>2, ScreenStepLists, UserStepLists
<1>3. CASE SeedStep
  BY <1>3, SeedLists DEF SeedStep, SeedAdmin, SeedRbac
<1>4. CASE UNCHANGED vars
  BY <1>4 DEF vars, ListedAsAsked, Ordinary, IsSuper, RowsOf, SeenAll, RowsIn, Replacing
<1> QED
  BY <1>1, <1>2, <1>3, <1>4 DEF Next

(* ReplacementsAreExact: while no two requests replace the permissions of  *)
(* one role at a time, a role permits exactly what one request has asked   *)
(* for.  Two that do merge their lists (role_repository.py:71).            *)
THEOREM ReplacementsAreExact == Spec /\ []ReplacementsApart => []ListedAsAsked
  BY ListsInit, ListsNext, Invariant, PTL DEF Spec
=============================================================================
