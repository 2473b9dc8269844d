---------------------------- MODULE RoleCatalog ----------------------------
(***************************************************************************)
(* Roles, screens and the permissions between them (services/role_service, *)
(* screen_service, rbac_service and their repositories), the assignment of *)
(* super_admin to admins (user_service.create_user) and the scripts that   *)
(* seed all this (database/scripts).                                       *)
(*                                                                         *)
(* An action is what a request does up to an await whose result matters: a *)
(* read of committed rows, a statement that takes locks, or the statements *)
(* of a commit.  A step that finds what the code refuses is not enabled;   *)
(* Fail ends the request, as the exception does.  The permission check is  *)
(* one step with the load that follows it: nothing takes permissions from  *)
(* an admin (SuperAdminKeepsAccess).                                       *)
(***************************************************************************)
EXTENDS Naturals

CONSTANTS
    Roles,          \* ids of roles
    Names,          \* names of roles
    SUPER_ADMIN_ROLE_NAME,
    MaxCode,        \* the largest numeric suffix that fits screens.code
    SCREENS,        \* seed_rbac.SCREENS: the seeded screens, as permissions
    USERS_SCREEN, ROLES_SCREEN, SCREENS_SCREEN,   \* their codes, in routes
    Asks,           \* lists of permissions that clients send
    Admins,         \* ids of platform admins
    Requests,       \* request tasks running at a time
    NULL,           \* no row, or a field left out
    MaxReplacements \* no replacement starts after so many

(* A code S{n} is the number n.  A code that a client has chosen freely is *)
(* left out: it only does not count in NextScreenCode.                     *)
Codes == 1..MaxCode

Status == {"active", "inactive"}

Role == [name : Names, status : Status]

Screen == [status : Status]

Operation == {"R", "W"}

Codeset(permissions) == {p.code : p \in permissions}

PROTECTED_SCREEN_CODES == Codeset(SCREENS)

ASSUME CatalogAssumption ==
    /\ MaxCode \in Nat /\ MaxReplacements \in Nat
    /\ SUPER_ADMIN_ROLE_NAME \in Names
    /\ SCREENS \subseteq [code : Codes, write : BOOLEAN]
    /\ \A p, q \in SCREENS : p.code = q.code => p = q
    /\ Asks \subseteq SUBSET (Codes \X Operation)
    /\ NULL \notin Codes /\ NULL \notin Status /\ NULL \notin Names
    /\ NULL \notin Roles /\ NULL \notin Asks /\ NULL \notin Role /\ NULL \notin Screen

VARIABLES
    roles,                  \* rows of roles
    screens,                \* rows of screens, by code
    role_screens,           \* rows of role_screens; "by" is the replacement
                            \* that has put the row there, 0 if none
    platform_admins,        \* rows of platform_admins
    platform_admin_roles,   \* rows of platform_admin_roles
    req,                    \* what each request is doing
    replacements,           \* replacements of permissions committed
    since                   \* for each role, which replacement was the next one
                            \* to commit when the one now in force began

vars == <<roles, screens, role_screens, platform_admins, platform_admin_roles,
          req, replacements, since>>

directory == <<platform_admins, platform_admin_roles>>
ledger == <<replacements, since>>

-----------------------------------------------------------------------------
RoleScreen == [role : Roles, code : Codes, write : BOOLEAN, by : Nat]

RowsOf(x) == {row \in role_screens : row.role = x}

Named(x, name) == roles[x] # NULL /\ roles[x].name = name

(* The transaction of request q has an UPDATE of role x in it.             *)
HoldsRow(q, x) ==
    /\ req[q].role = x
    /\ req[q].op = "update" /\ req[q].obj # req[q].was
    /\ req[q].pc \in {"flushed", "deleting", "inserting"}

RowLocked(x, r) == \E q \in Requests \ {r} : HoldsRow(q, x)

Renames(q, x) == HoldsRow(q, x) /\ req[q].obj.name # req[q].was.name

(* The unique index on roles.name lets role x be called so: no other role  *)
(* is, nor will be by a rename that is under way.                          *)
UniqueName(x, name) ==
    \A y \in Roles \ {x} :
        /\ ~Named(y, name)
        /\ \A q \in Requests : Renames(q, y) => req[q].obj.name # name

(* rbac_service._expand: write implies read.                               *)
Expand(rows) ==
    {<<row.code, "R">> : row \in rows} \cup
    {<<row.code, "W">> : row \in {p \in rows : p.write}}

(* The names that routes may require (models/enums.py) are what the seeded *)
(* permissions expand to.                                                  *)
PermissionName == Expand(SCREENS)

(* Rows on active screens of the admin's active roles.                     *)
screen_permissions_for_admin(a) ==
    {row \in role_screens :
        /\ <<a, row.role>> \in platform_admin_roles
        /\ roles[row.role].status = "active"
        /\ screens[row.code].status = "active"}

permissions_for_admin(a) == Expand(screen_permissions_for_admin(a))

(* Some admin may send this request.                                       *)
require_permission(code, operation) ==
    \E a \in platform_admins : <<code, operation>> \in permissions_for_admin(a)

(* The unit of work writes the columns that differ from what was loaded.   *)
Column(stored, was, obj) == IF obj # was THEN obj ELSE stored

Updated(stored, was, obj) ==
    [name |-> Column(stored.name, was.name, obj.name),
     status |-> Column(stored.status, was.status, obj.status)]

Idle == [op |-> "none", pc |-> "idle", role |-> NULL, code |-> NULL, admin |-> NULL,
         was |-> NULL, obj |-> NULL, ask |-> NULL, seen |-> {}, began |-> 0]

Goto(r, pc) == req' = [req EXCEPT ![r].pc = pc]

Finish(r) == req' = [req EXCEPT ![r] = Idle]

-----------------------------------------------------------------------------
(* Roles: role_service and role_repository.                                *)

(* _normalize_permissions and _permission_rows.                            *)
PermissionRows(x, ask, by) ==
    {[role |-> x, code |-> p[1], write |-> <<p[1], "W">> \in ask, by |-> by] : p \in ask}

Given(value, default) == IF value = NULL THEN default ELSE value

(* Mutant of ProtectedRole: the permissions of super_admin may be replaced. *)
ProtectedRoleButPermissions(row, name, status, ask) ==
    /\ row.name = SUPER_ADMIN_ROLE_NAME
    /\ \/ name \notin {NULL, SUPER_ADMIN_ROLE_NAME}
       \/ status = "inactive"

(* What update_role refuses to do to super_admin.                          *)
ProtectedRole(row, name, status, ask) ==
    /\ row.name = SUPER_ADMIN_ROLE_NAME
    /\ \/ name \notin {NULL, SUPER_ADMIN_ROLE_NAME}
       \/ status = "inactive"
       \/ ask # NULL

StartCreateRole(r, name, status, ask) ==
    /\ req[r].pc = "idle"
    /\ replacements < MaxReplacements
    /\ require_permission(ROLES_SCREEN, "W")
    /\ req' = [req EXCEPT ![r] =
                 [Idle EXCEPT !.op = "create", !.pc = "naming",
                              !.obj = [name |-> name, status |-> status],
                              !.ask = ask]]
    /\ UNCHANGED <<roles, screens, role_screens, directory, ledger>>

StartUpdateRole(r, x, name, status, ask) ==
    /\ req[r].pc = "idle"
    /\ ask # NULL => replacements < MaxReplacements
    /\ require_permission(ROLES_SCREEN, "W")
    /\ roles[x] # NULL
    /\ ~ProtectedRole(roles[x], name, status, ask)
    /\ req' = [req EXCEPT ![r] =
                 [Idle EXCEPT !.op = "update",
                              !.pc = IF name # NULL THEN "naming"
                                     ELSE IF ask # NULL THEN "validating" ELSE "saving",
                              !.role = x, !.was = roles[x],
                              !.obj = [name |-> Given(name, roles[x].name),
                                       status |-> Given(status, roles[x].status)],
                              !.ask = ask]]
    /\ UNCHANGED <<roles, screens, role_screens, directory, ledger>>

StartDeleteRole(r, x) ==
    /\ req[r].pc = "idle"
    /\ require_permission(ROLES_SCREEN, "W")
    /\ roles[x] # NULL
    /\ roles[x].name # SUPER_ADMIN_ROLE_NAME
    /\ req' = [req EXCEPT ![r] =
                 [Idle EXCEPT !.op = "delete", !.pc = "saving", !.role = x,
                              !.was = roles[x],
                              !.obj = [roles[x] EXCEPT !.status = "inactive"]]]
    /\ UNCHANGED <<roles, screens, role_screens, directory, ledger>>

(* _ensure_name_available.                                                 *)
EnsureNameAvailable(r) ==
    /\ req[r].pc = "naming"
    /\ \A x \in Roles : Named(x, req[r].obj.name) => x = req[r].role
    /\ Goto(r, IF req[r].ask # NULL THEN "validating" ELSE "saving")
    /\ UNCHANGED <<roles, screens, role_screens, directory, ledger>>

(* Mutant of ValidateScreenCodes: the codes are taken as they come.        *)
ValidateNoScreenCodes(r) ==
    /\ req[r].pc = "validating"
    /\ req' = [req EXCEPT ![r].pc = IF req[r].op = "create"
                                    THEN "inserting" ELSE "replacing",
                          ![r].began = replacements + 1]
    /\ UNCHANGED <<roles, screens, role_screens, directory, ledger>>

ActiveScreen(code) == screens[code] # NULL /\ screens[code].status = "active"

(* _validate_screen_codes: every code asked for is of an active screen.    *)
ValidateScreenCodes(r) ==
    /\ req[r].pc = "validating"
    /\ \A p \in req[r].ask : ActiveScreen(p[1])
    /\ req' = [req EXCEPT ![r].pc = IF req[r].op = "create"
                                    THEN "inserting" ELSE "replacing",
                          ![r].began = replacements + 1]
    /\ UNCHANGED <<roles, screens, role_screens, directory, ledger>>

(* The commit of create_role.                                              *)
CommitCreate(r) ==
    /\ req[r].pc = "inserting" /\ req[r].op = "create"
    /\ \E x \in Roles :
        /\ roles[x] = NULL
        /\ UniqueName(x, req[r].obj.name)
        /\ roles' = [roles EXCEPT ![x] = req[r].obj]
        /\ role_screens' =
              role_screens \cup PermissionRows(x, req[r].ask, replacements + 1)
        /\ since' = [since EXCEPT ![x] = req[r].began]
    /\ replacements' = replacements + 1
    /\ Finish(r)
    /\ UNCHANGED <<screens, directory>>

(* The commit of update_role without permissions, and of delete_role.      *)
SaveRole(r) ==
    /\ req[r].pc = "saving"
    /\ req[r].obj # req[r].was => ~RowLocked(req[r].role, r)
    /\ LET row == Updated(roles[req[r].role], req[r].was, req[r].obj)
       IN  /\ UniqueName(req[r].role, row.name)
           /\ roles' = [roles EXCEPT ![req[r].role] = row]
    /\ Finish(r)
    /\ UNCHANGED <<screens, role_screens, directory, ledger>>

(* update_role with permissions: the DELETE flushes the changed fields     *)
(* first, and this UPDATE takes the lock of the row.                       *)
FlushRole(r) ==
    /\ req[r].pc = "replacing"
    /\ req[r].obj # req[r].was
    /\ ~RowLocked(req[r].role, r)
    /\ UniqueName(req[r].role, Updated(roles[req[r].role], req[r].was, req[r].obj).name)
    /\ Goto(r, "flushed")
    /\ UNCHANGED <<roles, screens, role_screens, directory, ledger>>

(* The snapshot of the DELETE: the rows that are committed by now.         *)
BeginDelete(r) ==
    /\ \/ req[r].pc = "flushed"
       \/ req[r].pc = "replacing" /\ req[r].obj = req[r].was
    /\ req' = [req EXCEPT ![r].pc = "deleting", ![r].seen = RowsOf(req[r].role)]
    /\ UNCHANGED <<roles, screens, role_screens, directory, ledger>>

(* The DELETE waits for whoever is deleting one of its rows; a row that is *)
(* gone then is passed over.                                               *)
FinishDelete(r) ==
    /\ req[r].pc = "deleting"
    /\ \A q \in Requests \ {r} :
        req[q].pc = "inserting" => req[q].seen \cap req[r].seen = {}
    /\ Goto(r, "inserting")
    /\ UNCHANGED <<roles, screens, role_screens, directory, ledger>>

(* Mutant of Deleted: only the screens asked for are replaced.             *)
DeletedAsked(q) == {row \in q.seen : \E p \in q.ask : p[1] = row.code}

(* The rows that the DELETE of this request removes.                       *)
Deleted(q) == q.seen

(* The INSERTs and the commit: the primary key of role_screens refuses a   *)
(* row that another replacement has put there, and the foreign key waits   *)
(* for a rename of the role.                                               *)
CommitReplacement(r) ==
    /\ req[r].pc = "inserting" /\ req[r].op = "update"
    /\ LET x    == req[r].role
           kept == role_screens \ Deleted(req[r])
           mine == PermissionRows(x, req[r].ask, replacements + 1)
       IN  /\ \A row \in kept, new \in mine : row.role = x => row.code # new.code
           /\ \A q \in Requests \ {r} : ~Renames(q, x)
           /\ roles' = [roles EXCEPT ![x] = Updated(@, req[r].was, req[r].obj)]
           /\ role_screens' = kept \cup mine
           /\ since' = [since EXCEPT ![x] = req[r].began]
    /\ replacements' = replacements + 1
    /\ Finish(r)
    /\ UNCHANGED <<screens, directory>>

-----------------------------------------------------------------------------
(* Screens: screen_service and screen_repository.                          *)

StartCreateScreen(r, code, status) ==
    /\ req[r].pc = "idle"
    /\ require_permission(SCREENS_SCREEN, "W")
    /\ req' = [req EXCEPT ![r] =
                 [Idle EXCEPT !.op = "screen", !.code = code, !.obj = [status |-> status],
                              !.pc = IF code = NULL THEN "numbering" ELSE "checking"]]
    /\ UNCHANGED <<roles, screens, role_screens, directory, ledger>>

(* One past the largest numeric suffix.  A code that does not fit the      *)
(* column is refused in the end.                                           *)
NextScreenCode(r) ==
    /\ req[r].pc = "numbering"
    /\ \E code \in Codes :
        /\ \A c \in Codes : screens[c] # NULL => c < code
        /\ code # 1 => screens[code - 1] # NULL
        /\ req' = [req EXCEPT ![r].pc = "checking", ![r].code = code]
    /\ UNCHANGED <<roles, screens, role_screens, directory, ledger>>

(* _ensure_code_available.                                                 *)
EnsureCodeAvailable(r) ==
    /\ req[r].pc = "checking"
    /\ screens[req[r].code] = NULL
    /\ Goto(r, "granting")
    /\ UNCHANGED <<roles, screens, role_screens, directory, ledger>>

(* The id of super_admin, which exists: some admin was allowed to come here. *)
GetSuperAdmin(r) ==
    /\ req[r].pc = "granting"
    /\ \E x \in Roles :
        /\ Named(x, SUPER_ADMIN_ROLE_NAME)
        /\ req' = [req EXCEPT ![r].pc = "adding", ![r].role = x]
    /\ UNCHANGED <<roles, screens, role_screens, directory, ledger>>

(* Mutant of CommitScreen: the screen without its bootstrap permission.    *)
CommitScreenUngranted(r) ==
    /\ req[r].pc = "adding"
    /\ screens[req[r].code] = NULL
    /\ screens' = [screens EXCEPT ![req[r].code] = req[r].obj]
    /\ Finish(r)
    /\ UNCHANGED <<roles, role_screens, directory, ledger>>

(* The screen and the permission of super_admin in one commit.             *)
CommitScreen(r) ==
    /\ req[r].pc = "adding"
    /\ screens[req[r].code] = NULL
    /\ screens' = [screens EXCEPT ![req[r].code] = req[r].obj]
    /\ role_screens' = role_screens \cup
          {[role |-> req[r].role, code |-> req[r].code, write |-> TRUE,
            by |-> 0]}
    /\ Finish(r)
    /\ UNCHANGED <<roles, directory, ledger>>

(* update_screen and, with "inactive", delete_screen.                      *)
StartUpdateScreen(r, code, status) ==
    /\ req[r].pc = "idle"
    /\ require_permission(SCREENS_SCREEN, "W")
    /\ screens[code] # NULL
    /\ code \in PROTECTED_SCREEN_CODES => status # "inactive"
    /\ req' = [req EXCEPT ![r] =
                 [Idle EXCEPT !.op = "screen", !.pc = "saving screen", !.code = code,
                              !.was = screens[code], !.obj = [status |-> status]]]
    /\ UNCHANGED <<roles, screens, role_screens, directory, ledger>>

UpdatedScreen(stored, was, obj) ==
    [status |-> Column(stored.status, was.status, obj.status)]

SaveScreen(r) ==
    /\ req[r].pc = "saving screen"
    /\ screens' = [screens EXCEPT ![req[r].code] = UpdatedScreen(@, req[r].was, req[r].obj)]
    /\ Finish(r)
    /\ UNCHANGED <<roles, role_screens, directory, ledger>>

-----------------------------------------------------------------------------
(* Admins: user_service.create_user and rbac_repository.assign_super_admin. *)

StartCreateUser(r, a) ==
    /\ req[r].pc = "idle"
    /\ require_permission(USERS_SCREEN, "W")
    /\ a \notin platform_admins
    /\ req' = [req EXCEPT ![r] =
                 [Idle EXCEPT !.op = "user", !.pc = "creating", !.admin = a]]
    /\ UNCHANGED <<roles, screens, role_screens, directory, ledger>>

CommitUser(r) ==
    /\ req[r].pc = "creating"
    /\ req[r].admin \notin platform_admins
    /\ platform_admins' = platform_admins \cup {req[r].admin}
    /\ Goto(r, "assigning")
    /\ UNCHANGED <<roles, screens, role_screens, platform_admin_roles, ledger>>

(* super_admin exists: some admin was allowed to come here.                *)
AssignSuperAdmin(r) ==
    /\ req[r].pc = "assigning"
    /\ \E x \in Roles :
        /\ Named(x, SUPER_ADMIN_ROLE_NAME)
        /\ IF <<req[r].admin, x>> \in platform_admin_roles THEN Finish(r)
           ELSE req' = [req EXCEPT ![r].pc = "linking", ![r].role = x]
    /\ UNCHANGED <<roles, screens, role_screens, directory, ledger>>

CommitLink(r) ==
    /\ req[r].pc = "linking"
    /\ <<req[r].admin, req[r].role>> \notin platform_admin_roles
    /\ platform_admin_roles' = platform_admin_roles \cup {<<req[r].admin, req[r].role>>}
    /\ Finish(r)
    /\ UNCHANGED <<roles, screens, role_screens, platform_admins, ledger>>

-----------------------------------------------------------------------------
(* The scripts seed_admin.py and seed_rbac.py, run by an operator.  Each   *)
(* is one transaction that inserts what its reads have not found, and is   *)
(* refused by a key when somebody else has inserted it since: a run that   *)
(* succeeds is as good as one step.                                        *)

(* ensure_catalog: the rows of the catalog that role x lacks.              *)
Gaps(x) == {p \in SCREENS : \A row \in RowsOf(x) : row.code # p.code}

(* ensure_catalog, and assign_super_admin for each of these admins.        *)
Seed(admins) ==
    /\ \E x \in Roles :
        /\ \/ Named(x, SUPER_ADMIN_ROLE_NAME) /\ UNCHANGED roles
           \/ /\ roles[x] = NULL
              /\ UniqueName(x, SUPER_ADMIN_ROLE_NAME)
              /\ roles' = [roles EXCEPT ![x] = [name |-> SUPER_ADMIN_ROLE_NAME,
                                                status |-> "active"]]
        /\ role_screens' = role_screens \cup
              {[role |-> x, code |-> p.code, write |-> p.write, by |-> 0] :
               p \in Gaps(x)}
        /\ platform_admin_roles' = platform_admin_roles \cup (admins \X {x})
    /\ screens' = [c \in Codes |-> IF c \in PROTECTED_SCREEN_CODES /\ screens[c] = NULL
                                   THEN [status |-> "active"] ELSE screens[c]]
    /\ platform_admins' = platform_admins \cup admins
    /\ UNCHANGED <<req, ledger>>

(* seed_admin: one admin, created unless there is one with this email.     *)
SeedAdmin(a) == Seed({a})

(* seed_rbac: all the admins there are.                                    *)
SeedRbac == Seed(platform_admins)

-----------------------------------------------------------------------------
(* A refusal, a lost client or connection, a deadlock that PostgreSQL      *)
(* resolves: what is not committed is rolled back.                         *)
Fail(r) ==
    /\ req[r].pc # "idle"
    /\ Finish(r)
    /\ UNCHANGED <<roles, screens, role_screens, directory, ledger>>

(* An empty, migrated database.                                            *)
Init ==
    /\ roles = [x \in Roles |-> NULL]
    /\ screens = [c \in Codes |-> NULL]
    /\ role_screens = {}
    /\ platform_admins = {}
    /\ platform_admin_roles = {}
    /\ req = [r \in Requests |-> Idle]
    /\ replacements = 0
    /\ since = [x \in Roles |-> 0]

RoleStep(r) ==
    \/ \E name \in Names, status \in Status, ask \in Asks :
          StartCreateRole(r, name, status, ask)
    \/ \E x \in Roles, name \in Names \cup {NULL}, status \in Status \cup {NULL},
          ask \in Asks \cup {NULL} : StartUpdateRole(r, x, name, status, ask)
    \/ \E x \in Roles : StartDeleteRole(r, x)
    \/ EnsureNameAvailable(r)
    \/ ValidateScreenCodes(r)
    \/ CommitCreate(r)
    \/ SaveRole(r)
    \/ FlushRole(r)
    \/ BeginDelete(r)
    \/ FinishDelete(r)
    \/ CommitReplacement(r)

ScreenStep(r) ==
    \/ \E code \in Codes \cup {NULL}, status \in Status : StartCreateScreen(r, code, status)
    \/ NextScreenCode(r)
    \/ EnsureCodeAvailable(r)
    \/ GetSuperAdmin(r)
    \/ CommitScreen(r)
    \/ \E code \in Codes, status \in Status : StartUpdateScreen(r, code, status)
    \/ SaveScreen(r)

UserStep(r) ==
    \/ \E a \in Admins : StartCreateUser(r, a)
    \/ CommitUser(r)
    \/ AssignSuperAdmin(r)
    \/ CommitLink(r)

SeedStep ==
    \/ \E a \in Admins : SeedAdmin(a)
    \/ SeedRbac

Next ==
    \/ \E r \in Requests : RoleStep(r) \/ ScreenStep(r) \/ UserStep(r) \/ Fail(r)
    \/ SeedStep

Spec == Init /\ [][Next]_vars

-----------------------------------------------------------------------------
RequestType ==
    [op : {"none", "create", "update", "delete", "screen", "user"},
     pc : {"idle", "naming", "validating", "inserting", "saving", "replacing",
           "flushed", "deleting", "numbering", "checking", "granting", "adding",
           "saving screen", "creating", "assigning", "linking"},
     role : Roles \cup {NULL}, code : Codes \cup {NULL}, admin : Admins \cup {NULL},
     was : Role \cup Screen \cup {NULL}, obj : Role \cup Screen \cup {NULL},
     ask : Asks \cup {NULL}, seen : SUBSET RoleScreen, began : Nat]

(* Type correctness; in particular a permission is always for a role and a *)
(* screen that exist, whatever happens between the validation of the codes *)
(* and the commit: the foreign keys of role_screens never refuse it.       *)
TypeOK ==
    /\ roles \in [Roles -> Role \cup {NULL}]
    /\ screens \in [Codes -> Screen \cup {NULL}]
    /\ role_screens \subseteq RoleScreen
    /\ \A row \in role_screens : roles[row.role] # NULL /\ screens[row.code] # NULL
    /\ platform_admins \subseteq Admins
    /\ platform_admin_roles \subseteq platform_admins \X Roles
    /\ req \in [Requests -> RequestType]
    /\ replacements \in Nat
    /\ since \in [Roles -> Nat]

(* An admin who has been assigned super_admin has every permission that a  *)
(* route may require, whatever requests on roles and screens interleave:   *)
(* the protection of super_admin and of its screens is decided on copies,  *)
(* and holds when they are written (ProtectedResourceError).               *)
SuperAdminKeepsAccess ==
    \A link \in platform_admin_roles : PermissionName \subseteq permissions_for_admin(link[1])

(* "Grant super_admin every screen permission" (seed_rbac.py:28), "Create  *)
(* a screen and, atomically, its bootstrap super_admin permission"         *)
(* (screen_repository.py:17): there is no screen that super_admin lacks.   *)
SuperAdminSeesEveryScreen ==
    \A x \in Roles, c \in Codes :
        Named(x, SUPER_ADMIN_ROLE_NAME) /\ screens[c] # NULL =>
            \E row \in role_screens : row.role = x /\ row.code = c

(* "Replace permissions" (role_repository.py:66): what a role permits was  *)
(* asked for by the replacement in force, or by one that committed while   *)
(* it was under way.  No older permission survives a replacement, and no   *)
(* screen is permitted twice over.                                         *)
NoStrayPermission ==
    /\ \A row \in role_screens : row.by >= since[row.role]
    /\ \A row, other \in role_screens :
          row.role = other.role /\ row.code = other.code => row = other
=============================================================================
