SPECIFICATION Spec
CONSTANTS
    x1 = x1
    x2 = x2
    super_admin = super_admin
    n1 = n1
    n2 = n2
    a1 = a1
    a2 = a2
    r1 = r1
    r2 = r2
    NULL = NULL
    Roles = {x1, x2}
    Names = {super_admin, n1, n2}
    SUPER_ADMIN_ROLE_NAME = super_admin
    MaxCode = 2
    SCREENS <- SeededScreens
    USERS_SCREEN = 1
    ROLES_SCREEN = 1
    SCREENS_SCREEN = 1
    Asks <- ClientAsks
    Admins = {a1, a2}
    Requests = {r1, r2}
    MaxReplacements = 2
SYMMETRY CatalogSymmetry
INVARIANTS
    TypeOK
    SuperAdminKeepsAccess
    SuperAdminSeesEveryScreen
    NoStrayPermission
