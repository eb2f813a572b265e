CONSTANTS
    Users = {ann, bob}
    Role = {"customer", "super_admin"}
    Tokens = {k1}
    Requests = {q1, q2}
    TTL = 2
SPECIFICATION Spec
SYMMETRY Symmetry
INVARIANTS
    TypeOK
    StaleRoleIsShortLived
    AuditTellsTheRole
PROPERTIES
    LastSuperAdminLostToAStaleActor
