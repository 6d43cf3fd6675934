SPECIFICATION Spec
CONSTANTS
    Accounts = {a1}
    GrantIds = {g1}
    Owners = {"omux"}
    Operations = {o1, o2}
    Metas = {m1}
    MaxChanges = 2
    MaxDraws = 5
    MaxBackups = 1
    None = None
INVARIANTS
    OpenIsLatest
    RotationIssuedOnce
    NoGenerationReuse
    ForgottenStaysForgotten
    RotationTablesAgree
SYMMETRY Symmetry
