SPECIFICATION Spec
CONSTANTS
    Sources = {s1, s2}
    Identities = {i1}
    MaxReads = 2
    MaxAuthority = 2
    MaxJob = 3
    MaxForgets = 2
    MaxPolls = 1
INVARIANTS
    CommittedSnapshotRestorable
    CreditsFollowJobs
PROPERTIES
    GrantsComeFromCurrentReads
    ForgottenReturnsByConsent
