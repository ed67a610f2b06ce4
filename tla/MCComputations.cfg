CONSTANTS
    Nil = Nil
    None = None
    Failed = Failed
    Absolute = Absolute
    Absent = Absent
    p1 = p1
    p2 = p2
    d1 = d1
    d2 = d2
    a1 = a1
    a2 = a2
    Raws <- Raw
    Stack = "web"
    Edits <- Hand
    MaxCommits = 2
    MaxEdits = 2
    Dir <- DeployDir
    Inputs <- Pairs
    Words = {"pay", "web", "db"}
    AllowedFields = {"image", "ports"}
    EnvRootSet = TRUE
    Services = {1, 2, 3}
    Digests = {d1, d2}
    Atts = {a1, a2}
    Width = 12
    MaxReplicas = 1000
    MaxEntries <- Limits
    ReplicaValues <- Replicated
    MemoryValues = {Absent, 64}
    ParallelismValues = {Absent, 2}
SPECIFICATION AllSpec
SYMMETRY Alike
INVARIANTS StacksKeptApart PlanIsJudged AllowedIsDeployed
PROPERTIES WritesSettle ForeignSurvives
\* Each computation ends.
CHECK_DEADLOCK FALSE
