SPECIFICATION AllSpec
CONSTANTS
    file = file
    ext = ext
    sec = sec
    i1 = i1
    i2 = i2
    e1 = e1
    e2 = e2
    None = None
    Gone = Gone
    Nets = {1, 2}
    Configs = {file, ext}
    Secrets = {sec}
    Defined = {file}
    Attempts = 2
    MaxOps = 2
    MaxFaults = 1
    MaxCommits = 1
    Wanted <- MCWanted
    InitSecrets <- MCSecrets
    Targets = {1, 2}
    Images = {i1, i2}
    Envs = {e1, e2}
    Labels = {"l", "proxy"}
    Scenarios <- MCScenarios
    HandSpecs <- MCHandSpecs
    MaxEdits = 1
    MaxFailures = 2
INVARIANTS OwnNetworksReadable AwaitIsHonest
PROPERTIES Implements FailuresPass
CHECK_DEADLOCK FALSE
