SPECIFICATION AllSpec
CONSTANTS
    i1 = i1
    i2 = i2
    i3 = i3
    k1 = k1
    k2 = k2
    ci = ci
    ops = ops
    eve = eve
    ours = ours
    theirs = theirs
    prod = prod
    dev = dev
    Nil = Nil
    Batch <- MCBatch
    StackOf <- MCStackOf
    Bundles <- MCBundles
    Policies <- MCPolicies
    Malformed = {i3}
    MaxPush = 2
    MaxOutages = 2
    near = near
    good = good
    deep = deep
    twice = twice
    escaping = escaping
    huge = huge
    dangling = dangling
    Absolute = Absolute
    Failed = Failed
    Content <- Trees
    Dir <- Deploy
    MaxFaults = 2
    MaxMoves = 2
    data = data
    app = app
    srv = srv
    file = file
    cur = cur
    loop = loop
    out = out
    Up = Up
    NoRoot = NoRoot
    Refused = Refused
    Names = {data, app, srv, file, cur, loop, out, Up}
    FileSystems <- Systems
    Settings <- Configs
    Entries <- Mentions
    MaxLinks = 3
INVARIANTS PassIsEarned PathsContained
PROPERTIES GoodImagePasses MissingMeansMissing FetchIsTrue InputsRecover
