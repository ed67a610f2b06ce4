CONSTANTS
    d1 = d1
    d2 = d2
    tag = tag
    a1 = a1
    a2 = a2
    o1 = o1
    o2 = o2
    c1 = c1
    c2 = c2
    c3 = c3
    c4 = c4
    bad = bad
    None = None
    Services = {1}
    Digests = {d1, d2}
    Tags = {tag}
    Atts = {a1, a2}
    OpVals = {o1, o2}
    NoOp = o1
    Commits = {c1, c4}
    Stack <- MCStack
    BadCommits = {}
    InitSigned <- MCInitSigned
    Configs <- MCUngated
    MaxOps = 1
    MaxFaults = 0
SPECIFICATION FairSpec
PROPERTIES NewConfigIsDeployed
