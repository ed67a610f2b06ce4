CONSTANTS
    c1 = c1
    c2 = c2
    s1 = s1
    s2 = s2
    None = None
    Services = {s1}
    Commits = {c1, c2}
    Declares <- MCDeclares
    MaxTime = 4
    MaxHints = 2
SPECIFICATION Spec
PROPERTIES NewCommitIsDeployment NoHintReuse StaleMeansSeen
