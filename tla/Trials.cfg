SPECIFICATION Spec
CONSTANTS
    Services = {web, db}
    Target = web
    Tags = 2
    Victims = {"reconciler", "worker"}
    MaxRounds = 2
    MaxUnread = 3
    Kinds = {"scale", "race", "drift", "fault"}
    Offsets = {"diff", "apply", "after"}
    MaxRuns = 2
PROPERTIES RowsAreTrue PushNotLost OutagesEndOnce RunsEnd
