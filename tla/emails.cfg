SPECIFICATION Spec
CONSTANTS
    Ids = {t1, t2}
    Names = {n1, n2}
    Editors = {e1, e2}
    Messages = {m1}
    Subjects = {"s"}
    Contents = {"a", "b"}
    Bodies = {{}, {"a"}}
    Bare = {{}, {"a"}, {"b"}}
    Mentioning = {"b"}
    EmailTrackOpens = "yes"
    MaxVersions = 3
    Registered = {"mailgun", "smtp"}
    Gone = Gone
    Idle = Idle
    Unnamed = Unnamed
    NoMessage = NoMessage
    NoMail = NoMail
    NoName = NoName
INVARIANTS
    VersionNamesContent
    
    CanBeUnsubscribed
SYMMETRY Interchangeable
