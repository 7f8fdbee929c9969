SPECIFICATION Spec
CONSTANTS
    plugin = plugin
    psession = psession
    csession = csession
    activity = activity
    s1 = s1
    s2 = s2
    Resources <- Nodes
    EventParent <- Parents
    Events <- Lifecycles
    Created = {csession}
    Labelled = {activity}
    PluginSession = psession
    Calls = {k1, k2}
    Caller <- FromClient
    Subs = {s1, s2}
    ChanSize = 1
    MaxCount = 1
    MaxEvents = 3
INVARIANT LabelsHaveOneWriter
SYMMETRY Symmetry
CHECK_DEADLOCK FALSE
