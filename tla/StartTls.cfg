\* One client and one scripted peer; a mode that requires TLS and one that does not, both listeners, both kinds of server.
SPECIFICATION FairSpec
CONSTANTS
    Clients = {c}
    Peers = {p}
    Scripts <- MCScripts
    Modes = {"Disabled", "Required"}
    WorkerCounts = {0}
    ThreadCounts = {2}
INVARIANTS
    NoClearDispatch
    OpenMeansUpgraded
PROPERTIES
    SetupEnds
    HealthyUpgrades
CHECK_DEADLOCK FALSE
