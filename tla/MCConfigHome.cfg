SPECIFICATION FairSpec
CONSTANTS
    home = home  archive = archive  kept = kept  nested = nested  tool = tool
    stray = stray  out = out  far = far  link = link  deep = deep
    s1 = s1  s2 = s2
    Names <- MCNames
    Dirs = {home, archive, kept, nested, tool, stray, out, far}
    Links = {link, deep}
    Target <- MCTarget
    FirstAt <- MCFirstAt
    Spots <- MCSpots
    ConfigDir <- MCConfigDir
    Archive <- MCArchive
    Deployed <- MCDeployed
    Gone = Gone
    MaxChanges = 2
    Roots <- MCRoots
    MaxDeaths = 2
    Programs = {s1, s2}
    Visited = {out}
    OwnerNames <- MCOwnerNames
    Installed <- MCInstalled
    Stamped <- MCStamped
    MaxTools = 2
    MaxDisturbances = 2
INVARIANTS
    MarkedExactly
    MarkerMeansEnforcing
    WholePolicyInstalled
    DeployedServes
    ReconcileSettles
    LearnedOwnersAlone
PROPERTIES
    ConfiguredKept
    Recovers
CHECK_DEADLOCK FALSE
