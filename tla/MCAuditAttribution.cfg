SPECIFICATION Spec
CONSTANTS
    l1 = l1  l2 = l2  pid = pid
    shell = shell  cat = cat  loader = loader  file = file
    Lives = {l1, l2}
    Pids = {l1, l2}
    PidOf <- OwnPid
    FirstImage <- MCFirstImage
    Programs = {shell, cat, loader}
    Loader = loader
    Commands = {cat}
    Files = {file}
    Watched = {file, cat}
    Capacity = 2
    ProcessCapacity = 1
    TimeToLive = 0
    Nobody = Nobody
    None = None
    MaxEvents = 4
    MaxTime = 1
SYMMETRY Exchange
INVARIANTS
    ChargedToOwnProgram
    LoaderNotCharged
    NoCloseLost
    ProcessesAgree
CHECK_DEADLOCK FALSE
