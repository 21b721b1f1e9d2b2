SPECIFICATION FairSpec
CONSTANTS
    helper = helper  parent = parent  outer = outer
    tool = tool  owner = owner  owner2 = owner2
    Pids = {helper, parent, outer}
    Root = Root
    Programs = {tool, owner, owner2}
    RootProgram = tool
    FirstProcess <- MCFirstProcess
    Free = Free
    None = None  NoAnswer = NoAnswer
    MaxDepth = 2
    MaxWorld = 3
    MaxQuestions = 2
    Backlog = 1
    Helper = helper
    Owners = {owner, owner2}
    MaxAccesses = 2
INVARIANTS
    VerifiedWhenAsked
PROPERTIES
    IsAskedQuestion
    AskReturns
CHECK_DEADLOCK FALSE
