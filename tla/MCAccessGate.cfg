SPECIFICATION Spec
CONSTANTS
    None = None
    Begins <- MCBegins
    Gitignore = ".gitignore"
    Configs = {"closed", "open"}
    ConfigOf <- MCConfigOf
    Aliases <- MCAliases
    Processes = {"first", "later", "broken", "bare", "bareAgain", "tool", "unreadable"}
    IdentityOf <- MCIdentityOf
    Targets <- MCTargets
    Modes = {"guard", "audit-prompt"}
    NeedsSession = TRUE
    Unknown <- MCUnknown
    MaxDialogs = 2
    MaxDefaults = 0
INVARIANTS
    StrictOwnershipHolds
    AnswerJustified
    AllowCoversPair
    AuthorizationVerified
    OrderOfRulesIrrelevant
PROPERTIES
    AnswersFinal
