SPECIFICATION Spec
CONSTANTS
    None = None
    Begins <- MCBegins
    Gitignore = ".gitignore"
    Configs = {"closed", "open"}
    ConfigOf <- MCConfigOf
    Aliases <- MCAliases
    Processes = {"first", "later", "nested", "broken", "bare", "bareAgain", "tool", "unreadable"}
    IdentityOf <- MCIdentityOf
    Targets <- MCTargets
    Modes = {"guard"}
    NeedsSession = TRUE
    Unknown <- MCUnknown
    MaxDialogs = 2
    MaxDefaults = 0
INVARIANTS
    NearestOwnerAuthorized
