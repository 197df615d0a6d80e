SPECIFICATION Spec
CONSTANTS
    Roles = {"admin", "viewer"}
    Messages <- MCMessages
    WellFormed <- MCWellFormed
    Folded <- MCFolded
    Rules <- MCRules
    StartsWith <- MCStartsWith
    Listed <- MCListed
    Statuses = {200, 404}
    MaxEntries = 3
INVARIANTS BatchSurvives
CHECK_DEADLOCK FALSE
