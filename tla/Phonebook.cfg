SPECIFICATION Spec
CONSTANTS
    Names = {"a", "b", "h"}
    HaNames = {"h"}
    Self = "me"
    None = ""
    Texts = {"a", "b", "h", "me", "", "too long"}
    Endpoints = {"direct", "bridge"}
    Rows <- MCRows
    Batches <- MCBatches
    Rosters <- MCRosters
    Threshold = 2
    MaxContacts = 3
    MaxMissing = 2
    HaFirst = TRUE
INVARIANT PhonebookInv
PROPERTIES SelectionSurvives PrunesOnlyStale CallGoesWhereAsked
CHECK_DEADLOCK FALSE
