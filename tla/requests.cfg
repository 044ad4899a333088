SPECIFICATION Spec
CONSTANTS
    r1 = r1
    r2 = r2
    Slots <- AllSlots
    Paths <- TwoPaths
    FormSchemes <- TwoSchemes
    FormTexts <- TwoTexts
    Emails <- TwoEmails
    FormAccesses <- TwoAccesses
    Scenes <- AllScenes
    MaxUid = 2
    MaxDisturbances = 1
SYMMETRY SlotSymmetry
INVARIANTS
    TypeOK
    PathsUnique
    SavedUsers
PROPERTIES
    StoreSpec
    RulesFitWhenWritten
    LookedUpOnly
CHECK_DEADLOCK FALSE
