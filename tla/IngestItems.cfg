SPECIFICATION FairSpec
CONSTANTS
    Files = {f1, f2}
    MaxDocs = 4
    Nobody = Nobody
    MaxKeyLosses = 1
    MaxCrashes = 1
INVARIANTS NoDoubleCounting SuccessIsAccountedFor FailureLeavesNoItems
PROPERTIES ImplementsDocumentLifecycle EveryTaskEnds
CHECK_DEADLOCK FALSE
