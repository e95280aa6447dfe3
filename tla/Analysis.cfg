SPECIFICATION FairSpec
CONSTANTS
    TakeUsesOut <- RemoveImportNodes
    PlantTree <- Plant
    AcceptParts <- AcceptEach
    HangImport <- MakeImport
    HandOver <- TransferOrphans
    NameImport <- FinishImport
    EditsAt <- RenameEdits
    MarkEdited <- Renamed
    Uris <- MCUris
    Texts <- MCTexts
    Ast <- MCAst
    Workspaces <- All
    Edits <- MCEdits
    Doctored <- MCDoctored
    OnDisk <- MCUris
    MayFail = {"a"}
    Walked = {"w"}
    Tasks = {1, 2}
    MaxGen = 2
    Asked = {"a"}
    RenamesAt = {108, 214, 220, 326}
    MaxRenames = 1
INVARIANTS
    TypeOK
    UndisturbedTreeIsText
    UsesFollowDefinitions
    UsesAndDefinitionsAgree
    ResolvedNamesAreOffered
    GraphOK
PROPERTY AnalysesEnd
CHECK_DEADLOCK FALSE
