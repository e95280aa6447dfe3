SPECIFICATION Spec
CONSTANTS
    TakeUsesOut <- RemoveImportNodes
    PlantTree <- Plant
    AcceptParts <- AcceptEach
    HangImport <- MakeImport
    HandOver <- TransferOrphans
    NameImport <- FinishImport
    EditsAt <- RenameEdits
    MarkEdited <- Renamed
    Uris <- MCUris
    Texts <- MCTexts
    Ast <- MCAst
    Workspaces <- Alias
    Edits <- MCEdits
    Doctored <- MCDoctored
    OnDisk <- MCUris
    MayFail = {}
    Walked = {"w"}
    Tasks = {1, 2}
    MaxGen = 2
    Asked = {}
    RenamesAt = {}
    MaxRenames = 0
INVARIANTS
    AliasesFollowDefinitions
    ChangesAreAnalyzed
CHECK_DEADLOCK FALSE
