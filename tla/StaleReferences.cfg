SPECIFICATION Spec
CONSTANTS
    TakeUsesOut <- RemoveImportNodes
    PlantTree <- Plant
    AcceptParts <- AcceptEach
    HangImport <- MakeImport
    HandOver <- TransferOrphans
    NameImport <- FinishImport
    EditsAt <- RenameEdits
    MarkEdited <- Renamed
    Uris <- MCUris
    Texts <- MCTexts
    Ast <- MCAst
    Workspaces <- Linked
    Edits <- MCEdits
    Doctored <- MCDoctored
    OnDisk <- MCUris
    MayFail = {}
    Walked = {}
    Tasks = {1, 2}
    MaxGen = 2
    Asked = {}
    RenamesAt = {}
    MaxRenames = 0
INVARIANT ReferencesExist
CHECK_DEADLOCK FALSE
