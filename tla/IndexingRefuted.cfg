SPECIFICATION Spec
CONSTANTS
  ws = ws
  pkg = pkg
  ws2 = ws2
  hardhat = hardhat
  foundry = foundry
  token = token
  vault = vault
  Folders = {ws, pkg, ws2}
  StartsWith <- MCStartsWith
  Inside <- MCInside
  Projects = {hardhat, foundry}
  Priority <- MCPriority
  Found <- MCFound
  Files = {token, vault}
  FilesIn <- MCFilesIn
  ClaimedBy <- MCClaimedBy
  Calls = {c1, c2}
  MaxEvents = 2
SYMMETRY Symmetry
CHECK_DEADLOCK FALSE
INVARIANTS RestNoFileIsMissing RestProjectsAreIndexed RestFoldersAreCovered RestFilesBelongToBest
