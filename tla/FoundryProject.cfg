SPECIFICATION Spec
CONSTANTS
    A = A
    B = B
    L = L
    O = O
    toB = toB
    byName = byName
    bySource = bySource
    byOut = byOut
    libPath = libPath
    outPath = outPath
    noFile = noFile
    good = good
    other = other
    bad = bad
    p1 = p1
    p2 = p2
    None = None
    Files = {A, B, L, O}
    Inside = {A, B, L}
    Names = {toB, byName, bySource, byOut}
    Relative = {toB}
    Versions = {1, 2, 3}
    Configs = {good, other, bad}
    Broken = {bad}
    Solc <- MCSolc
    Remappings <- MCRemappings
    Candidates <- MCCandidates
    DiskTexts <- MCDiskTexts
    Typed <- MCTyped
    Opened = {A, B}
    Calls = {p1, p2}
    MaxChanges = 2
    MaxEdits = 2
INVARIANTS TypeOK RestFollowsConfig InputsAreComplete
SYMMETRY MCSymmetry
CHECK_DEADLOCK FALSE
