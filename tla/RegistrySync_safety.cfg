SPECIFICATION Spec
CONSTANTS
    s = s
    t = t
    v1 = v1
    v2 = v2
    Proc <- Two
    PackageCount = 2
    WitPackage <- First
    Version <- TwoVersions
    Unreleased = Unreleased
    Absent = Absent
    PageSize = 2
    Pullable <- First
    NoEtag = NoEtag
    MaxChanges = 1
SYMMETRY Symmetry
INVARIANTS
    TypeOK
    EtagIsEarned
    RowsUnlessLost
    DependenciesUnlessLost
PROPERTIES
    StampIsEarned
