SPECIFICATION Spec
CONSTANTS
    s = s
    t = t
    v1 = v1
    v2 = v2
    Proc <- One
    PackageCount = 2
    WitPackage <- FirstTwo
    Version <- OneVersion
    Unreleased = Unreleased
    Absent = Absent
    PageSize = 1
    Pullable <- None
    NoEtag = NoEtag
    MaxChanges = 1
PROPERTIES
    ErrorMeansNoData
