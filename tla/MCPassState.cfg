CONSTANTS
    f = f  g = g  NoFunc = NoFunc
    Funcs = {f, g}
    FirstLine <- MCFirstLine
    LastLine <- MCLastLine
    StmtLines = {3, 4, 7}
    PackageLines <- MCPackageLines
    Subjects = {"ErrA", "ErrB"}
    Packages <- MCPackages
SPECIFICATION FairSpec
INVARIANTS NeverReenters ReportedOnce ReportIsExact
PROPERTY PassCompletes
