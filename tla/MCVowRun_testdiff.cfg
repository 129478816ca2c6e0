CONSTANTS
    a1 = a1  a2 = a2  at = at  b1 = b1  b2 = b2  bx = bx  c1 = c1  t1 = t1
    lax = lax  strict = strict
    Paths <- MCPaths
    Files = {a1, a2, at, b1, b2, bx, c1}
    Src <- MCSrc
    InTest <- MCInTest
    ExtTest <- MCExtTest
    Imports <- MCImports
    Declares <- MCDeclares
    Mentions <- MCMentions
    Arguments <- TestOnlyFlags
    Repeated = {}
    NoSuchFile = NoSuchFile  NoSuchPath = NoSuchPath
    Configs = {lax, strict}
    Garbled = Garbled  Missing = Missing  NoConfig = NoConfig
    Strict = {strict}
    Excluded <- MCExcluded
    Sites <- MCSites
    InitialCode <- OneLeaky
    NoText = NoText
    MaxRuns = 1
    MaxEdits = 1
SPECIFICATION Spec
CHECK_DEADLOCK FALSE
INVARIANT ChangeIsCovered
