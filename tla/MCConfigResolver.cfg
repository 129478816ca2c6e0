CONSTANTS
    slash = slash  mod = mod  pkg = pkg  sub = sub  bad = bad  other = other
    c1 = c1  c2 = c2
    Dirs = {slash, mod, pkg, sub, bad, other}
    Root = slash
    Parent <- MCParent
    Configs = {c1, c2}
    Content <- MCContent
    Nil = Nil  Miss = Miss  Error = Error
    Workers = {w1, w2}
    MaxFaults = 1
SPECIFICATION FairSpec
INVARIANT CacheCorrect
PROPERTIES AnswersCorrect ErrorsJustified CallsReturn
