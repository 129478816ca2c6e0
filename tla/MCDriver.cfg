CONSTANTS
    vow = vow  ssa = ssa  inspect = inspect
    app = app  left = left  right = right  base = base  bad = bad  ext = ext
    Analyzers <- MCAnalyzers
    Packages <- MCPackages
    Requires <- MCRequires
    FactAnalyzers = {vow}
    RunDespiteErrors = {inspect}
    Imports <- MCImports
    Loaded = {app, left, right, base, bad}
    IllTyped = {bad}
    RootAnalyzers <- MCRootAnalyzers
    RootPackages <- MCRootPackages
    Objects <- MCObjects
    Home <- MCHome
    Visibility <- MCVisibility
    Findings = {1}
    Reporters <- MCReporters
    Fallible <- MCFallible
    Leaky <- MCLeaky
    AnalyzerRank <- MCAnalyzerRank
    PackageRank <- MCPackageRank
SPECIFICATION FairSpec
INVARIANTS InputsLive CountersExact ReleasedPromptly FactsExact
PROPERTIES ImplementsSchedule RunCompletes DeliveredStaysFinal
