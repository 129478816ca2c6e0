CONSTANTS
  A = A
  B = B
  x = x
  y = y
  z = z
  e = e
  Subjects = {A, B}
  Names = {x, y, z, e}
  Groups = {1, 2}
  Guarded = 1
  Other = Other
  Trusted = Trusted
  NilErr = NilErr
  Star = Star
  Blank = Blank
  Programs <- AnalysedPrograms

SPECIFICATION Spec
INVARIANTS
  LeakIsReported
  LeakIsTrue
  SurfacesAgree
  EmitIsHonest
