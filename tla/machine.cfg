\* One service of each kind, one engine in the UI, one run of --nuke, two lines of the user.
SPECIFICATION Spec
CONSTANTS
  Scm = {scm}
  Console = {con}
  Ffi = {ffi}
  Tool = {tool}
  None = None
  UserLines = {a, b}
INVARIANTS
  TypeOK
  UserLinesKept
  EntriesHaveOwner
SYMMETRY UserSymmetry
CONSTRAINT NotRacedYet
CHECK_DEADLOCK FALSE
