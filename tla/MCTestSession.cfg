SPECIFICATION Spec
CONSTANTS
  Addons = {bundle, other}
  Bundle = bundle
  Sections = {known, added}
  Known = {known}
  FailOnLogErrors = TRUE
  MaxTests = 2
  MaxSteps = 2
  MaxFaults = 1
INVARIANTS
  TypeOK
  CleanStart
  LeftoverIsClosed
  InstalledIsUndone
  SharedAddonStays
  FreshDialogIsRecognised
  ErrorsAreReported
