SPECIFICATION Spec
CONSTANTS
  Sessions = {s1, s2}
  Contents = {v1, v2}
  KeepPortable = FALSE
SYMMETRY Symmetry
INVARIANTS
  TypeOK
  RunsOnlyWhatIsPublished
  AloneFindsTheLauncher
  AloneLeavesTrusted
  AloneRunsWhatItTrusts
  NothingLeftBehind
