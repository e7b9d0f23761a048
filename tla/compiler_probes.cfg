SPECIFICATION Spec
INVARIANTS
  NamedForWhatItIs
  VersionRead
  PartsAgree
  ProbesAgree
  LanguageRead
CHECK_DEADLOCK FALSE
