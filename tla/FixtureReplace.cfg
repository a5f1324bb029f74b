SPECIFICATION Spec
CONSTANTS
  a = a  r = r  s = s  m = m  o = o
  Procs = {a, r, m, o}
  Kind <- KindOf
  Pid <- SamePid
  Start <- StartNone
INVARIANTS
  RecoverySound
  SomeFixtureSurvives
CHECK_DEADLOCK FALSE
