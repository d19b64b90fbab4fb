SPECIFICATION Spec
CONSTANTS
  s1 = s1  s2 = s2  c1 = c1  c2 = c2  p1 = p1  p2 = p2  p3 = p3
  Script = {s1, s2}
  Config = {c1, c2}
  NoConfig = NoConfig
  Pid = {p1, p2}
  NoPid = NoPid
INVARIANTS TypeOK AtMostOneRunner DisabledMeansStopped RunnersReachable ConfigurationKept StateFileStays VerifiedRunner
SYMMETRY ScriptSymmetry
