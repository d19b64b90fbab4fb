SPECIFICATION Spec
CONSTANTS
  thisInstall = thisInstall  otherInstall = otherInstall
  c1 = c1  c2 = c2  l1 = l1  l2 = l2  l3 = l3
  Caller = {c1, c2}
  Loop = {l1, l2, l3}
  NoLoop = NoLoop
  InstallId = {thisInstall}
  InvalidText = FALSE
  NoInstallId = NoInstallId
  SpawnMayFail = TRUE
CHECK_DEADLOCK FALSE
INVARIANT NeverTerminates
