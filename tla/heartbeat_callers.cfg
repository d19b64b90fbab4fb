SPECIFICATION LiveSpec
CONSTANTS
  thisInstall = thisInstall  otherInstall = otherInstall
  c1 = c1  c2 = c2  l1 = l1  l2 = l2  l3 = l3
  Caller = {c1, c2}
  Loop = {l1, l2}
  NoLoop = NoLoop
  InstallId = {thisInstall, otherInstall}
  InvalidText = FALSE
  NoInstallId = NoInstallId
  SpawnMayFail = TRUE
CHECK_DEADLOCK FALSE
INVARIANTS TypeOK TerminatesOnlyByRace OneLoopWhileRunning NoSharedHandle
PROPERTIES StopReturns KeepsBeating LoopsEnd
