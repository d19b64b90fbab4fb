SPECIFICATION Spec
CONSTANTS
  c1 = c1  c2 = c2  l1 = l1
  Text = {"fountain.heartbeat", "install", "session", "app", "invalid", "huge", "beat", "event", "text", "secret", "k", "j"}
  NoText = "null"
  EmptyText = ""
  NotUtf8 = {"invalid"}
  Huge = {"huge"}
  Caller = {c1, c2}
  Driver = {c1}
  Logger = {c2}
  Loop = {l1}
  NoLoop = NoLoop
  InstallId = {"install"}
  SessionId = {"session"}
  AppMetadata = {"invalid"}
  HeartbeatName = {"beat"}
  DefaultName = "fountain.heartbeat"
  EventName = {"event"}
  LogLevel = {"fault", "other"}
  FieldArrays <- Arrays
  Path = {"path"}
  NoPath = NoPath
  NoInsert = NoInsert
  InvalidText = TRUE
  SpawnMayFail = TRUE
CHECK_DEADLOCK FALSE
INVARIANTS TypeOK StoresPublicFields StoredOfOneMoment HeartbeatTargeted RowLimitReaches
PROPERTY HeartbeatAtomic
