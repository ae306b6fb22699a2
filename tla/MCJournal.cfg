CONSTANTS
  Process = {"daemon", "cli"}
  Writers = {"daemon"}
  MaxSaves = 3
  Size <- MCSize
  MaxBytes = 2
  FsyncState = TRUE
  MaxAudit = 3
SPECIFICATION JournalSpec
INVARIANTS
  JournalTypeOK
  NothingLost
  FailedSaveUnseen
  RecoveredIsWholeAndRecent
  RefusedOnlyWhenReplaced
  TrailExplains
  GrantKept
