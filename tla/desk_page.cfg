\* The user changes tabs while commands run, files fail and another program saves.
SPECIFICATION DeskSpec
CONSTANTS
  Words <- MCWords
  Edits <- MCEdits
  Files = {"a.rs"}
  DiskText <- MCDiskText
  ReadMayFail = TRUE
  WriteMayFail = TRUE
  MaxProposals = 2
  MaxLeaves = 2
  MaxSaves = 1
INVARIANTS
  PageTellsTruth
  WrittenStays
CHECK_DEADLOCK FALSE
