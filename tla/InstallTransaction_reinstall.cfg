SPECIFICATION Spec
CONSTANTS
  Versions = {1, 2, 3}
  BytesOf <- MCBytesOf
  MaxTx = 3
  MaxStops = 2
  MaxEdits = 0
  Reinstalls = TRUE
  Absent = Absent
  Edited = Edited
  Partial = Partial
  NotInstalled = NotInstalled
  NoJournal = NoJournal
INVARIANTS HistoryIsBacked
