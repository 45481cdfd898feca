SPECIFICATION Spec
CONSTANTS
  Versions = {1, 2, 3}
  BytesOf <- MCBytesOf
  MaxTx = 2
  MaxStops = 2
  MaxEdits = 0
  Reinstalls = FALSE
  Absent = Absent
  Edited = Edited
  Partial = Partial
  NotInstalled = NotInstalled
  NoJournal = NoJournal
INVARIANTS RecoveryConverges
