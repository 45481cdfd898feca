SPECIFICATION Spec
CONSTANTS
  Requests = {c1, c2}
  Twins = {t1, t2}
  Third = other
  Reviewers = {other}
  Versions = {1, 2}
  Contents = {1, 2, 3}
  MaxRevision = 3
  MaxCommit = 2
  MaxSnapshots = 2
  MaxCandidates = 3
  Releases = {v1, v2}
  MaxAdoptions = 2
  MaxBindings = 1
  MaxPushes = 1
  MaxRenames = 1
  MaxEdits = 1
  MaxFaults = 1
  MaxAbsences = 0
  MaxTrouble = 2
  MaxCalls = 2
  NoLock = none
  BytesOf <- PackageBytes
  MaxTx = 5
  MaxStops = 4
  NoTree = Absent
  Edited = Edited
  Partial = Partial
SYMMETRY Symmetry
INVARIANTS TypesOK
  SharedIsReviewed ImprovementsAreReplayable DraftsAreSubmittedOnce
  LibrariesAreConsistent RootHasOneOwner InstallationIsRecoverable
PROPERTIES
  WhatWasReviewedStays LibrariesMoveKnowingly RecoveryKeepsItsSide
CHECK_DEADLOCK FALSE
