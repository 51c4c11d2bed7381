SPECIFICATION FairSpec
CONSTANTS
  IncomingFrames <- MCFrames
  User <- MCUser
INVARIANTS SessionTypeOK SetErrorsQueried
PROPERTIES LocalChangeKept WriteCarriesAllUnsent WritesOnlyUserChanges SwingStepSentOnce UserChangesSent
