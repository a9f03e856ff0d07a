SPECIFICATION Spec
CONSTANTS
  Ids = {i1, i2}
  Calls = {c1, c2, c3}
  d1 = d1
  d2 = d2
  Digests <- MCDigests
  Requests <- MCRequests
  BaseDailyLimit = 1
  InstantDailyLimit = 2
  None = None
SYMMETRY MCSymmetry
INVARIANTS SubmissionTypeOK BroadcastIsAuthorized OutcomeIsRemembered
PROPERTIES EndedIsNotRepeated
