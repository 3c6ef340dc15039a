CONSTANTS
  NNodes = 3
  Parallel = 2
  Recs = 2
  Bandwidth = 1
  DirMode = TRUE
  Ns = "test"
  SetName = "s"
  NsReplies <- MCNsReplies
  SetReplies <- MCSetReplies
SPECIFICATION Spec
INVARIANT SuccessMeansAllScanned
