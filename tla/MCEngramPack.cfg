SPECIFICATION Spec
CONSTANTS
  p1 = p1
  p2 = p2
  p3 = p3
  c1 = c1
  c2 = c2
  c3 = c3
  c4 = c4
  Runs <- MCRuns
  Layers = 2
  Rows = 3
  Sampled <- MCSampled
  Bytes <- MCBytes
  Identity <- MCIdentity
  Checkpoints <- MCCheckpoints
  None = None
  Torn = Torn
  MaxLosses = 2
SYMMETRY MCSymmetry
INVARIANTS AttachWhole ManifestExact
PROPERTIES PassExact
CHECK_DEADLOCK FALSE
