SPECIFICATION ClusterSpec
CONSTANTS
  a = a
  b = b
  N = 2
  Operators <- MCTwo
  Nobody = Nobody
  Sessions <- MCSessions
  MaxRounds = 1
  Versions <- MCVersions
  Edits <- MCEdits
  Builds <- MCBuilds
INVARIANTS StoppedOrKnown GuardStopsAll StagedExact ExecutedExact
PROPERTIES StopsOwnOnly ReadyOnEvidence
CHECK_DEADLOCK FALSE
