SPECIFICATION LockSpec
CONSTANTS
  x1 = x1
  x2 = x2
  c1 = c1
  c2 = c2
  n1 = n1
  n2 = n2
  n3 = n3
  Nobody = Nobody
  Replicas <- MCReplicas
  Connections <- MCConnections
  Runs <- MCRuns
  MaxHeld = 4
INVARIANTS LockMeansRunning
