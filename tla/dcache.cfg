SPECIFICATION FairSpec
CONSTANTS
  n1 = n1
  n2 = n2
  n3 = n3
  d1 = d1
  r1 = r1
  NoNode = NoNode
  Node = {n1, n2, n3}
  Digest = {d1}
  ReplicationFactor = 2
  GetAllReplicas <- MCReplicas
  DisableLocalLookup = FALSE
  maxHintedHandoffsPerPeer = 1
  MaxWrites = 2
  ReadOp = {r1}
  MaxFailures = 2
INVARIANTS TypeOK Replicated HandoffKept ReadSurvivesOne BackfillExact
PROPERTIES Delivered
CHECK_DEADLOCK FALSE
