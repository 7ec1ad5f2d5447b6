CONSTANTS
  ClusterName = "c"
  Namespace = "ns"
  Replicas = 3
  Lags <- MC_Lags
  NoLag = NoLag
  Err = Err
SPECIFICATION Spec
INVARIANTS TypeOK SlaveSelection ResolvesToMember
