SPECIFICATION Spec
CONSTANTS
  p1 = p1
  p2 = p2
  c1 = c1
  k1 = k1
  k2 = k2
  k3 = k3
  k4 = k4
  k5 = k5
  net = net
  Absent = Absent
  Torn = Torn
  Nobody = Nobody
  Procs <- TwoProcs
  Clients = {}
  ClientLists <- NoList
  Keys <- FourKeys
  Hosts <- OneHost
  Addresses = {}
SYMMETRY OverlapSymmetry
INVARIANTS
  TypeOK
  MaterialBelongsTogether
PROPERTIES
  MismatchedCaStays
