SPECIFICATION Spec
CONSTANTS
  c1 = c1
  c2 = c2
  d1 = d1
  p1 = p1
  p2 = p2
  Clients <- MCClients
  Children = {}
  Roles <- OneRole
  Procs <- MCOverlapping
  Absent = Absent
  Truncated = Truncated
  Garbled = Garbled
SYMMETRY Symmetry
INVARIANTS
  TypeOK
  RegistryAndAclAgree
  RunningBrokerEnforcesRegistry
  RunningBrokerGrantsWhatIsDocumented
  SoloSaveTouchesOnlyItsClient
PROPERTY
  BrokenRegistryIsFinal
  ImplementsEnrolment
