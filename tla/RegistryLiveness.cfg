SPECIFICATION FairSpec
CONSTANTS
  c1 = c1
  c2 = c2
  d1 = d1
  p1 = p1
  p2 = p2
  Clients <- MCClients
  Children <- MCChildren
  Roles <- MCRoles
  Procs <- MCSerial
  Absent = Absent
  Truncated = Truncated
  Garbled = Garbled
PROPERTY
  ChangesTakeEffect
