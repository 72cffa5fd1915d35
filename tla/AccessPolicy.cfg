SPECIFICATION Spec
CONSTANTS
  c1 = c1
  c2 = c2
  d1 = d1
  Clients <- TwoClients
  Children <- OneChild
  Roles <- WritingRoles
  NoOne = NoOne
  Off = Off
INVARIANTS
  TypeOK
  OnlyDocumentedWrites
  DocumentedWritesWork
  TreeIsReadable
  FormsAgree
  StrictIsClosed
