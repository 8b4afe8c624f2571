SPECIFICATION Spec
CONSTANTS
  Programs <- MCPrograms
  Persistent <- MCPersistent
INVARIANTS Serial NoEarlyReuse Disciplined StoredOnce
