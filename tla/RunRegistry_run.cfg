SPECIFICATION RegistrySpec
CONSTANTS
  Questions = {q1, q2}
  SecretOps = {o1}
  Clients = {c1}
  NoRequest = NoRequest
  MaxFrames = 2
INVARIANTS
  NoFrameLost
  ShownArePending
PROPERTIES
  IsADesk
CHECK_DEADLOCK FALSE
