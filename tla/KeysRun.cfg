SPECIFICATION Spec
CONSTANTS
  NoUser = NoUser
  NoJob = NoJob
  Users = {u1, u2}
  Clients = {c1, c2}
  Jobs = {j1}
  Procs = {p1}
  Configured = {"token", "groq"}
  MaxMinted = 2
INVARIANT TypeOK
INVARIANT CallsUseOwnKeys
INVARIANT FallbackAfterRemoval
INVARIANT LogoutIsFinal
SYMMETRY Symmetry
