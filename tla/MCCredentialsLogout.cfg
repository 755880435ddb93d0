SPECIFICATION CredentialsSpec
CONSTANTS
  Procs = {p1, p2}
  p1 = p1
  p2 = p2
  RolesOf <- MCRolesOf
  NoProc = NoProc
  Users = {u1}
  NoUser = NoUser
  MaxTokens = 3
INVARIANT LogoutSticks
\* With all its tokens issued the server may have nothing more to say.
CHECK_DEADLOCK FALSE
