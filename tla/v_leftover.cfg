SPECIFICATION Spec
CONSTANTS
  Req = {r1}
  NULL = NULL
  Fds = {1}
  MaxConns = 2
  MaxChunks = 2
INVARIANT OwnOutput
