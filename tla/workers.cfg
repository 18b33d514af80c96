SPECIFICATION FairSpec
CONSTANTS
  Req = {r1, r2, r3}
  NULL = NULL
  Fds = {1, 2, 3}
  MaxConns = 3
  MaxChunks = 1
INVARIANTS TypeOK ListsSound Linked WalkVisitsAll AskerPolls OwnOutput
PROPERTY PollEnds
