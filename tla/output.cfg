SPECIFICATION FairSpec
CONSTANTS
  Kinds = {"page", "mapped", "file", "dir", "cgi", "raw"}
  BufferSize = 4
  HeaderSize = 2
  PartSize = 1
  Margin = 1
  PartLists <- MCPartLists
  Programs = {0, 3}
  SockSize = 2
  MaxAnswers = 2
  RequestTimeout = 1
INVARIANTS TypeOK OrderKept AnswerWhole
PROPERTY AnswerEnds
