SPECIFICATION Spec
CONSTANTS
  request = request
  token = token
  Requests <- MCRequests
  Tokens <- MCTokens
  Limit = 2
  Lengths = {0, 2, 4}
  Chunks = {0, 1, 2, 3}
  Longest = 4
  Statuses = {200, 404}
  OK = 200
  BadGateway = 502
  Unset = 0
  Nobody = nobody
INVARIANTS
  TypeOK
  EntriesAreTrue
  AnsweredIsDurable
CHECK_DEADLOCK FALSE
