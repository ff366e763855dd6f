SPECIFICATION FairSpec
CONSTANTS
  ask = ask
  quiz = quiz
  spawn = spawn
  secret = secret
  use = use
  again = again
  None = None
  Calls = {ask, spawn, quiz, use, again, secret}
  Kind <- KindOf
  Mixes <- General
  MaxCrashes = 1
CHECK_DEADLOCK FALSE
INVARIANT ConfirmationsReachable
INVARIANT OneRequest
PROPERTY NeverAfterDenial
PROPERTY KeepsPromise
PROPERTY CallsEnd
PROPERTY RowsResolved
