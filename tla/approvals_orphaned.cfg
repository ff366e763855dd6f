SPECIFICATION FairSpec
CONSTANTS
  ask = ask
  quiz = quiz
  spawn = spawn
  secret = secret
  use = use
  again = again
  None = None
  Calls = {ask, spawn, quiz, use, again, secret}
  Kind <- KindOf
  Mixes <- OnlyPrompts
  MaxCrashes = 0
CHECK_DEADLOCK FALSE
PROPERTY PromptsEnd
