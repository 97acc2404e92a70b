SPECIFICATION FairSpec
CONSTANTS
  code = code
  text = text
  x = x
  Blank = Blank
  Problem = {code, text}
  CodeGraded = {code}
  NumTabs = 2
  Tab <- MCTab
  Answer = {x}
  MaxAttempts = 2
  MaxPolls = 2
  MaxMoves = 2
  MaxClicks = 2
  Allows = {"lose"}
INVARIANT TypeOK
INVARIANT LatestIsCurrent
INVARIANT QueuedIsPolled
 
PROPERTY NeverOlder
PROPERTY ShownInTheEnd
CHECK_DEADLOCK FALSE
